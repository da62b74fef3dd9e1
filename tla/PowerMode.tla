------------------------------ MODULE PowerMode ------------------------------
(***************************************************************************)
(* The power modes: PowerModeModule and PowerModePolicy.  A mode's policy  *)
(* overrides settings of the user; those with the recover flag are backed  *)
(* up in recoverMap_, which is saved in the settings as well, and restored *)
(* by the next mode that leaves them alone.  The service may crash at any  *)
(* step and reads mode, sub-mode and back-up again when it restarts.       *)
(***************************************************************************)
EXTENDS Integers

CONSTANTS
    Switches,     \* the settings that a mode may override
    Readable,     \* those of them that GetSettingSwitchState reads
    Values,       \* the values of a setting
    Policy        \* power_mode_config.xml: [mode -> [switch -> [value, recover]]]

VARIABLES
    mode,             \* mode_
    subMode,          \* subMode_
    switchMap,        \* switchMap_, INIT_VALUE_FALSE for a switch that is not in it
    recoverMap,       \* recoverMap_, in the same way
    observerRegisted, \* observerRegisted_
    ready,            \* InitPowerMode has run (isReady_)
    modeCall,         \* where the owner of modeMutex_ is, "idle" when it is free
    target,           \* the mode and the sub-mode it sets
    observed,         \* the mode that PowerModeSettingUpdateFunc has read and is to set
    settings,         \* persistent: the settings
    savedMode,        \* persistent: SETTING_POWER_MODE_KEY
    savedSubMode,     \* persistent: SETTING_POWER_SUB_MODE_KEY
    savedRecoverMap,  \* persistent: SETTING_POWER_MODE_BACKUP_KEY, << >> before the first save
    noticed,          \* changes of settings that an observer is to be told
    user,             \* history: the value the user gave each setting
    disturbed         \* history: a change of mode met a crash, or a change it could not see

vars == << mode, subMode, switchMap, recoverMap, observerRegisted, ready, modeCall, target,
           observed, settings, savedMode, savedSubMode, savedRecoverMap, noticed, user, disturbed >>
volatile == << mode, subMode, switchMap, recoverMap, observerRegisted, ready >>
saved == << savedMode, savedSubMode, savedRecoverMap >>

Modes == { "NORMAL", "POWER_SAVE", "PERFORMANCE", "EXTREME_POWER_SAVE", "CUSTOM_POWER_SAVE" }
SubModes == { "INVALID", "SUPER_POWER_SAVE", "EMERGENCY" }
INIT_VALUE_FALSE == -2
Maps == [ Switches -> Values \cup { INIT_VALUE_FALSE } ]
NoTarget == [ mode |-> "NORMAL", sub |-> "INVALID" ]
Nothing == [ s \in Switches |-> INIT_VALUE_FALSE ]

TypeOK ==
    /\ mode \in Modes /\ savedMode \in Modes /\ observed \in Modes \cup {"none"}
    /\ subMode \in SubModes /\ savedSubMode \in SubModes
    /\ switchMap \in Maps /\ recoverMap \in Maps
    /\ savedRecoverMap \in Maps \cup { << >> }
    /\ settings \in [ Switches -> Values ] /\ user \in [ Switches -> Values ]
    /\ modeCall \in { "idle", "policy", "actions", "save", "sub" }
    /\ target \in [ mode : Modes, sub : SubModes ]
    /\ noticed \subseteq Switches
    /\ { observerRegisted, ready, disturbed } \subseteq BOOLEAN

Init ==
    /\ mode = "NORMAL" /\ subMode = "INVALID"
    /\ switchMap = Nothing /\ recoverMap = Nothing
    /\ observerRegisted = FALSE /\ ready = FALSE
    /\ modeCall = "idle" /\ target = NoTarget /\ observed = "none"
    /\ \E v \in Values : settings = [ s \in Switches |-> v ]
    /\ savedMode = "NORMAL" /\ savedSubMode = "EMERGENCY" /\ savedRecoverMap = << >>
    /\ noticed = {} /\ user = settings /\ disturbed = FALSE

Overrides(m) == { s \in Switches : Policy[m][s].value # INIT_VALUE_FALSE }

-------------------------------------------------------------------------------
(* PowerModePolicy *)

\* A switch that is not readable leaves the 0 that backupMap_[id] creates.
GetSettingSwitchState(s) == IF s \in Readable THEN settings[s] ELSE 0

ReadPowerModePolicy(m) ==
    [ s \in Switches |-> IF s \in Overrides(m) /\ Policy[m][s].recover
                         THEN GetSettingSwitchState(s) ELSE INIT_VALUE_FALSE ]

\* A mutant of ComparePowerModePolicy: the back-up is taken anew at every change of the mode.
ComparePowerModePolicy_Anew(m, held, backup) ==
    /\ switchMap' = [ s \in Switches |-> IF s \in Overrides(m) THEN Policy[m][s].value
                                         ELSE held[s] ]
    /\ recoverMap' = backup

\* The back-up held of an earlier mode goes on if the new mode overrides the switch too, and is
\* the value to set if it does not.
ComparePowerModePolicy(m, held, backup) ==
    /\ switchMap' = [ s \in Switches |-> IF s \in Overrides(m) THEN Policy[m][s].value
                                         ELSE held[s] ]
    /\ recoverMap' = [ s \in Switches |-> IF s \in Overrides(m) /\ held[s] # INIT_VALUE_FALSE
                                          THEN held[s] ELSE backup[s] ]

\* The JSON text in the settings is an object of the switches that are backed up.
SavePowerModeRecoverMap(map) == savedRecoverMap' = map

\* Its members are written over those of recoverMap_.
ParseRecoverJson ==
    [ s \in Switches |-> IF savedRecoverMap[s] # INIT_VALUE_FALSE
                         THEN savedRecoverMap[s] ELSE recoverMap[s] ]

UpdatePowerModePolicy(m, held) ==
    /\ ComparePowerModePolicy(m, held, ReadPowerModePolicy(m))
    /\ SavePowerModeRecoverMap(recoverMap')

GetPowerModeValuePolicy(s) == switchMap[s]

TriggerAllActions(map) ==
    settings' = [ s \in Switches |-> IF map[s] # INIT_VALUE_FALSE THEN map[s] ELSE settings[s] ]

-------------------------------------------------------------------------------
(* PowerModeModule *)

CanTransitTo(from, to) ==
    ~( /\ from \in { "POWER_SAVE", "EXTREME_POWER_SAVE", "CUSTOM_POWER_SAVE" }
       /\ to = "PERFORMANCE" )

ResetSubMode(m) ==
    IF m # "EXTREME_POWER_SAVE" /\ subMode # "INVALID"
    THEN subMode' = "INVALID" /\ savedSubMode' = "INVALID"
    ELSE UNCHANGED << subMode, savedSubMode >>

\* The four observers are gone, and what they were still to be told is lost.
UnregisterSaveModeObserver ==
    /\ observerRegisted' = FALSE
    /\ noticed' = {}

RegisterSaveModeObserver ==
    observerRegisted' = (mode \in { "POWER_SAVE", "EXTREME_POWER_SAVE" })

\* SetModeItem up to EnableMode.  EXTREME_POWER_SAVE comes with a sub-mode, which alone is set
\* when the mode is the same.
SetModeItem(m, sub) ==
    /\ modeCall = "idle"
    /\ CanTransitTo(mode, m)
    /\ target' = [ mode |-> m, sub |-> sub ]
    /\ \/ /\ m = mode /\ m = "EXTREME_POWER_SAVE"
          /\ modeCall' = "sub"
          /\ UNCHANGED << mode, subMode, savedSubMode, observerRegisted, noticed, disturbed >>
       \/ /\ m # mode
          /\ ResetSubMode(m)
          /\ UnregisterSaveModeObserver
          /\ disturbed' = (disturbed \/ ~ready \/ noticed # {})
          /\ mode' = m
          /\ modeCall' = "policy"
    /\ UNCHANGED << switchMap, recoverMap, ready, settings, savedMode, savedRecoverMap, user >>

SetDeviceMode(m) ==
    /\ SetModeItem(m, IF m = "EXTREME_POWER_SAVE" THEN "EMERGENCY" ELSE "INVALID")
    /\ UNCHANGED observed

SetDeviceSubMode(sub) ==
    /\ sub # "INVALID"
    /\ SetModeItem("EXTREME_POWER_SAVE", sub)
    /\ UNCHANGED observed

EnableModePolicy ==
    /\ modeCall = "policy"
    /\ UpdatePowerModePolicy(mode, recoverMap)
    /\ modeCall' = "actions"
    /\ UNCHANGED << mode, subMode, observerRegisted, ready, target, observed, settings, savedMode,
                    savedSubMode, noticed, user, disturbed >>

EnableModeActions ==
    /\ modeCall = "actions"
    /\ TriggerAllActions(switchMap)
    /\ modeCall' = "save"
    /\ UNCHANGED << volatile, target, observed, saved, noticed, user, disturbed >>

\* SaveCurrentMode and, in the two modes of the API that save power, the observers.
EnableModeSave ==
    /\ modeCall = "save"
    /\ savedMode' = target.mode
    /\ RegisterSaveModeObserver
    /\ modeCall' = IF target.sub = "INVALID" THEN "idle" ELSE "sub"
    /\ target' = IF target.sub = "INVALID" THEN NoTarget ELSE target
    /\ UNCHANGED << mode, subMode, switchMap, recoverMap, ready, observed, settings,
                    savedSubMode, savedRecoverMap, noticed, user, disturbed >>

SetModeAndSubModeItem ==
    /\ modeCall = "sub"
    /\ subMode' = target.sub
    /\ savedSubMode' = target.sub
    /\ modeCall' = "idle"
    /\ target' = NoTarget
    /\ UNCHANGED << mode, switchMap, recoverMap, observerRegisted, ready, observed,
                    settings, savedMode, savedRecoverMap, noticed, user, disturbed >>

InitialSubMode == IF savedMode = "EXTREME_POWER_SAVE" THEN savedSubMode ELSE "INVALID"

\* No mode was set before InitPowerMode (lastMode_), and the saved one is PERFORMANCE; only builds
\* with the resource schedule service ask.
IsBootNeedActions == savedMode = "PERFORMANCE"

\* When the data share is ready, without modeMutex_.  Without a saved back-up the policy of the
\* saved mode is applied.  With one it may be read again for PERFORMANCE, but at boot an action
\* leaves every setting alone that has a value.
InitPowerMode ==
    /\ ~ready
    /\ ready' = TRUE
    /\ mode' = savedMode
    /\ subMode' = InitialSubMode
    /\ disturbed' = (disturbed \/ modeCall # "idle")
    /\ \/ /\ savedRecoverMap = << >>
          /\ UpdatePowerModePolicy(savedMode, recoverMap)
          /\ TriggerAllActions(switchMap')
       \/ /\ savedRecoverMap # << >>
          /\ recoverMap' = ParseRecoverJson
          /\ UNCHANGED << switchMap, settings, savedRecoverMap >>
       \/ /\ savedRecoverMap # << >> /\ IsBootNeedActions
          /\ UpdatePowerModePolicy(savedMode, ParseRecoverJson)
          /\ UNCHANGED settings
    /\ UNCHANGED << observerRegisted, modeCall, target, observed, savedMode, savedSubMode, noticed,
                    user >>

RemoveBackupMapSettingSwitch(s) ==
    /\ recoverMap' = [ recoverMap EXCEPT ![s] = INIT_VALUE_FALSE ]
    /\ IF recoverMap[s] # INIT_VALUE_FALSE THEN SavePowerModeRecoverMap(recoverMap')
       ELSE UNCHANGED savedRecoverMap

\* An observer is told.  A value that is not the mode's is the user's and ends the back-up.
SettingUpdateFunc(s) ==
    /\ s \in noticed /\ observerRegisted
    /\ noticed' = noticed \ {s}
    /\ IF settings[s] = GetPowerModeValuePolicy(s) THEN UNCHANGED << recoverMap, savedRecoverMap >>
       ELSE RemoveBackupMapSettingSwitch(s)
    /\ UNCHANGED << mode, subMode, switchMap, observerRegisted, ready, modeCall, target, observed,
                    settings, savedMode, savedSubMode, user, disturbed >>

-------------------------------------------------------------------------------
(* The settings, which other programs write, and their observer of the mode *)

\* The mode's own value is not told from the mode's while there is a back-up.
UserSets(s, v) ==
    /\ v # settings[s]
    /\ settings' = [ settings EXCEPT ![s] = v ]
    /\ user' = IF v = switchMap[s] /\ recoverMap[s] # INIT_VALUE_FALSE THEN user
               ELSE [ user EXCEPT ![s] = v ]
    /\ noticed' = IF observerRegisted THEN noticed \cup {s} ELSE noticed
    /\ disturbed' = (disturbed \/ modeCall # "idle" \/ ~ready \/ s \in noticed
                     \/ (s \in Overrides(mode) /\ ~observerRegisted))
    /\ UNCHANGED << volatile, modeCall, target, observed, saved >>

\* Another program writes the mode's setting.
SettingsSetMode(m) ==
    /\ modeCall = "idle" /\ ready
    /\ savedMode' = m
    /\ UNCHANGED << volatile, modeCall, target, observed, settings, savedSubMode, savedRecoverMap,
                    noticed, user, disturbed >>

\* GetDeviceMode and ReadCurrentMode; SetDeviceMode follows, other calls may come between.
PowerModeSettingUpdateFunc ==
    \/ /\ observed = "none" /\ modeCall = "idle" /\ ready
       /\ savedMode # mode
       /\ observed' = savedMode
       /\ UNCHANGED << volatile, modeCall, target, settings, saved, noticed, user, disturbed >>
    \/ /\ observed # "none"
       /\ SetModeItem(observed, IF observed = "EXTREME_POWER_SAVE" THEN "EMERGENCY" ELSE "INVALID")
       /\ observed' = "none"
    \/ /\ observed # "none" /\ ~CanTransitTo(mode, observed)
       /\ observed' = "none"
       /\ UNCHANGED << volatile, modeCall, target, settings, saved, noticed, user, disturbed >>

\* The service dies and is started again.
Crash ==
    /\ ready
    /\ mode' = "NORMAL" /\ subMode' = "INVALID"
    /\ switchMap' = Nothing /\ recoverMap' = Nothing
    /\ observerRegisted' = FALSE /\ ready' = FALSE
    /\ modeCall' = "idle" /\ target' = NoTarget /\ observed' = "none"
    /\ noticed' = {}
    /\ disturbed' = (disturbed \/ modeCall # "idle" \/ savedMode # mode \/ noticed # {})
    /\ UNCHANGED << settings, saved, user >>

-------------------------------------------------------------------------------
Next ==
    \/ \E m \in Modes : SetDeviceMode(m) \/ SettingsSetMode(m)
    \/ \E sub \in SubModes : SetDeviceSubMode(sub)
    \/ EnableModePolicy \/ EnableModeActions \/ EnableModeSave \/ SetModeAndSubModeItem
    \/ InitPowerMode \/ PowerModeSettingUpdateFunc \/ Crash
    \/ \E s \in Switches : SettingUpdateFunc(s) \/ \E v \in Values : UserSets(s, v)

Spec == Init /\ [][Next]_vars

-------------------------------------------------------------------------------
(* Properties *)

Recoverable ==
    { s \in Readable : \A m \in Modes : s \in Overrides(m) => Policy[m][s].recover }

\* Whatever modes the device goes through, and whether it restarts in one, a setting has the
\* user's value again in every mode that leaves it alone, unless the change of mode met a crash,
\* a change of the user that no observer saw, or InitPowerMode on another thread.
UserValueIsRestored ==
    ready /\ modeCall = "idle" /\ ~disturbed =>
        \A s \in Recoverable \ Overrides(mode) : settings[s] = user[s]

==============================================================================
