---------------------------- MODULE System_proofs ----------------------------
(***************************************************************************)
(* Proofs about the settings: for any names, descriptions and networks,    *)
(* and any number of commands and restarts.                                *)
(***************************************************************************)
EXTENDS System, TLAPS

(* Flash never holds settings that have a name but not the key.            *)
Keyed == param.key \/ param.name = Empty

(* SettingsInSync, also for the rest of start-up.                          *)
Synced == pc \notin {"system_restore", "load", "save"} /\ ~edited => SETTINGS = param

IInv == TypeOK /\ Keyed /\ Synced
-----------------------------------------------------------------------------
LEMMA ZeroIsSetting == Zero \in Setting
BY DEF Zero, Setting

LEMMA FactoryType == Factory \in [mode : {1, 2}, network : Networks \cup {Empty}]
BY DEF Factory, SOFTAP_MODE

LEMMA InitIInv == Init => IInv
<1> SUFFICES ASSUME Init PROVE IInv
  OBVIOUS
<1>1. TypeOK
  <2>1. commands \in 0..MaxCommands /\ boots \in 0..MaxBoots
    BY ConstantsOK DEF Init
  <2>2. last_opmode \in 0..2 /\ opm \in 0..2 /\ opmode \in {1, 2}
    BY DEF Init, SOFTAP_MODE
  <2>3. SETTINGS \in Setting /\ param \in Setting
    BY ZeroIsSetting DEF Init
  <2>4. wifi \in [mode : {1, 2}, network : Networks \cup {Empty}]
    BY FactoryType DEF Init
  <2> QED
    BY <2>1, <2>2, <2>3, <2>4 DEF Init, TypeOK
<1>2. Keyed /\ Synced
  BY DEF Init, Keyed, Synced, Zero
<1> QED
  BY <1>1, <1>2 DEF IInv

(* Start-up, a power failure, and the reset of the SDK's configuration.    *)
LEMMA RestartKeeps == IInv /\ Restart => IInv'
<1> SUFFICES ASSUME IInv, Restart PROVE IInv'
  OBVIOUS
<1>1. boots' \in 0..MaxBoots /\ commands' \in 0..MaxCommands
  BY ConstantsOK DEF IInv, TypeOK, Restart
<1>2. opmode' \in {1, 2} /\ last_opmode' \in 0..2 /\ opm' \in 0..2
  BY DEF IInv, TypeOK, Restart
<1>3. SETTINGS' \in Setting /\ param' \in Setting
  BY ZeroIsSetting DEF IInv, TypeOK, Restart
<1> QED
  BY <1>1, <1>2, <1>3 DEF IInv, TypeOK, Keyed, Synced, Restart

LEMMA UserInitKeeps == IInv /\ user_init => IInv'
BY DEF IInv, TypeOK, Keyed, Synced, Setting, user_init, system_restore, Factory,
       settings, tick, call, bounds, SOFTAP_MODE, STATION_MODE

LEMMA RestoreAgainKeeps == IInv /\ RestoreAgain => IInv'
BY DEF IInv, TypeOK, Keyed, Synced, Setting, RestoreAgain, system_restore, Factory,
       settings, tick, call, bounds, SOFTAP_MODE, STATION_MODE

LEMMA LoadKeeps == IInv /\ CSSettingsLoad => IInv'
<1> SUFFICES ASSUME IInv, CSSettingsLoad PROVE IInv'
  OBVIOUS
<1>1. TypeOK'
  <2>1. Default \in Setting
    BY DEF Default, Setting
  <2> QED
    BY <2>1 DEF IInv, TypeOK, CSSettingsLoad, station, tick, call, bounds
<1>2. Keyed'
  BY DEF IInv, Keyed, CSSettingsLoad
<1>3. Synced'
  BY DEF IInv, Synced, CSSettingsLoad
<1> QED
  BY <1>1, <1>2, <1>3 DEF IInv

(* What is saved has the key, and is what is in RAM.                       *)
LEMMA SaveEffect ==
  ASSUME TypeOK, CSSettingsSave
  PROVE  SETTINGS' \in Setting /\ param' = SETTINGS' /\ param'.key /\ edited' = FALSE
BY DEF TypeOK, Setting, CSSettingsSave

LEMMA SaveDefaultsKeeps == IInv /\ SaveDefaults => IInv'
<1> SUFFICES ASSUME IInv, SaveDefaults PROVE IInv'
  OBVIOUS
<1>1. SETTINGS' \in Setting /\ param' = SETTINGS' /\ param'.key /\ edited' = FALSE
  BY SaveEffect DEF IInv, SaveDefaults
<1> QED
  BY <1>1 DEF IInv, TypeOK, Keyed, Synced, SaveDefaults, station, tick, call, bounds

LEMMA PreInitKeeps == IInv /\ CSPreInit => IInv'
BY DEF IInv, TypeOK, Keyed, Synced, CSPreInit, settings, tick, call, bounds

(* A command: it edits, saves, loads, or is about the station.             *)
LEMMA CommandKeeps == IInv /\ issue_command => IInv'
<1> SUFFICES ASSUME IInv, issue_command PROVE IInv'
  OBVIOUS
<1> USE DEF IInv, issue_command, tick
<1>0. commands' \in 0..MaxCommands
  BY ConstantsOK DEF TypeOK
<1>1. CASE Name
  <2>1. PICK n \in Names : SETTINGS' = [SETTINGS EXCEPT !.name = n] /\ edited' = TRUE /\ UNCHANGED <<param, pc, station, call>>
    BY <1>1 DEF Name, Edit
  <2>2. SETTINGS' \in Setting
    BY <2>1 DEF TypeOK, Setting
  <2> QED
    BY <1>0, <2>1, <2>2 DEF TypeOK, Keyed, Synced, station, call
<1>2. CASE Describe
  <2>1. PICK d \in Descriptions : SETTINGS' = [SETTINGS EXCEPT !.desc = d] /\ edited' = TRUE /\ UNCHANGED <<param, pc, station, call>>
    BY <1>2 DEF Describe, Edit
  <2>2. SETTINGS' \in Setting
    BY <2>1 DEF TypeOK, Setting
  <2> QED
    BY <1>0, <2>1, <2>2 DEF TypeOK, Keyed, Synced, station, call
<1>3. CASE Save
  <2>1. SETTINGS' \in Setting /\ param' = SETTINGS' /\ param'.key /\ edited' = FALSE
    BY <1>3, SaveEffect DEF Save, IInv
  <2>2. UNCHANGED <<wifi, opmode, stat, printed_ip, attached_to_mdns, tick_flag, last_opmode, opm, pc,
                    force_reinit, caller, boots>>
    BY <1>3 DEF Save, station, call
  <2>3. TypeOK'
    <3>1. SETTINGS' \in Setting /\ param' \in Setting /\ edited' \in BOOLEAN
      BY <2>1
    <3> QED
      BY <1>0, <2>2, <3>1 DEF TypeOK
  <2>4. Keyed' /\ Synced'
    BY <2>1 DEF Keyed, Synced
  <2> QED
    BY <2>3, <2>4
<1>4. ASSUME NEW force \in BOOLEAN, Load(force) PROVE IInv'
  BY <1>0, <1>4 DEF Load, TypeOK, Keyed, Synced, settings, station
<1>5. CASE W1
  BY <1>0, <1>5 DEF W1, TypeOK, Keyed, Synced, settings, call, STATION_MODE
<1>6. CASE W2
  <2>1. wifi' \in [mode : {1, 2}, network : Networks \cup {Empty}]
    BY <1>6 DEF W2, TypeOK, SOFTAP_MODE
  <2> QED
    BY <1>0, <1>6, <2>1 DEF W2, TypeOK, Keyed, Synced, settings, call, SOFTAP_MODE
<1> QED
  BY <1>1, <1>2, <1>3, <1>4, <1>5, <1>6

(* The tasks and the SDK leave the settings alone.                         *)
LEMMA TasksKeep == IInv /\ (myTimer \/ CSTick \/ Ticked \/ SlowTick \/ Station) => IInv'
<1> SUFFICES ASSUME IInv, myTimer \/ CSTick \/ Ticked \/ SlowTick \/ Station PROVE IInv'
  OBVIOUS
<1>1. UNCHANGED settings /\ UNCHANGED bounds /\ UNCHANGED call
  BY DEF myTimer, CSTick, Ticked, SlowTick, Station, bounds, call
<1>2. Keyed' /\ Synced'
  <2>1. {pc, pc'} \cap {"system_restore", "load", "save"} = {}
    BY DEF myTimer, CSTick, Ticked, SlowTick, Station
  <2> QED
    BY <1>1, <2>1 DEF IInv, Keyed, Synced, settings
<1>3. TypeOK'
  <2>1. CASE myTimer
    BY <1>1, <2>1 DEF IInv, TypeOK, myTimer, settings, station, call, bounds
  <2>2. CASE CSTick
    BY <1>1, <2>2 DEF IInv, TypeOK, CSTick, settings, station, call, bounds
  <2>3. CASE Ticked
    BY <1>1, <2>3 DEF IInv, TypeOK, Ticked, settings, station, tick, call, bounds
  <2>4. CASE SlowTick
    BY <1>1, <2>4 DEF IInv, TypeOK, SlowTick, settings, call, bounds
  <2>5. CASE Station
    BY <1>1, <2>5 DEF IInv, TypeOK, Station, settings, tick, call, bounds
  <2> QED
    BY <2>1, <2>2, <2>3, <2>4, <2>5
<1> QED
  BY <1>2, <1>3 DEF IInv

LEMMA NextKeeps == IInv /\ [Next]_vars => IInv'
<1> SUFFICES ASSUME IInv, [Next]_vars PROVE IInv'
  OBVIOUS
<1>1. CASE UNCHANGED vars
  BY <1>1 DEF IInv, TypeOK, Keyed, Synced, Setting, vars, settings, station, tick, call, bounds
<1>2. CASE Next
  BY <1>2, RestartKeeps, UserInitKeeps, RestoreAgainKeeps, LoadKeeps, SaveDefaultsKeeps,
     PreInitKeeps, CommandKeeps, TasksKeep DEF Next, Program
<1> QED
  BY <1>1, <1>2
-----------------------------------------------------------------------------
(* The inductive invariant of start-up and the settings.                   *)
THEOREM SystemInvariant == Spec => []IInv
BY InitIInv, NextKeeps, PTL DEF Spec

(* Every variable has its type.                                            *)
THEOREM SystemTypes == Spec => []TypeOK
<1>1. IInv => TypeOK
  BY DEF IInv
<1> QED
  BY <1>1, SystemInvariant, PTL

(* While the tasks run, RAM and flash agree but for what was edited.       *)
THEOREM InSync == Spec => []SettingsInSync
<1>1. IInv => SettingsInSync
  BY DEF IInv, Synced, SettingsInSync
<1> QED
  BY <1>1, SystemInvariant, PTL

(* The defaults come only by IR, or if the saved settings have no name.    *)
THEOREM DefaultsAsked == Spec => DefaultsOnlyWhenAsked
<1>1. IInv /\ [Next]_vars => [pc = "load" /\ pc' = "save" => force_reinit \/ param.name = Empty]_vars
  <2> SUFFICES ASSUME IInv, Next, pc = "load", pc' = "save" PROVE force_reinit \/ param.name = Empty
    OBVIOUS
  <2>1. CSSettingsLoad
    BY DEF Next, Program, user_init, SaveDefaults, RestoreAgain, CSPreInit, CSTick, Ticked, SlowTick,
           myTimer, issue_command, Station, Restart
  <2> QED
    BY <2>1 DEF IInv, TypeOK, Keyed, CSSettingsLoad, Unusable
<1> QED
  BY <1>1, SystemInvariant, PTL DEF Spec, DefaultsOnlyWhenAsked
=============================================================================
