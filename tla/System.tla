------------------------------- MODULE System -------------------------------
(***************************************************************************)
(* Start-up (user/user_main.c), the settings and the Wi-Fi mode            *)
(* (common/commonservices.c).  The tasks of the SDK are never preempted by *)
(* one another, so a step is a run up to the next point where a command    *)
(* can come in: a datagram or a websocket between tasks, or, from          *)
(* HTTPTick, a page /d/issue in the middle of the idle task, when the mode *)
(* is already read into opm.  The power may fail between any two writes.   *)
(***************************************************************************)
EXTENDS Integers

CONSTANTS
  Names, Descriptions,  \* what IN and ID may set, the empty name too
  Networks,             \* what W1 may connect to
  MaxCommands,          \* bound: commands in a behaviour
  MaxBoots              \* bound: starts in a behaviour

Empty == ""
ESP   == "ESP_xxxxxx"   \* the name made of the MAC address
STATION_MODE == 1
SOFTAP_MODE  == 2

ASSUME ConstantsOK == MaxCommands \in Nat /\ MaxBoots \in Nat \ {0}

VARIABLES
  SETTINGS,     \* in RAM: key says that settings_key is 0xAF
  param,        \* the same in flash, behind system_param_save_with_protect
  wifi,         \* the SDK's configuration in flash: mode and network
  opmode, stat, \* the SDK's mode and station status of now
  printed_ip, attached_to_mdns, tick_flag, last_opmode,
  opm,          \* CSTick's copy of the mode
  pc,           \* where the program is
  force_reinit, caller,   \* of CSSettingsLoad: its argument, and pc when it returns
  edited,       \* history: SETTINGS was changed since it was loaded or saved
  commands, boots

settings == <<SETTINGS, param, edited>>
station  == <<wifi, opmode, stat>>
tick     == <<printed_ip, attached_to_mdns, tick_flag, last_opmode, opm>>
call     == <<force_reinit, caller>>
bounds   == <<commands, boots>>
vars     == <<settings, station, tick, pc, call, bounds>>

Zero     == [key |-> FALSE, name |-> Empty, desc |-> Empty]
Default  == [key |-> FALSE, name |-> ESP, desc |-> "Default"]
Factory  == [mode |-> SOFTAP_MODE, network |-> Empty]

Init ==
  /\ param = Zero /\ wifi = Factory /\ commands = 0 /\ boots = 1
  /\ SETTINGS = Zero /\ edited = FALSE /\ opmode = SOFTAP_MODE /\ stat = "idle"
  /\ printed_ip = FALSE /\ attached_to_mdns = FALSE /\ tick_flag = FALSE
  /\ last_opmode = 0 /\ opm = 0
  /\ pc = "system_restore" /\ force_reinit = FALSE /\ caller = "preinit"

(* IB, or the power fails: RAM as at the start, flash as it was.           *)
Restart ==
  /\ boots < MaxBoots /\ boots' = boots + 1
  /\ SETTINGS' = Zero /\ edited' = FALSE /\ opmode' = wifi.mode /\ stat' = "idle"
  /\ printed_ip' = FALSE /\ attached_to_mdns' = FALSE /\ tick_flag' = FALSE
  /\ last_opmode' = 0 /\ opm' = 0
  /\ pc' = "system_restore" /\ force_reinit' = FALSE /\ caller' = "preinit"
  /\ UNCHANGED <<param, wifi, commands>>
-----------------------------------------------------------------------------
(* The SDK's system_restore resets its configuration, but not param; of    *)
(* the mode of now the code knows nothing.                                 *)
system_restore ==
  /\ wifi' = Factory /\ opmode' \in {opmode, SOFTAP_MODE}
  /\ stat' = IF opmode' = STATION_MODE THEN stat ELSE "idle"

(* user_init restores the SDK's configuration every time.                  *)
user_init ==
  /\ pc = "system_restore" /\ system_restore
  /\ pc' = "load"
  /\ UNCHANGED <<settings, tick, call, bounds>>

Unusable(s) == ~s.key \/ s.name = Empty

(* CSSettingsLoad: what is loaded, or the defaults, which are then saved.  *)
(* Mutant: they are not saved.                                             *)
CSSettingsLoadNoSave ==
  /\ pc = "load"
  /\ SETTINGS' = IF force_reinit \/ Unusable(param) THEN Default ELSE param
  /\ pc' = caller
  /\ edited' = FALSE
  /\ UNCHANGED <<param, station, tick, call, bounds>>
CSSettingsLoad ==
  /\ pc = "load"
  /\ IF force_reinit \/ Unusable(param) THEN SETTINGS' = Default /\ pc' = "save"
                                        ELSE SETTINGS' = param /\ pc' = caller
  /\ edited' = FALSE
  /\ UNCHANGED <<param, station, tick, call, bounds>>

(* Mutant: the key is not set.                                             *)
SaveNoKey == param' = SETTINGS /\ SETTINGS' = SETTINGS /\ edited' = FALSE
CSSettingsSave ==
  /\ SETTINGS' = [SETTINGS EXCEPT !.key = TRUE]
  /\ param' = SETTINGS' /\ edited' = FALSE

SaveDefaults ==
  /\ pc = "save" /\ CSSettingsSave
  /\ pc' = "system_restore_again"
  /\ UNCHANGED <<station, tick, call, bounds>>

RestoreAgain ==
  /\ pc = "system_restore_again" /\ system_restore
  /\ pc' = caller
  /\ UNCHANGED <<settings, tick, call, bounds>>

(* CSPreInit, and the rest of user_init, after which the tasks run.        *)
CSPreInit ==
  /\ pc = "preinit"
  /\ stat' = IF opmode = STATION_MODE THEN "connecting" ELSE stat
  /\ pc' = "idle"
  /\ UNCHANGED <<settings, wifi, opmode, tick, call, bounds>>
-----------------------------------------------------------------------------
Edit(s) == SETTINGS' = s /\ edited' = TRUE /\ UNCHANGED <<param, pc, station, call>>

(* IN, ID and IS.                                                          *)
Name == \E n \in Names : Edit([SETTINGS EXCEPT !.name = n])
Describe == \E d \in Descriptions : Edit([SETTINGS EXCEPT !.desc = d])
Save == CSSettingsSave /\ UNCHANGED <<pc, station, call>>

(* IL, and with force IR.                                                  *)
Load(force) ==
  /\ force_reinit' = force /\ caller' = pc /\ pc' = "load"
  /\ UNCHANGED <<settings, station>>

(* wifi_set_opmode and the configuration go to flash; printed_ip stays.    *)
W1 ==
  \E net \in Networks :
    /\ wifi' = [mode |-> STATION_MODE, network |-> net]
    /\ opmode' = STATION_MODE /\ stat' = "connecting"
    /\ UNCHANGED <<settings, pc, call>>
W2 ==
  /\ wifi' = [wifi EXCEPT !.mode = SOFTAP_MODE]
  /\ opmode' = SOFTAP_MODE /\ stat' = "idle"
  /\ UNCHANGED <<settings, pc, call>>

issue_command ==
  /\ pc \in {"idle", "HTTPTick0", "HTTPTick1"}
  /\ commands < MaxCommands /\ commands' = commands + 1
  /\ Name \/ Describe \/ Save \/ Load(FALSE) \/ Load(TRUE) \/ W1 \/ W2
  /\ UNCHANGED <<tick, boots>>
-----------------------------------------------------------------------------
(* The 10 ms timer, CSTick(1), is only noted.                              *)
myTimer ==
  /\ pc = "idle" /\ tick_flag' = TRUE
  /\ UNCHANGED <<settings, station, printed_ip, attached_to_mdns, last_opmode, opm, pc, call, bounds>>

(* The idle task.  JoinGropMDNS has no value (mDNS is compiled out): the   *)
(* flag is set or not.                                                     *)
CSTick ==
  /\ pc = "idle" /\ pc' = "HTTPTick0"
  /\ opm' = opmode /\ last_opmode' = opmode
  /\ \E joined \in BOOLEAN : attached_to_mdns' = ((attached_to_mdns /\ opmode = last_opmode) \/ joined)
  /\ UNCHANGED <<settings, station, printed_ip, tick_flag, call, bounds>>

Ticked ==
  /\ pc = "HTTPTick0"
  /\ pc' = IF tick_flag THEN "HTTPTick1" ELSE "idle"
  /\ UNCHANGED <<settings, station, tick, call, bounds>>

(* What SlowTick does with the station, by the mode CSTick had read.       *)
(* Mutant: a station that was never connected is not tried again.          *)
FailedOnce == opm = STATION_MODE /\ stat = "failed" /\ printed_ip
Failed == opm = STATION_MODE /\ stat = "failed"
HasIp  == opm = STATION_MODE /\ stat = "got_ip"

SlowTick ==
  /\ pc = "HTTPTick1" /\ pc' = "idle"
  /\ tick_flag' = FALSE
  /\ stat' = IF Failed THEN "connecting" ELSE stat
  /\ printed_ip' = CASE Failed -> FALSE [] HasIp -> TRUE [] OTHER -> printed_ip
  /\ attached_to_mdns' = (attached_to_mdns /\ ~(HasIp /\ ~printed_ip))
  /\ UNCHANGED <<settings, wifi, opmode, last_opmode, opm, call, bounds>>

(* The SDK: a station connects, fails, or loses its network.               *)
Station ==
  /\ opmode = STATION_MODE /\ pc = "idle"
  /\ \/ stat = "connecting" /\ stat' \in {"got_ip", "failed"}
     \/ stat = "got_ip" /\ stat' \in {"connecting", "failed"}
  /\ UNCHANGED <<settings, wifi, opmode, tick, pc, call, bounds>>

Program == user_init \/ CSSettingsLoad \/ SaveDefaults \/ RestoreAgain \/ CSPreInit \/ CSTick \/ Ticked \/ SlowTick
Next == Program \/ myTimer \/ issue_command \/ Station \/ Restart

Spec == Init /\ [][Next]_vars

(* The task posts itself again, and the timer fires between two runs.      *)
FairSpec == Spec /\ WF_vars(Program) /\ SF_vars(myTimer)
-----------------------------------------------------------------------------
Setting == [key : BOOLEAN, name : Names \cup {Empty, ESP}, desc : Descriptions \cup {Empty, "Default"}]

(* Every variable has its type.                                            *)
TypeOK ==
  /\ SETTINGS \in Setting /\ param \in Setting /\ edited \in BOOLEAN
  /\ wifi \in [mode : {1, 2}, network : Networks \cup {Empty}]
  /\ opmode \in {1, 2} /\ stat \in {"idle", "connecting", "failed", "got_ip"}
  /\ printed_ip \in BOOLEAN /\ attached_to_mdns \in BOOLEAN /\ tick_flag \in BOOLEAN
  /\ last_opmode \in 0..2 /\ opm \in 0..2
  /\ pc \in {"system_restore", "load", "save", "system_restore_again", "preinit", "idle", "HTTPTick0", "HTTPTick1"}
  /\ force_reinit \in BOOLEAN /\ caller \in {"preinit", "idle", "HTTPTick0", "HTTPTick1"}
  /\ commands \in 0..MaxCommands /\ boots \in 0..MaxBoots

(* While the tasks run, the settings in RAM are those in flash but for     *)
(* what was edited since: wherever the power failed, and whatever was      *)
(* loaded, reset or saved before (CSSettingsLoad, CSSettingsSave).         *)
SettingsInSync ==
  pc \in {"idle", "HTTPTick0", "HTTPTick1"} /\ ~edited => SETTINGS = param

(* Saved settings are given up for the defaults only if IR asks for it or  *)
(* they have no name: no other sequence of commands, restarts and power    *)
(* failures does (CSSettingsLoad).                                         *)
DefaultsOnlyWhenAsked ==
  [][pc = "load" /\ pc' = "save" => force_reinit \/ param.name = Empty]_vars

(* A station that failed to connect is tried again, unless it is told not  *)
(* to be one (SlowTick).                                                   *)
StationRetried == opmode = STATION_MODE /\ stat = "failed" ~> stat # "failed"
=============================================================================
