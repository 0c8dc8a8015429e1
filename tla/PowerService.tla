---------------------------- MODULE PowerService ----------------------------
(***************************************************************************)
(* power-service/powerapplication.cpp: the devices of UPower, as they are   *)
(* published, and the actions login1 allows.                                *)
(*                                                                          *)
(* The service listens to the signals of one device only, the display       *)
(* device, which UPower makes up from the others; at each of them it asks   *)
(* for the properties of all, one call after the other, while UPower goes   *)
(* on.  Signals wait in the event loop's queue, from before the first       *)
(* reading.  Of the properties of a device its State stands for all.  POST  *)
(* calls login1 and changes nothing here.                                   *)
(***************************************************************************)
EXTENDS Integers, FiniteSets

CONSTANTS Display,     \* the display device
          Devices,     \* the others
          States,      \* numbers UPower may give as a State
          Actions,     \* PowerOff, Reboot, ...
          MaxPowerChanges    \* bound: changes in UPower and login1

ASSUME PowerAssumption == /\ Display \notin Devices /\ States \subseteq Int /\ States # {}
                          /\ MaxPowerChanges \in Nat

All == Devices \cup {Display}
Absent == -1    \* a device that does not answer, or has not been asked

VARIABLES
    \* UPower and login1:
    present,         \* the devices there are
    state,           \* their State
    allowed,         \* actions login1 would say yes to
    powerChanges,    \* how many changes there have been
    propertiesChanged,    \* signals of the display device, not handled yet
    \* the service:
    powerPc,         \* "enumerate", "ask": in the constructor; "collect", "exec"
    deviceInterfaces,
    toAsk,           \* actions login1 has still to be asked about
    toCollect,       \* devices that have still to be asked
    jsons,           \* what those asked have said
    actions,         \* actions that are mapped
    devices,         \* published by the last updateCollection
    silent           \* history: devices changed since they were asked, or that failed to
                     \* answer, with no signal after it

upower == <<present, state, allowed, powerChanges, propertiesChanged>>
powerService == <<powerPc, deviceInterfaces, toAsk, toCollect, jsons, actions, devices>>
powerVars == <<upower, powerService, silent>>

PowerTypeOK ==
    /\ Display \in present /\ present \subseteq All /\ state \in [All -> States]
    /\ allowed \subseteq Actions /\ actions \subseteq Actions /\ toAsk \subseteq Actions
    /\ powerChanges \in 0 .. MaxPowerChanges /\ propertiesChanged \in 0 .. powerChanges
    /\ powerPc \in {"enumerate", "ask", "collect", "exec"}
    /\ deviceInterfaces \subseteq All /\ toCollect \subseteq deviceInterfaces
    /\ {jsons, devices} \subseteq [All -> {Absent} \cup 0 .. 6]
    /\ silent \subseteq All

\* The signal of the display device is connected.
PowerInit ==
    /\ present \in {p \in SUBSET All : Display \in p} /\ state \in [All -> States]
    /\ allowed \in SUBSET Actions
    /\ powerChanges = 0 /\ propertiesChanged = 0
    /\ powerPc = "enumerate" /\ deviceInterfaces = {Display}
    /\ toAsk = {} /\ toCollect = {} /\ actions = {}
    /\ jsons = [d \in All |-> Absent] /\ devices = [d \in All |-> Absent]
    /\ silent = {}

-----------------------------------------------------------------------------
\* UPower and login1

PowerChange ==
    /\ powerChanges < MaxPowerChanges /\ powerChanges' = powerChanges + 1
    /\ UNCHANGED powerService

ChangeDevice(d) ==
    /\ PowerChange /\ d \in present \ {Display}
    /\ \E s \in States \ {state[d]} : state' = [state EXCEPT ![d] = s]
    /\ silent' = silent \cup {d}
    /\ UNCHANGED <<present, allowed, propertiesChanged>>

PlugOrUnplug(d) ==
    /\ PowerChange /\ d # Display
    /\ present' = IF d \in present THEN present \ {d} ELSE present \cup {d}
    /\ silent' = silent \cup {d}
    /\ UNCHANGED <<state, allowed, propertiesChanged>>

ChangeDisplayUnconnected ==
    /\ PowerChange
    /\ \E s \in States \ {state[Display]} : state' = [state EXCEPT ![Display] = s]
    /\ propertiesChanged' = IF powerPc = "exec" THEN propertiesChanged + 1 ELSE propertiesChanged
    /\ silent' = {}
    /\ UNCHANGED <<present, allowed>>

\* PropertiesChanged
ChangeDisplay ==
    /\ PowerChange
    /\ \E s \in States \ {state[Display]} : state' = [state EXCEPT ![Display] = s]
    /\ propertiesChanged' = propertiesChanged + 1
    /\ silent' = {}
    /\ UNCHANGED <<present, allowed>>

ChangeAllowed(a) ==
    /\ PowerChange
    /\ allowed' = IF a \in allowed THEN allowed \ {a} ELSE allowed \cup {a}
    /\ UNCHANGED <<present, state, propertiesChanged, silent>>

-----------------------------------------------------------------------------
\* The service

\* The constructor: EnumerateDevices, once; the value of a reply that is an error is
\* the empty list.
EnumerateDevices ==
    /\ powerPc = "enumerate" /\ powerPc' = "ask"
    /\ \/ deviceInterfaces' = deviceInterfaces \cup present
       \/ UNCHANGED deviceInterfaces
    /\ toAsk' = Actions
    /\ UNCHANGED <<upower, toCollect, jsons, actions, devices, silent>>

\* collectActionJsons: Can..., once for each; "yes" maps the action, an error does
\* not,
AskAction(a) ==
    /\ powerPc = "ask" /\ a \in toAsk
    /\ toAsk' = toAsk \ {a}
    /\ \/ a \in allowed /\ actions' = actions \cup {a}
       \/ UNCHANGED actions
    /\ UNCHANGED <<upower, powerPc, deviceInterfaces, toCollect, jsons, devices, silent>>

\* and then the devices are collected for the first time.
Begin ==
    /\ powerPc' = "collect"
    /\ toCollect' = deviceInterfaces
    /\ jsons' = [d \in All |-> Absent]

AskedAll ==
    /\ powerPc = "ask" /\ toAsk = {} /\ Begin
    /\ UNCHANGED <<upower, deviceInterfaces, toAsk, actions, devices, silent>>

\* The event loop takes a signal.
OnPropertiesChanged ==
    /\ powerPc = "exec" /\ propertiesChanged > 0 /\ Begin
    /\ propertiesChanged' = propertiesChanged - 1
    /\ UNCHANGED <<present, state, allowed, powerChanges, deviceInterfaces, toAsk, actions, devices, silent>>

\* deviceState: the index of the text; Unknown, 0, if there is none.
DeviceState(index) == IF index \in 0 .. 6 THEN index ELSE 0

\* What GetAll says: no properties, if the device is gone.
GetAll(d) == IF d \in present THEN DeviceState(state[d]) ELSE DeviceState(0)

\* collectDeviceJsons, a round of its loop; an error is taken for a device that has
\* no properties;
CollectDevice(d) ==
    /\ powerPc = "collect" /\ d \in toCollect
    /\ \/ jsons' = [jsons EXCEPT ![d] = GetAll(d)] /\ silent' = silent \ {d}
       \/ jsons' = [jsons EXCEPT ![d] = DeviceState(0)] /\ silent' = silent \cup {d}
    /\ toCollect' = toCollect \ {d}
    /\ UNCHANGED <<upower, powerPc, deviceInterfaces, toAsk, actions, devices>>

\* updateCollection, with a resource for each and the list of all.
UpdateDevices ==
    /\ powerPc = "collect" /\ toCollect = {}
    /\ devices' = jsons
    /\ powerPc' = "exec"
    /\ UNCHANGED <<upower, deviceInterfaces, toAsk, toCollect, jsons, actions, silent>>

PowerApplication ==
    \/ EnumerateDevices \/ AskedAll \/ OnPropertiesChanged \/ UpdateDevices
    \/ \E a \in Actions : AskAction(a)
    \/ \E d \in All : CollectDevice(d)

PowerNext ==
    \/ \E d \in Devices : ChangeDevice(d) \/ PlugOrUnplug(d)
    \/ ChangeDisplay
    \/ \E a \in Actions : ChangeAllowed(a)
    \/ PowerApplication

PowerSpec == PowerInit /\ [][PowerNext]_powerVars

-----------------------------------------------------------------------------
\* The signal is connected before anything is read, and all is read again after each:
\* when no signal waits, every device that was there at the start is published as it is,
\* gone if it is gone, whenever in a reading it changed or failed to answer, unless no
\* signal has followed.
DevicesMatch ==
    powerPc = "exec" /\ propertiesChanged = 0 =>
        \A d \in deviceInterfaces : devices[d] = GetAll(d) \/ d \in silent

=============================================================================
