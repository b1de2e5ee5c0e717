--------------------------- MODULE BluetoothHandler ---------------------------
(***************************************************************************)
(* BluetoothHandler: the adapter, the paired phones, the retry thread that *)
(* connectWithRetry starts, the promise that stops it, and the control     *)
(* socket's thread, which calls switchToDevice and disconnectAll.  The     *)
(* threads share the promise and the preferred device without a lock.      *)
(* main and the proxy thread, which also call these operations, are in     *)
(* Aawgd.tla.                                                              *)
(***************************************************************************)
CONSTANTS
    Devices,     \* the phones paired with the adapter
    NoDevice,    \* no phone: an empty std::optional
    Strategy,    \* AAWG_CONNECTION_STRATEGY
    HasAdapter,  \* initAdapter found an adapter
    Commands     \* the commands clients send to the control socket

ASSUME BluetoothAssumption ==
    /\ NoDevice \notin Devices
    /\ Strategy \in {"DONGLE_MODE", "PHONE_FIRST", "USB_FIRST"}
    /\ HasAdapter \in BOOLEAN
    /\ Commands \subseteq {"SWITCH", "DISCONNECT"}

VARIABLES
    fate,       \* the process: "running", "aborted" (an uncaught exception or
                \* a signal), "exited" (main returned)
    promise,    \* connectWithRetryPromise: "null", "pending", "set"
    retry,      \* the retry thread: what it does next; "none": no thread
    left,       \* the devices this pass has still to try
    pref,       \* this pass's copy of the preferred device
    cur,        \* the device being connected
    preferred,  \* m_preferredDeviceObjectPath
    powered,    \* the adapter's Powered property
    connected,  \* the phones with a Bluetooth connection
    ctl,        \* the control thread: what it does next
    target      \* SWITCH's device; NoDevice for DISCONNECT

retryVars == <<retry, left, pref, cur>>
ctlVars == <<ctl, target>>
btVars == <<fate, promise, retryVars, preferred, powered, connected, ctlVars>>

Dongle == Strategy = "DONGLE_MODE"
MaybeDevice == Devices \cup {NoDevice}

BtTypeOK ==
    /\ fate \in {"running", "aborted", "exited"}
    /\ promise \in {"null", "pending", "set"}
    /\ retry \in {"none", "list", "prefer", "pick", "drop", "dial", "wait",
                  "clear", "off", "done"}
    /\ left \subseteq Devices
    /\ {pref, cur, preferred, target} \subseteq MaybeDevice
    /\ powered \in BOOLEAN
    /\ connected \subseteq Devices
    /\ ctl \in {"idle", "stop", "set", "match", "store", "forget", "sweep",
                "pick", "drop", "dial"}

\* The state main finds after init(): BlueZ may have left the adapter on.
BtInit ==
    /\ fate = "running"
    /\ promise = "null"
    /\ retry = "none" /\ left = {} /\ pref = NoDevice /\ cur = NoDevice
    /\ preferred = NoDevice
    /\ powered \in (IF HasAdapter THEN BOOLEAN ELSE {FALSE})
    /\ connected = {}
    /\ ctl = "idle" /\ target = NoDevice

-----------------------------------------------------------------------------
\* Operations called by any thread.

\* powerOn without an adapter returns at once.
PowerOn == powered' = (powered \/ HasAdapter)

\* Powering the adapter off ends every connection.
PowerOff == powered' = FALSE /\ connected' = {}

\* connectWithRetry: a new promise and a thread that will use it.
ConnectWithRetry ==
    IF HasAdapter
    THEN /\ promise' = "pending"
         /\ retry' = "list"
         /\ UNCHANGED <<left, pref, cur>>
    ELSE UNCHANGED <<promise, retryVars>>

\* stopConnectWithRetry is a test of the promise and, in another step, its use.
\* A second set_value throws std::future_error, which nobody catches. If the
\* retry thread has dropped the promise since the test, the call goes through a
\* null or freed object: it kills the process or does nothing.
StopTest == promise # "null"

StopSet ==
    \/ /\ promise = "pending"
       /\ promise' = "set"
       /\ UNCHANGED fate
    \/ /\ promise = "set"
       /\ fate' = "aborted"
       /\ UNCHANGED promise
    \/ /\ promise = "null"
       /\ fate' \in {"running", "aborted"}
       /\ UNCHANGED promise

\* connectDeviceByObjectPath(d): the Connected property (PickDevice), a
\* Disconnect that may fail (DropDevice), a ConnectProfile that may fail.
DropDevice(d, dropped) ==
    IF dropped THEN connected' = connected \ {d} ELSE UNCHANGED connected

DialDevice(d, ok) ==
    /\ ok => powered
    /\ connected' = IF ok THEN connected \cup {d} ELSE connected

\* GetManagedObjects lists the devices BlueZ knows of, the connected among them.
Listed(found) == connected \subseteq found /\ found \subseteq Devices

-----------------------------------------------------------------------------
\* The retry thread: retryConnectLoop and connectDevice.

RetryList ==
    /\ retry = "list"
    /\ \E found \in SUBSET Devices :
         /\ Listed(found)
         /\ left' = found
         /\ retry' = CASE found = {} -> "wait"
                       [] found # {} /\ preferred # NoDevice -> "prefer"
                       [] OTHER -> "pick"
    /\ pref' = NoDevice
    /\ cur' = NoDevice
    /\ UNCHANGED <<fate, promise, preferred, powered, connected>>

\* m_preferredDeviceObjectPath.value(), after the test of has_value(): throws if
\* it was reset in between. Read while the control thread writes it, the string
\* is whatever the race leaves: the path, a path of no device, or a crash.
RetryPrefer ==
    /\ retry = "prefer"
    /\ \/ /\ preferred # NoDevice
          /\ pref' = preferred
          /\ retry' = "pick"
          /\ UNCHANGED fate
       \/ /\ ctl \in {"store", "forget"}
          /\ pref' = NoDevice
          /\ retry' = "pick"
          /\ UNCHANGED fate
       \/ /\ preferred = NoDevice \/ ctl \in {"store", "forget"}
          /\ fate' = "aborted"
          /\ UNCHANGED <<retry, pref>>
    /\ UNCHANGED <<left, cur, promise, preferred, powered, connected>>

\* The stable sort puts the preferred device first; paths come in any order.
RetryPick ==
    /\ retry = "pick"
    /\ cur' \in (IF pref \in left THEN {pref} ELSE left)
    /\ retry' = IF cur' \in connected THEN "drop" ELSE "dial"
    /\ UNCHANGED <<left, pref, fate, promise, preferred, powered, connected>>

\* One device done: only a success outside of dongle mode ends the pass early.
Proceed(ok) ==
    /\ left' = left \ {cur}
    /\ retry' = IF left' = {} \/ (ok /\ ~Dongle) THEN "wait" ELSE "pick"

RetryDrop ==
    /\ retry = "drop"
    /\ \E dropped \in BOOLEAN :
         /\ DropDevice(cur, dropped)
         /\ IF dropped THEN retry' = "dial" /\ UNCHANGED left ELSE Proceed(FALSE)
    /\ UNCHANGED <<pref, cur, fate, promise, preferred, powered>>

RetryDial ==
    /\ retry = "dial"
    /\ \E ok \in BOOLEAN : DialDevice(cur, ok) /\ Proceed(ok)
    /\ UNCHANGED <<pref, cur, fate, promise, preferred, powered>>

\* Mutant: the test of the future is inverted.
MutantWaitInverted ==
    /\ retry = "wait"
    /\ retry' = IF promise = "set" THEN "list" ELSE "clear"
    /\ UNCHANGED <<left, pref, cur, fate, promise, preferred, powered, connected>>

\* wait_for(20 s) on the future: ready, or time for another pass.
RetryWait ==
    /\ retry = "wait"
    /\ retry' = IF promise = "set" THEN "clear" ELSE "list"
    /\ UNCHANGED <<left, pref, cur, fate, promise, preferred, powered, connected>>

\* Mutant: the promise is not reset.
MutantClearKeeps ==
    /\ retry = "clear"
    /\ retry' = IF Dongle THEN "done" ELSE "off"
    /\ UNCHANGED <<left, pref, cur, fate, promise, preferred, powered, connected>>

RetryClear ==
    /\ retry = "clear"
    /\ promise' = "null"
    /\ retry' = IF Dongle THEN "done" ELSE "off"
    /\ UNCHANGED <<left, pref, cur, fate, preferred, powered, connected>>

RetryOff ==
    /\ retry = "off"
    /\ PowerOff
    /\ retry' = "done"
    /\ UNCHANGED <<left, pref, cur, fate, promise, preferred>>

RetryStep ==
    /\ fate = "running"
    /\ \/ RetryList \/ RetryPrefer \/ RetryPick \/ RetryDrop \/ RetryDial
       \/ RetryWait \/ RetryClear \/ RetryOff
    /\ UNCHANGED ctlVars

-----------------------------------------------------------------------------
\* The control thread: one command at a time.

CtlReceive ==
    /\ ctl = "idle"
    /\ target' \in (IF "DISCONNECT" \in Commands THEN {NoDevice} ELSE {})
                   \cup (IF "SWITCH" \in Commands THEN Devices ELSE {})
    /\ ctl' = "stop"
    /\ UNCHANGED <<fate, promise, preferred, connected>>

AfterStop == IF target = NoDevice THEN "forget" ELSE "match"

CtlStopTest ==
    /\ ctl = "stop"
    /\ ctl' = IF StopTest THEN "set" ELSE AfterStop
    /\ UNCHANGED <<fate, promise, target, preferred, connected>>

CtlStopSet ==
    /\ ctl = "set"
    /\ StopSet
    /\ ctl' = AfterStop
    /\ UNCHANGED <<target, preferred, connected>>

\* listDevices and the search for the selector, which may match no device.
CtlMatch ==
    /\ ctl = "match"
    /\ ctl' \in {"store", "idle"}
    /\ UNCHANGED <<fate, promise, target, preferred, connected>>

CtlStore ==
    /\ ctl = "store"
    /\ preferred' = target
    /\ ctl' = "sweep"
    /\ UNCHANGED <<fate, promise, target, connected>>

CtlForget ==
    /\ ctl = "forget"
    /\ preferred' = NoDevice
    /\ ctl' = "sweep"
    /\ UNCHANGED <<fate, promise, target, connected>>

\* disconnectAllConnectedDevices is best effort: some connections may stay.
CtlSweep ==
    /\ ctl = "sweep"
    /\ connected' \in SUBSET connected
    /\ ctl' = IF target = NoDevice THEN "idle" ELSE "pick"
    /\ UNCHANGED <<fate, promise, target, preferred>>

CtlPick ==
    /\ ctl = "pick"
    /\ ctl' = IF target \in connected THEN "drop" ELSE "dial"
    /\ UNCHANGED <<fate, promise, target, preferred, connected>>

CtlDrop ==
    /\ ctl = "drop"
    /\ \E dropped \in BOOLEAN :
         /\ DropDevice(target, dropped)
         /\ ctl' = IF dropped THEN "dial" ELSE "idle"
    /\ UNCHANGED <<fate, promise, target, preferred>>

CtlDial ==
    /\ ctl = "dial"
    /\ \E ok \in BOOLEAN : DialDevice(target, ok)
    /\ ctl' = "idle"
    /\ UNCHANGED <<fate, promise, target, preferred>>

\* What the control thread does with a command it has received.
CtlServe ==
    \/ CtlStopTest \/ CtlStopSet \/ CtlMatch \/ CtlStore \/ CtlForget
    \/ CtlSweep \/ CtlPick \/ CtlDrop \/ CtlDial

CtlStep ==
    /\ fate = "running"
    /\ CtlReceive \/ CtlServe
    /\ UNCHANGED <<retryVars, powered>>

-----------------------------------------------------------------------------
\* Phones connect and go on their own while the adapter is on.
PhoneJoins ==
    /\ powered
    /\ \E d \in Devices \ connected : connected' = connected \cup {d}
    /\ UNCHANGED <<fate, promise, retryVars, preferred, powered, ctlVars>>

PhoneDrops ==
    /\ \E d \in connected : connected' = connected \ {d}
    /\ UNCHANGED <<fate, promise, retryVars, preferred, powered, ctlVars>>

Phones == fate = "running" /\ (PhoneJoins \/ PhoneDrops)
=============================================================================
