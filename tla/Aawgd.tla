-------------------------------- MODULE Aawgd --------------------------------
(***************************************************************************)
(* The daemon: the main loop and the proxy thread of each iteration,       *)
(* composed with the retry and control threads of BluetoothHandler and     *)
(* with the gadget switching of UsbManager.  The forwarding of a session   *)
(* is one state here; Forwarding.tla has its threads.                      *)
(***************************************************************************)
EXTENDS Naturals, BluetoothHandler, AccessoryGadget

CONSTANT
    FdLimit      \* sockets that can leak before socket() fails

ASSUME FdLimitAssumption == FdLimit \in Nat

VARIABLES
    main,        \* the main thread: what it does next
    proxy,       \* the proxy thread: what it does next; "none": no thread
    leaked       \* phone sockets a returned handleClient left open

vars == <<btVars, usbVars, main, proxy, leaked>>

UsbFirst == Strategy = "USB_FIRST"

TypeOK ==
    /\ BtTypeOK
    /\ UsbTypeOK
    /\ main \in {"boot", "arm", "enable", "usbwait", "listen", "power",
                 "connect", "join", "stop", "set", "joinretry", "disable",
                 "pause"}
    /\ proxy \in {"none", "accept", "stop", "set", "arm", "enable", "usbwait",
                  "open", "forward", "done"}
    /\ leaked \in 0..FdLimit

Init ==
    /\ BtInit
    /\ UsbInit
    /\ main = "boot"
    /\ proxy = "none"
    /\ leaked = 0

-----------------------------------------------------------------------------
\* The main thread.

\* The top of the loop.
LoopStart == IF UsbFirst THEN "arm" ELSE "listen"

MainBoot ==
    /\ main = "boot"
    /\ IF Dongle THEN PowerOn ELSE UNCHANGED powered
    /\ main' = LoopStart
    /\ UNCHANGED <<fate, promise, retryVars, connected, usbVars, proxy, leaked>>

MainArm ==
    /\ main = "arm"
    /\ AddHandler
    /\ main' = "enable"
    /\ UNCHANGED <<fate, promise, retryVars, powered, connected, proxy, leaked>>

MainEnable ==
    /\ main = "enable"
    /\ EnableDefault
    /\ main' = "usbwait"
    /\ UNCHANGED <<fate, promise, retryVars, powered, connected, proxy, leaked>>

\* Mutant: main waits with a timeout and goes on without the accessory.
MutantUsbGiveUp ==
    /\ main = "usbwait"
    /\ WaitReady \/ WaitTimeout
    /\ main' = "listen"
    /\ UNCHANGED <<fate, promise, retryVars, powered, connected, proxy, leaked>>

\* Without a timeout, the wait only ends with the accessory.
MainUsbReady ==
    /\ main = "usbwait"
    /\ WaitReady
    /\ main' = "listen"
    /\ UNCHANGED <<fate, promise, retryVars, powered, connected, proxy, leaked>>

\* Mutant: the failure of startServer goes unnoticed.
MutantListen ==
    /\ main = "listen"
    /\ proxy' = "accept"
    /\ main' = IF Dongle THEN "connect" ELSE "power"
    /\ UNCHANGED <<fate, promise, retryVars, powered, connected, usbVars, leaked>>

\* startServer; when it fails main returns.
MainListen ==
    /\ main = "listen"
    /\ \/ /\ leaked < FdLimit
          /\ proxy' = "accept"
          /\ main' = IF Dongle THEN "connect" ELSE "power"
          /\ UNCHANGED fate
       \/ /\ leaked = FdLimit
          /\ fate' = "exited"
          /\ UNCHANGED <<proxy, main>>
    /\ UNCHANGED <<promise, retryVars, powered, connected, usbVars, leaked>>

\* Mutant: the adapter is not powered on again for the next connection.
MutantPower ==
    /\ main = "power"
    /\ main' = "connect"
    /\ UNCHANGED <<fate, promise, retryVars, powered, connected, usbVars, proxy, leaked>>

MainPower ==
    /\ main = "power"
    /\ PowerOn
    /\ main' = "connect"
    /\ UNCHANGED <<fate, promise, retryVars, connected, usbVars, proxy, leaked>>

MainConnect ==
    /\ main = "connect"
    /\ ConnectWithRetry
    /\ main' = "join"
    /\ UNCHANGED <<fate, powered, connected, usbVars, proxy, leaked>>

\* Mutant: the proxy thread is left to itself.
MutantNoJoin ==
    /\ main = "join"
    /\ main' = IF HasAdapter THEN "stop" ELSE "disable"
    /\ UNCHANGED <<fate, promise, retryVars, powered, connected, usbVars, proxy, leaked>>

MainJoin ==
    /\ main = "join"
    /\ proxy = "done"
    /\ proxy' = "none"
    /\ main' = IF HasAdapter THEN "stop" ELSE "disable"
    /\ UNCHANGED <<fate, promise, retryVars, powered, connected, usbVars, leaked>>

\* Mutant: main joins the retry thread without stopping it.
MutantNoStop ==
    /\ main = "stop"
    /\ main' = "joinretry"
    /\ UNCHANGED <<fate, promise, retryVars, powered, connected, usbVars, proxy, leaked>>

MainStopTest ==
    /\ main = "stop"
    /\ main' = IF StopTest THEN "set" ELSE "joinretry"
    /\ UNCHANGED <<fate, promise, retryVars, powered, connected, usbVars, proxy, leaked>>

MainStopSet ==
    /\ main = "set"
    /\ StopSet
    /\ main' = "joinretry"
    /\ UNCHANGED <<retryVars, powered, connected, usbVars, proxy, leaked>>

MainJoinRetry ==
    /\ main = "joinretry"
    /\ retry = "done"
    /\ retry' = "none"
    /\ main' = "disable"
    /\ UNCHANGED <<left, pref, cur, fate, promise, powered, connected, usbVars,
                   proxy, leaked>>

MainDisable ==
    /\ main = "disable"
    /\ DisableAll
    /\ main' = IF Dongle THEN LoopStart ELSE "pause"
    /\ UNCHANGED <<fate, promise, retryVars, powered, connected, proxy, leaked>>

\* sleep(2)
MainPause ==
    /\ main = "pause"
    /\ main' = LoopStart
    /\ UNCHANGED <<fate, promise, retryVars, powered, connected, usbVars, proxy, leaked>>

MainStep ==
    /\ fate = "running"
    /\ \/ MainBoot \/ MainArm \/ MainEnable \/ MainUsbReady \/ MainListen
       \/ MainPower \/ MainConnect \/ MainJoin \/ MainStopTest \/ MainStopSet
       \/ MainJoinRetry \/ MainDisable \/ MainPause
    /\ UNCHANGED <<preferred, ctlVars>>

-----------------------------------------------------------------------------
\* The proxy thread: handleClient.

\* Any station of the Wi-Fi network may connect, at any time.
ProxyAccept ==
    /\ proxy = "accept"
    /\ proxy' = "stop"
    /\ UNCHANGED <<fate, promise, usbVars, leaked>>

ProxyAcceptFails ==
    /\ proxy = "accept"
    /\ proxy' = "done"
    /\ UNCHANGED <<fate, promise, usbVars, leaked>>

AfterProxyStop == IF UsbFirst THEN "open" ELSE "arm"

ProxyStopTest ==
    /\ proxy = "stop"
    /\ proxy' = IF StopTest THEN "set" ELSE AfterProxyStop
    /\ UNCHANGED <<fate, promise, usbVars, leaked>>

ProxyStopSet ==
    /\ proxy = "set"
    /\ StopSet
    /\ proxy' = AfterProxyStop
    /\ UNCHANGED <<usbVars, leaked>>

ProxyArm ==
    /\ proxy = "arm"
    /\ AddHandler
    /\ proxy' = "enable"
    /\ UNCHANGED <<fate, promise, leaked>>

ProxyEnable ==
    /\ proxy = "enable"
    /\ EnableDefault
    /\ proxy' = "usbwait"
    /\ UNCHANGED <<fate, promise, leaked>>

ProxyUsbReady ==
    /\ proxy = "usbwait"
    /\ WaitReady
    /\ proxy' = "open"
    /\ UNCHANGED <<fate, promise, leaked>>

\* Mutant: the proxy serves the next phone instead of returning.
MutantServeAgain == proxy' = "accept" /\ leaked' = leaked + 1

\* The two early returns after accept leave the phone's socket open.
ReturnEarly == proxy' = "done" /\ leaked' = leaked + 1

\* Mutant: the result of the wait is ignored.
MutantTimeoutIgnored ==
    /\ proxy = "usbwait"
    /\ WaitTimeout
    /\ proxy' = "open"
    /\ UNCHANGED <<fate, promise, leaked>>

\* 30 s without START.
ProxyUsbTimeout ==
    /\ proxy = "usbwait"
    /\ WaitTimeout
    /\ ReturnEarly
    /\ UNCHANGED <<fate, promise>>

\* The device node is there whatever gadget is bound.
ProxyOpen ==
    /\ proxy = "open"
    /\ proxy' = "forward"
    /\ UNCHANGED <<fate, promise, usbVars, leaked>>

ProxyOpenFails ==
    /\ proxy = "open"
    /\ ReturnEarly
    /\ UNCHANGED <<fate, promise, usbVars>>

\* Both forwarding threads joined, both descriptors closed.
ProxyForwardEnds ==
    /\ proxy = "forward"
    /\ proxy' = "done"
    /\ UNCHANGED <<fate, promise, usbVars, leaked>>

\* The steps the proxy thread takes by itself; the others wait for the phone.
ProxyProceeds ==
    \/ ProxyStopTest \/ ProxyStopSet \/ ProxyArm \/ ProxyEnable
    \/ ProxyUsbReady \/ ProxyUsbTimeout \/ ProxyOpen \/ ProxyOpenFails

ProxyRuns(Action) ==
    /\ fate = "running"
    /\ Action
    /\ UNCHANGED <<retryVars, preferred, powered, connected, ctlVars, main>>

ProxyStep == ProxyRuns(ProxyProceeds \/ ProxyAccept \/ ProxyAcceptFails \/ ProxyForwardEnds)

-----------------------------------------------------------------------------
\* The other threads leave main and the proxy alone.

Retrying == RetryStep /\ UNCHANGED <<usbVars, main, proxy, leaked>>
Controlling == CtlStep /\ UNCHANGED <<usbVars, main, proxy, leaked>>
PhonesMove == Phones /\ UNCHANGED <<usbVars, main, proxy, leaked>>

Hosting(Action) ==
    /\ fate = "running"
    /\ Action
    /\ UNCHANGED <<btVars, main, proxy, leaked>>

\* Nothing restarts the daemon.
Dead == fate # "running" /\ UNCHANGED vars

Next ==
    \/ MainStep \/ ProxyStep \/ Retrying \/ Controlling
    \/ Hosting(HandleStart) \/ Hosting(Switch) \/ PhonesMove
    \/ Dead

(***************************************************************************)
(* Every thread that can take a step by itself does in the end: timed      *)
(* waits end, D-Bus calls return.  Phones, the host and the clients of the *)
(* control socket owe nothing.                                             *)
(***************************************************************************)
Fairness ==
    /\ WF_vars(MainStep)
    /\ WF_vars(ProxyRuns(ProxyProceeds))
    /\ WF_vars(Retrying)
    /\ WF_vars(Controlling /\ CtlServe)
    /\ WF_vars(Hosting(Switch))

Spec == Init /\ [][Next]_vars /\ Fairness

-----------------------------------------------------------------------------
\* Invariants.

\* The retry thread is before the point where it drops the promise.
Looping == retry \notin {"none", "off", "done"}

\* The process's one stop promise is alive exactly while the retry thread still
\* looks at it, and that thread exists exactly between main's connectWithRetry
\* and its join: no iteration overwrites the promise of a thread that could
\* then never be stopped (bluetoothHandler.cpp:414-421, aawgd.cpp:45-52).
PromiseBelongsToThread ==
    /\ promise # "null" <=> Looping
    /\ retry # "none" <=> HasAdapter /\ main \in {"join", "stop", "set", "joinretry"}

\* The radio is up whenever the retry thread dials, stays up for ever in dongle
\* mode, and in the other modes is down once main has joined that thread, whatever
\* commands were served in between (aawgd.cpp:20-23, bluetoothHandler.cpp:377-379).
PowerFollowsStrategy ==
    /\ Looping => powered
    /\ connected # {} => powered
    /\ Dongle /\ HasAdapter /\ main # "boot" => powered
    /\ ~Dongle /\ main \in {"disable", "pause"} => ~powered

\* A session opens /dev/usb_accessory and forwards only while the accessory
\* gadget is the one bound, even if the handler of an earlier, timed out wait
\* runs late (usb.cpp:68-81, proxyHandler.cpp:171-220).
SessionHasAccessory == proxy \in {"open", "forward"} => bound = "accessory"

\* Calls of UsbManager, which has no lock, never overlap: main waits only when
\* there is no proxy thread, and disables the gadgets only after the proxy's
\* wait has returned (aawgd.cpp:29-32 and 47-54).
UsbCallsNeverOverlap ==
    /\ main = "arm" \/ proxy = "arm" => user = "idle"
    /\ main = "disable" => user \in {"idle", "over"}
    /\ main \in {"arm", "enable", "usbwait", "disable"} => proxy = "none"

\* aawgd.conf: usb first "waits for the usb to connect first, and then starts
\* the bluetooth": the retry thread runs only with the accessory bound.
UsbBeforeBluetooth == UsbFirst /\ retry # "none" => bound = "accessory"

\* While the server waits for a phone and main for the proxy, a phone can reach
\* the dongle: the radio is on (README.md:41, "it should automatically connect
\* to the phone").
AcceptingMeansReachable ==
    HasAdapter /\ proxy = "accept" /\ main = "join" => powered

\* While the server waits for a phone, nobody has stopped the thread that calls
\* the phones. It needs that no command is served: SWITCH and DISCONNECT stop it.
KeepsCalling ==
    HasAdapter /\ proxy = "accept" /\ main = "join" => promise = "pending"

-----------------------------------------------------------------------------
\* Action and temporal properties.

\* The proxy's stop, the one every session makes, is never the call that kills
\* the daemon as long as no command is served: the thread is still there and no
\* stop has been made before (proxyHandler.cpp:169, bluetoothHandler.cpp:423-427).
ProxyStopIsSafe == [][proxy = "set" /\ proxy' # "set" => fate' = "running"]_vars

\* After a session the daemon comes to wait for the next phone (usb first: for
\* the next accessory), or has died: no join in the loop lasts for ever.
Waiting == proxy = "accept" \/ (UsbFirst /\ main = "usbwait")
ListensAgain == proxy = "done" ~> (Waiting \/ fate # "running")

\* A stop, once made, ends the retry thread's loop, however many devices its
\* pass has still to try.
StopTakesEffect == promise = "set" ~> (promise = "null" \/ fate # "running")
=============================================================================
