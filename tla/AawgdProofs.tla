------------------------------ MODULE AawgdProofs ------------------------------
(***************************************************************************)
(* What holds of the daemon for any set of phones, any strategy and any    *)
(* number of sockets.  Each theorem strengthens the invariant until it is  *)
(* inductive; the strengthenings are conjunctions of the named parts that  *)
(* come first.                                                             *)
(***************************************************************************)
EXTENDS Aawgd, FiniteSetTheorems, TLAPS

\* The names behind the variable tuples and the values of constants.
USE DEF vars, btVars, retryVars, ctlVars, usbVars, Dongle, UsbFirst

-----------------------------------------------------------------------------
\* Types.

\* The server is only started with a socket to spare, and each proxy thread
\* leaves at most one open, as its last act.
SocketToSpare == proxy \notin {"none", "done"} => leaked < FdLimit

\* A thread that dials has chosen a phone.
DialsADevice ==
    /\ retry \in {"drop", "dial"} => cur \in Devices
    /\ ctl \in {"pick", "drop", "dial"} => target \in Devices

TypeInv == TypeOK /\ SocketToSpare /\ DialsADevice

\* The operations any thread calls keep the types of what they change.
LEMMA StopSetType ==
    ASSUME BtTypeOK, StopSet
    PROVE  /\ fate' \in {"running", "aborted", "exited"}
           /\ promise' \in {"null", "pending", "set"}
  BY DEF BtTypeOK, StopSet

\* A call changes the connections by a known phone at most.
LEMMA DialType ==
    ASSUME BtTypeOK, NEW d \in Devices, NEW ok \in BOOLEAN, DialDevice(d, ok)
    PROVE  connected' \subseteq Devices
  <1>1. connected \subseteq Devices
    BY DEF BtTypeOK
  <1>2. connected' = IF ok THEN connected \cup {d} ELSE connected
    BY DEF DialDevice
  <1> QED
    BY <1>1, <1>2

\* So do the operations of UsbManager, and a step that leaves its state alone.
LEMMA UsbOperationsType ==
    ASSUME UsbTypeOK
    PROVE  /\ UNCHANGED usbVars => UsbTypeOK'
           /\ AddHandler => UsbTypeOK'
           /\ EnableDefault => UsbTypeOK'
           /\ WaitReady => UsbTypeOK'
           /\ WaitTimeout => UsbTypeOK'
           /\ DisableAll => UsbTypeOK'
           /\ HandleStart => UsbTypeOK'
           /\ Switch => UsbTypeOK'
  <1> USE DEF UsbTypeOK, Enable, Disable
  <1>1. UNCHANGED usbVars => UsbTypeOK'
    OBVIOUS
  <1>2. AddHandler => UsbTypeOK'
    BY Zenon DEF AddHandler
  <1>3. EnableDefault => UsbTypeOK'
    BY DEF EnableDefault
  <1>4. WaitReady => UsbTypeOK'
    BY DEF WaitReady
  <1>5. WaitTimeout => UsbTypeOK'
    BY DEF WaitTimeout
  <1>6. DisableAll => UsbTypeOK'
    BY DEF DisableAll
  <1>7. HandleStart => UsbTypeOK'
    BY DEF HandleStart
  <1>8. Switch => UsbTypeOK'
    <2>1. SwitchDrop => UsbTypeOK'
      BY DEF SwitchDrop
    <2>2. SwitchRaise => UsbTypeOK'
      BY DEF SwitchRaise
    <2>3. SwitchAnswer => UsbTypeOK'
      BY Zenon DEF SwitchAnswer
    <2> QED
      BY <2>1, <2>2, <2>3 DEF Switch
  <1> QED
    BY <1>1, <1>2, <1>3, <1>4, <1>5, <1>6, <1>7, <1>8

\* The main thread keeps the types: main listens only with a socket to spare.
LEMMA MainType ==
    ASSUME TypeInv, MainStep
    PROVE  TypeInv'
  <1> USE UsbOperationsType, FdLimitAssumption, BluetoothAssumption
          DEF TypeInv, TypeOK, BtTypeOK, SocketToSpare, DialsADevice, LoopStart,
              MaybeDevice
  <1>1. CASE MainBoot
    BY <1>1 DEF MainStep, MainBoot, PowerOn
  <1>2. CASE MainArm
    BY <1>2 DEF MainStep, MainArm
  <1>3. CASE MainEnable
    BY <1>3 DEF MainStep, MainEnable
  <1>4. CASE MainUsbReady
    BY <1>4 DEF MainStep, MainUsbReady
  <1>5. CASE MainListen
    BY <1>5 DEF MainStep, MainListen
  <1>6. CASE MainPower
    BY <1>6 DEF MainStep, MainPower, PowerOn
  <1>7. CASE MainConnect
    BY <1>7 DEF MainStep, MainConnect, ConnectWithRetry
  <1>8. CASE MainJoin
    BY <1>8 DEF MainStep, MainJoin
  <1>9. CASE MainStopTest
    BY <1>9 DEF MainStep, MainStopTest
  <1>10. CASE MainStopSet
    BY <1>10, StopSetType DEF MainStep, MainStopSet
  <1>11. CASE MainJoinRetry
    BY <1>11 DEF MainStep, MainJoinRetry
  <1>12. CASE MainDisable
    BY <1>12 DEF MainStep, MainDisable
  <1>13. CASE MainPause
    BY <1>13 DEF MainStep, MainPause
  <1> QED
    BY <1>1, <1>2, <1>3, <1>4, <1>5, <1>6, <1>7, <1>8, <1>9, <1>10, <1>11,
       <1>12, <1>13 DEF MainStep

\* So does the proxy thread, which leaks its socket in its last step.
LEMMA ProxyType ==
    ASSUME TypeInv, ProxyStep
    PROVE  TypeInv'
  <1> USE UsbOperationsType, FdLimitAssumption
          DEF TypeInv, TypeOK, BtTypeOK, SocketToSpare, DialsADevice, ReturnEarly,
              AfterProxyStop, ProxyRuns
  <1>1. CASE ProxyRuns(ProxyAccept)
    BY <1>1 DEF ProxyAccept
  <1>2. CASE ProxyRuns(ProxyAcceptFails)
    BY <1>2 DEF ProxyAcceptFails
  <1>3. CASE ProxyRuns(ProxyStopTest)
    BY <1>3 DEF ProxyStopTest
  <1>4. CASE ProxyRuns(ProxyStopSet)
    BY <1>4, StopSetType DEF ProxyStopSet
  <1>5. CASE ProxyRuns(ProxyArm)
    BY <1>5 DEF ProxyArm
  <1>6. CASE ProxyRuns(ProxyEnable)
    BY <1>6 DEF ProxyEnable
  <1>7. CASE ProxyRuns(ProxyUsbReady)
    BY <1>7 DEF ProxyUsbReady
  <1>8. CASE ProxyRuns(ProxyUsbTimeout)
    BY <1>8 DEF ProxyUsbTimeout
  <1>9. CASE ProxyRuns(ProxyOpen)
    BY <1>9 DEF ProxyOpen
  <1>10. CASE ProxyRuns(ProxyOpenFails)
    BY <1>10 DEF ProxyOpenFails
  <1>11. CASE ProxyRuns(ProxyForwardEnds)
    BY <1>11 DEF ProxyForwardEnds
  <1> QED
    BY <1>1, <1>2, <1>3, <1>4, <1>5, <1>6, <1>7, <1>8, <1>9, <1>10, <1>11
       DEF ProxyStep, ProxyProceeds
\* So does the retry thread, which dials only phones it has listed.
LEMMA RetryType ==
    ASSUME TypeInv, Retrying
    PROVE  TypeInv'
  <1> USE UsbOperationsType
          DEF Retrying, TypeInv, TypeOK, BtTypeOK, SocketToSpare, DialsADevice, RetryStep,
              MaybeDevice, Proceed, DropDevice
  <1>1. CASE RetryList
    BY <1>1 DEF RetryList, Listed
  <1>2. CASE RetryPrefer
    BY <1>2 DEF RetryPrefer
  <1>3. CASE RetryPick
    BY <1>3 DEF RetryPick
  <1>4. CASE RetryDrop
    BY <1>4 DEF RetryDrop
  <1>5. CASE RetryDial
    BY <1>5, DialType DEF RetryDial
  <1>6. CASE RetryWait
    BY <1>6 DEF RetryWait
  <1>7. CASE RetryClear
    BY <1>7 DEF RetryClear
  <1>8. CASE RetryOff
    <2>1. powered' \in BOOLEAN
      BY <1>8, Zenon DEF RetryOff, PowerOff
    <2> QED
      BY <1>8, <2>1 DEF RetryOff, PowerOff
  <1> QED
    BY <1>1, <1>2, <1>3, <1>4, <1>5, <1>6, <1>7, <1>8

\* So does the control thread, whose SWITCH has a phone for its target.
LEMMA ControlType ==
    ASSUME TypeInv, Controlling
    PROVE  TypeInv'
  <1> USE UsbOperationsType
          DEF Controlling, TypeInv, TypeOK, BtTypeOK, SocketToSpare, DialsADevice, CtlStep,
              MaybeDevice, AfterStop, DropDevice
  <1>1. CASE CtlReceive
    BY <1>1 DEF CtlReceive
  <1>2. CASE CtlStopTest
    BY <1>2 DEF CtlStopTest
  <1>3. CASE CtlStopSet
    BY <1>3, StopSetType DEF CtlStopSet
  <1>4. CASE CtlMatch
    BY <1>4 DEF CtlMatch
  <1>5. CASE CtlStore
    BY <1>5 DEF CtlStore
  <1>6. CASE CtlForget
    BY <1>6 DEF CtlForget
  <1>7. CASE CtlSweep
    BY <1>7 DEF CtlSweep
  <1>8. CASE CtlPick
    BY <1>8 DEF CtlPick
  <1>9. CASE CtlDrop
    BY <1>9 DEF CtlDrop
  <1>10. CASE CtlDial
    BY <1>10, DialType DEF CtlDial
  <1> QED
    BY <1>1, <1>2, <1>3, <1>4, <1>5, <1>6, <1>7, <1>8, <1>9, <1>10 DEF CtlServe

\* Every variable keeps its type, whatever the phones, the host and the clients
\* of the control socket do; in particular no more sockets leak than there are,
\* for main gives up before (aawgd.cpp:35-39, proxyHandler.cpp:171-181).
THEOREM TypeCorrect == Spec => []TypeOK
  <1>1. Init => TypeInv
    <2> SUFFICES ASSUME Init
                 PROVE  TypeInv
      OBVIOUS
    <2>1. UsbTypeOK
      BY Zenon DEF Init, UsbInit, UsbTypeOK
    <2>2. powered \in BOOLEAN
      BY Zenon DEF Init, BtInit
    <2>3. BtTypeOK
      BY <2>2 DEF Init, BtInit, BtTypeOK, MaybeDevice
    <2> QED
      BY <2>1, <2>3, FdLimitAssumption
      DEF Init, BtInit, TypeInv, TypeOK, SocketToSpare, DialsADevice
  <1>2. TypeInv /\ [Next]_vars => TypeInv'
    <2> SUFFICES ASSUME TypeInv, [Next]_vars
                 PROVE  TypeInv'
      OBVIOUS
    <2>1. CASE MainStep \/ ProxyStep \/ Retrying \/ Controlling
      BY <2>1, MainType, ProxyType, RetryType, ControlType
    <2>2. CASE Hosting(HandleStart) \/ Hosting(Switch)
      BY <2>2, UsbOperationsType
      DEF Hosting, TypeInv, TypeOK, BtTypeOK, SocketToSpare, DialsADevice
    <2>3. CASE PhonesMove
      BY <2>3, UsbOperationsType
      DEF PhonesMove, Phones, PhoneJoins, PhoneDrops, TypeInv, TypeOK, BtTypeOK,
          SocketToSpare, DialsADevice
    <2>4. CASE UNCHANGED vars
      BY <2>4, UsbOperationsType DEF TypeInv, TypeOK, BtTypeOK, SocketToSpare, DialsADevice
    <2> QED
      BY <2>1, <2>2, <2>3, <2>4 DEF Next, Dead
  <1>3. TypeInv => TypeOK
    BY DEF TypeInv
  <1> QED
    BY <1>1, <1>2, <1>3, PTL DEF Spec
-----------------------------------------------------------------------------
\* The retry thread, its promise and the radio.

\* What the radio is at the steps where PowerFollowsStrategy comes to hold: the
\* retry thread has powered it off before it ends, and main has powered it on
\* before it starts the next one.
RadioSettled ==
    /\ retry = "off" => ~Dongle
    /\ retry = "done" /\ ~Dongle => ~powered
    /\ ~HasAdapter => ~powered
    /\ main = "connect" /\ HasAdapter => powered

RadioInv == PromiseBelongsToThread /\ PowerFollowsStrategy /\ RadioSettled

\* A stop leaves the promise in place: only its thread drops it.
LEMMA StopSetKeepsPromise ==
    ASSUME StopSet
    PROVE  promise' = "null" <=> promise = "null"
  BY DEF StopSet

\* The steps that leave the promise, the retry thread, main and the radio alone.
LEMMA RadioFrame ==
    ASSUME RadioInv, promise' = "null" <=> promise = "null",
           UNCHANGED <<retry, main, powered>>,
           connected' # {} => powered
    PROVE  RadioInv'
  BY DEF RadioInv, PromiseBelongsToThread, PowerFollowsStrategy, RadioSettled, Looping

\* The main thread: one thread and one promise at a time, the radio on before it.
LEMMA MainRadio ==
    ASSUME RadioInv, MainStep
    PROVE  RadioInv'
  <1> USE DEF RadioInv, PromiseBelongsToThread, PowerFollowsStrategy, RadioSettled,
              Looping, LoopStart
  <1>1. CASE MainBoot
    BY <1>1, BluetoothAssumption DEF MainStep, MainBoot, PowerOn
  <1>2. CASE MainArm
    BY <1>2 DEF MainArm
  <1>3. CASE MainEnable
    BY <1>3 DEF MainEnable
  <1>4. CASE MainUsbReady
    BY <1>4 DEF MainUsbReady
  <1>5. CASE MainListen
    BY <1>5 DEF MainListen
  <1>6. CASE MainPower
    BY <1>6 DEF MainPower, PowerOn
  <1>7. CASE MainConnect
    BY <1>7 DEF MainConnect, ConnectWithRetry
  <1>8. CASE MainJoin
    BY <1>8 DEF MainJoin
  <1>9. CASE MainStopTest
    BY <1>9 DEF MainStopTest
  <1>10. CASE MainStopSet
    BY <1>10, StopSetKeepsPromise DEF MainStopSet
  <1>11. CASE MainJoinRetry
    BY <1>11 DEF MainJoinRetry
  <1>12. CASE MainDisable
    BY <1>12 DEF MainDisable
  <1>13. CASE MainPause
    BY <1>13 DEF MainPause
  <1> QED
    BY <1>1, <1>2, <1>3, <1>4, <1>5, <1>6, <1>7, <1>8, <1>9, <1>10, <1>11,
       <1>12, <1>13 DEF MainStep

\* The proxy thread, the control thread and the phones touch none of it, but
\* for a stop and for the connections.
LEMMA ProxyRadio ==
    ASSUME RadioInv, ProxyStep
    PROVE  RadioInv'
  <1>1. promise' = "null" <=> promise = "null"
    BY StopSetKeepsPromise
    DEF ProxyStep, ProxyRuns, ProxyProceeds, ProxyAccept, ProxyAcceptFails,
        ProxyStopTest, ProxyStopSet, ProxyArm, ProxyEnable, ProxyUsbReady,
        ProxyUsbTimeout, ProxyOpen, ProxyOpenFails, ProxyForwardEnds
  <1>2. UNCHANGED <<retry, main, powered, connected>>
    BY DEF ProxyStep, ProxyRuns
  <1> QED
    BY <1>1, <1>2, RadioFrame DEF RadioInv, PowerFollowsStrategy

\* The control thread stops, disconnects and dials, which needs the radio.
LEMMA ControlRadio ==
    ASSUME RadioInv, Controlling
    PROVE  RadioInv'
  <1>1. promise' = "null" <=> promise = "null"
    BY StopSetKeepsPromise
    DEF Controlling, CtlStep, CtlReceive, CtlServe, CtlStopTest, CtlStopSet,
        CtlMatch, CtlStore, CtlForget, CtlSweep, CtlPick, CtlDrop, CtlDial
  <1>2. UNCHANGED <<retry, main, powered>>
    BY DEF Controlling, CtlStep
  <1>3. connected' # {} => connected # {} \/ powered
    BY DEF Controlling, CtlStep, CtlReceive, CtlServe, CtlStopTest, CtlStopSet,
           CtlMatch, CtlStore, CtlForget, CtlSweep, CtlPick, CtlDrop, CtlDial,
           DropDevice, DialDevice
  <1> QED
    BY <1>1, <1>2, <1>3, RadioFrame DEF RadioInv, PowerFollowsStrategy

\* The retry thread drops the promise, then the radio, then ends.
LEMMA RetryRadio ==
    ASSUME RadioInv, Retrying
    PROVE  RadioInv'
  <1> USE DEF RadioInv, PromiseBelongsToThread, PowerFollowsStrategy, RadioSettled,
              Looping, Retrying, RetryStep, Proceed
  <1>1. CASE RetryList
    BY <1>1 DEF RetryList
  <1>2. CASE RetryPrefer
    BY <1>2 DEF RetryPrefer
  <1>3. CASE RetryPick
    BY <1>3 DEF RetryPick
  <1>4. CASE RetryDrop
    BY <1>4 DEF RetryDrop
  <1>5. CASE RetryDial
    BY <1>5 DEF RetryDial
  <1>6. CASE RetryWait
    BY <1>6 DEF RetryWait
  <1>7. CASE RetryClear
    BY <1>7 DEF RetryClear
  <1>8. CASE RetryOff
    BY <1>8 DEF RetryOff, PowerOff
  <1> QED
    BY <1>1, <1>2, <1>3, <1>4, <1>5, <1>6, <1>7, <1>8

\* RadioInv is inductive.
LEMMA RadioInvariant == Spec => []RadioInv
  <1>1. Init => RadioInv
    BY DEF Init, BtInit, RadioInv, PromiseBelongsToThread, PowerFollowsStrategy,
           RadioSettled, Looping
  <1>2. RadioInv /\ [Next]_vars => RadioInv'
    <2> SUFFICES ASSUME RadioInv, [Next]_vars
                 PROVE  RadioInv'
      OBVIOUS
    <2>1. CASE MainStep \/ ProxyStep \/ Retrying \/ Controlling
      BY <2>1, MainRadio, ProxyRadio, RetryRadio, ControlRadio
    <2>2. CASE Hosting(HandleStart) \/ Hosting(Switch) \/ UNCHANGED vars
      BY <2>2, RadioFrame DEF Hosting, RadioInv, PowerFollowsStrategy
    <2>3. CASE PhonesMove
      BY <2>3, RadioFrame
      DEF PhonesMove, Phones, PhoneJoins, PhoneDrops, RadioInv, PowerFollowsStrategy
    <2> QED
      BY <2>1, <2>2, <2>3 DEF Next, Dead
  <1> QED
    BY <1>1, <1>2, PTL DEF Spec

\* The stop promise is alive exactly while the retry thread still looks at it,
\* and that thread exists exactly from connectWithRetry to main's join, with any
\* phones and whatever the control socket is asked (bluetoothHandler.cpp:364-427).
THEOREM PromiseNeverOutlived == Spec => []PromiseBelongsToThread
  <1>1. RadioInv => PromiseBelongsToThread
    BY DEF RadioInv
  <1> QED
    BY <1>1, RadioInvariant, PTL

\* The radio is on whenever a phone is being called, for ever in dongle mode, and
\* off between two connections in the other modes (bluetoothHandler.cpp:377-379).
THEOREM PowerIsSettled == Spec => []PowerFollowsStrategy
  <1>1. RadioInv => PowerFollowsStrategy
    BY DEF RadioInv
  <1> QED
    BY <1>1, RadioInvariant, PTL
-----------------------------------------------------------------------------
\* The calls of UsbManager.

\* The proxy thread lives while main starts the connection and waits for it.
ProxyIsJoined == proxy # "none" <=> main \in {"power", "connect", "join"}

\* Who is in enableDefaultAndWaitForAccessory: main if usb comes first, else the
\* proxy, and the state of the call is that of its caller.
OneCaller ==
    /\ main \in {"arm", "enable", "usbwait"} => UsbFirst
    /\ proxy \in {"arm", "enable", "usbwait"} => ~UsbFirst
    /\ user = "enable" <=> main = "enable" \/ proxy = "enable"
    /\ user = "wait" <=> main = "usbwait" \/ proxy = "usbwait"

\* When there is no call, and when usb first has had its call.
CallMade ==
    /\ main \in {"boot", "arm", "pause"} => user = "idle"
    /\ ~UsbFirst /\ (main = "listen" \/ proxy \in {"accept", "stop", "set", "arm"})
         => user = "idle"
    /\ UsbFirst /\ main \notin {"boot", "arm", "enable", "usbwait", "pause"}
         => user = "over"
    /\ user \in {"idle", "enable", "wait", "over"}

CallInv == ProxyIsJoined /\ OneCaller /\ CallMade

\* The steps that leave main, the proxy thread and the call alone.
LEMMA CallFrame ==
    ASSUME CallInv, UNCHANGED <<main, proxy, user>>
    PROVE  CallInv'
  BY DEF CallInv, ProxyIsJoined, OneCaller, CallMade

\* The main thread calls UsbManager only with usb first, and between two proxies.
LEMMA MainCall ==
    ASSUME CallInv, MainStep
    PROVE  CallInv'
  <1> USE BluetoothAssumption DEF CallInv, ProxyIsJoined, OneCaller, CallMade, LoopStart
  <1>1. CASE MainBoot
    BY <1>1 DEF MainBoot
  <1>2. CASE MainArm
    BY <1>2 DEF MainArm, AddHandler
  <1>3. CASE MainEnable
    BY <1>3 DEF MainEnable, EnableDefault
  <1>4. CASE MainUsbReady
    BY <1>4 DEF MainUsbReady, WaitReady
  <1>5. CASE MainListen
    BY <1>5 DEF MainListen
  <1>6. CASE MainPower
    BY <1>6 DEF MainPower
  <1>7. CASE MainConnect
    BY <1>7 DEF MainConnect
  <1>8. CASE MainJoin
    BY <1>8 DEF MainJoin
  <1>9. CASE MainStopTest
    BY <1>9 DEF MainStopTest
  <1>10. CASE MainStopSet
    BY <1>10 DEF MainStopSet
  <1>11. CASE MainJoinRetry
    BY <1>11 DEF MainJoinRetry
  <1>12. CASE MainDisable
    BY <1>12 DEF MainDisable, DisableAll
  <1>13. CASE MainPause
    BY <1>13 DEF MainPause
  <1> QED
    BY <1>1, <1>2, <1>3, <1>4, <1>5, <1>6, <1>7, <1>8, <1>9, <1>10, <1>11,
       <1>12, <1>13 DEF MainStep

\* The proxy thread calls it only in the other modes.
LEMMA ProxyCall ==
    ASSUME CallInv, ProxyStep
    PROVE  CallInv'
  <1> USE DEF CallInv, ProxyIsJoined, OneCaller, CallMade, ReturnEarly,
              AfterProxyStop, ProxyRuns
  <1>1. CASE ProxyRuns(ProxyAccept)
    BY <1>1 DEF ProxyAccept
  <1>2. CASE ProxyRuns(ProxyAcceptFails)
    BY <1>2 DEF ProxyAcceptFails
  <1>3. CASE ProxyRuns(ProxyStopTest)
    BY <1>3 DEF ProxyStopTest
  <1>4. CASE ProxyRuns(ProxyStopSet)
    BY <1>4 DEF ProxyStopSet
  <1>5. CASE ProxyRuns(ProxyArm)
    BY <1>5 DEF ProxyArm, AddHandler
  <1>6. CASE ProxyRuns(ProxyEnable)
    BY <1>6 DEF ProxyEnable, EnableDefault
  <1>7. CASE ProxyRuns(ProxyUsbReady)
    BY <1>7 DEF ProxyUsbReady, WaitReady
  <1>8. CASE ProxyRuns(ProxyUsbTimeout)
    BY <1>8 DEF ProxyUsbTimeout, WaitTimeout
  <1>9. CASE ProxyRuns(ProxyOpen)
    BY <1>9 DEF ProxyOpen
  <1>10. CASE ProxyRuns(ProxyOpenFails)
    BY <1>10 DEF ProxyOpenFails
  <1>11. CASE ProxyRuns(ProxyForwardEnds)
    BY <1>11 DEF ProxyForwardEnds
  <1> QED
    BY <1>1, <1>2, <1>3, <1>4, <1>5, <1>6, <1>7, <1>8, <1>9, <1>10, <1>11
       DEF ProxyStep, ProxyProceeds

\* CallInv is inductive.
LEMMA CallInvariant == Spec => []CallInv
  <1>1. Init => CallInv
    BY DEF Init, UsbInit, CallInv, ProxyIsJoined, OneCaller, CallMade
  <1>2. CallInv /\ [Next]_vars => CallInv'
    <2> SUFFICES ASSUME CallInv, [Next]_vars
                 PROVE  CallInv'
      OBVIOUS
    <2>1. CASE MainStep \/ ProxyStep
      BY <2>1, MainCall, ProxyCall
    <2>2. CASE Retrying \/ Controlling \/ PhonesMove \/ UNCHANGED vars
      BY <2>2, CallFrame DEF Retrying, Controlling, PhonesMove
    <2>3. CASE Hosting(HandleStart) \/ Hosting(Switch)
      BY <2>3, CallFrame
      DEF Hosting, HandleStart, Switch, SwitchDrop, SwitchRaise, SwitchAnswer
    <2> QED
      BY <2>1, <2>2, <2>3 DEF Next, Dead
  <1> QED
    BY <1>1, <1>2, PTL DEF Spec

\* No two threads are ever inside UsbManager, which has no lock, and the gadgets
\* are disabled only when nobody waits for the accessory: main joins the proxy
\* thread first (aawgd.cpp:29-32, 47-54).
THEOREM UsbCallsAreSerial == Spec => []UsbCallsNeverOverlap
  <1>1. CallInv => UsbCallsNeverOverlap
    BY DEF CallInv, ProxyIsJoined, OneCaller, CallMade, UsbCallsNeverOverlap
  <1> QED
    BY <1>1, CallInvariant, PTL

-----------------------------------------------------------------------------
\* The gadget. LateStart is the case of a START that reaches the handler of a
\* call after the gadget it was sent to has been disabled.

\* A gadget the call can still see is never the default one before the call has
\* enabled it.
NoDefaultYet == user \in {"idle", "enable"} => bound # "default"

\* The START handler of the call in progress: what it has done, and what the
\* caller cannot have done meanwhile.
HandlerOfCall ==
    switcher # "idle" /\ ~orphan =>
        /\ user \in {"enable", "wait"} /\ ~answered
        /\ user = "enable" => bound = "accessory"
        /\ switcher = "raise" => bound # "default"
        /\ switcher = "set" => bound = "accessory"

\* The value of the promise tells what is bound, for as long as it matters.
AnswerIsTrue ==
    /\ user \in {"enable", "wait"} /\ answered => bound = "accessory"
    /\ UsbFirst /\ user = "over" => bound = "accessory"
    /\ proxy \in {"open", "forward"} => bound = "accessory"

GadgetInv ==
    /\ UsbTypeOK
    /\ orphan => switcher # "idle"
    /\ NoDefaultYet
    /\ HandlerOfCall
    /\ AnswerIsTrue

\* The steps that leave the gadgets alone and bring no session about.
LEMMA GadgetFrame ==
    ASSUME GadgetInv, UNCHANGED usbVars,
           proxy' \in {"open", "forward"} => bound = "accessory"
    PROVE  GadgetInv'
  BY DEF GadgetInv, NoDefaultYet, HandlerOfCall, AnswerIsTrue, UsbTypeOK

\* The main thread: its call, and disableGadget, which comes when nobody waits.
LEMMA MainGadget ==
    ASSUME GadgetInv, CallInv, MainStep
    PROVE  GadgetInv'
  <1> USE DEF CallInv, ProxyIsJoined, OneCaller, CallMade
  <1>1. CASE MainArm
    BY <1>1, UsbOperationsType
    DEF MainArm, AddHandler, GadgetInv, NoDefaultYet, HandlerOfCall, AnswerIsTrue
  <1>2. CASE MainEnable
    BY <1>2, UsbOperationsType
    DEF MainEnable, EnableDefault, Enable, GadgetInv, NoDefaultYet, HandlerOfCall,
        AnswerIsTrue
  <1>3. CASE MainUsbReady
    BY <1>3, UsbOperationsType
    DEF MainUsbReady, WaitReady, GadgetInv, NoDefaultYet, HandlerOfCall, AnswerIsTrue
  <1>4. CASE MainDisable
    BY <1>4, UsbOperationsType
    DEF MainDisable, DisableAll, GadgetInv, NoDefaultYet, HandlerOfCall, AnswerIsTrue
  <1>5. ASSUME UNCHANGED usbVars, proxy' \in {proxy, "accept", "none"}
        PROVE  GadgetInv'
    BY <1>5, GadgetFrame DEF GadgetInv, AnswerIsTrue
  <1> QED
    BY <1>1, <1>2, <1>3, <1>4, <1>5
    DEF MainStep, MainBoot, MainListen, MainPower, MainConnect, MainJoin,
        MainStopTest, MainStopSet, MainJoinRetry, MainPause

\* The proxy thread: its call, whose timeout leaves the handler an orphan.
LEMMA ProxyGadget ==
    ASSUME GadgetInv, CallInv, ProxyStep
    PROVE  GadgetInv'
  <1> USE DEF CallInv, ProxyIsJoined, OneCaller, CallMade, ProxyRuns
  <1>1. CASE ProxyRuns(ProxyArm)
    BY <1>1, UsbOperationsType
    DEF ProxyArm, AddHandler, GadgetInv, NoDefaultYet, HandlerOfCall, AnswerIsTrue
  <1>2. CASE ProxyRuns(ProxyEnable)
    BY <1>2, UsbOperationsType
    DEF ProxyEnable, EnableDefault, Enable, GadgetInv, NoDefaultYet, HandlerOfCall,
        AnswerIsTrue
  <1>3. CASE ProxyRuns(ProxyUsbReady)
    BY <1>3, UsbOperationsType
    DEF ProxyUsbReady, WaitReady, GadgetInv, NoDefaultYet, HandlerOfCall, AnswerIsTrue
  <1>4. CASE ProxyRuns(ProxyUsbTimeout)
    BY <1>4, UsbOperationsType
    DEF ProxyUsbTimeout, WaitTimeout, ReturnEarly, GadgetInv, NoDefaultYet,
        HandlerOfCall, AnswerIsTrue
  <1>5. CASE ProxyRuns(ProxyStopTest) \/ ProxyRuns(ProxyStopSet)
    \* Only usb first opens the accessory at once, and it has had its call.
    <2>1. proxy' = "open" => UsbFirst /\ main \in {"power", "connect", "join"}
      BY <1>5 DEF ProxyStopTest, ProxyStopSet, AfterProxyStop
    <2>2. proxy' # "forward" /\ UNCHANGED usbVars
      BY <1>5 DEF ProxyStopTest, ProxyStopSet, AfterProxyStop
    <2> QED
      BY <2>1, <2>2, GadgetFrame DEF GadgetInv, AnswerIsTrue
  <1>6. CASE \/ ProxyRuns(ProxyAccept) \/ ProxyRuns(ProxyAcceptFails)
             \/ ProxyRuns(ProxyOpen) \/ ProxyRuns(ProxyOpenFails)
             \/ ProxyRuns(ProxyForwardEnds)
    BY <1>6, GadgetFrame
    DEF ProxyAccept, ProxyAcceptFails, ProxyOpen, ProxyOpenFails, ProxyForwardEnds,
        ReturnEarly, GadgetInv, AnswerIsTrue
  <1> QED
    BY <1>1, <1>2, <1>3, <1>4, <1>5, <1>6 DEF ProxyStep, ProxyProceeds

\* START and the handler: here a START must come through a bound gadget.
LEMMA HostGadget ==
    ASSUME LateStart = FALSE, GadgetInv, CallInv,
           Hosting(HandleStart) \/ Hosting(Switch)
    PROVE  GadgetInv'
  <1> USE UsbOperationsType
          DEF Hosting, GadgetInv, NoDefaultYet, HandlerOfCall, AnswerIsTrue,
              Enable, Disable
  <1>1. CASE Hosting(HandleStart)
    BY <1>1 DEF HandleStart, UsbTypeOK
  <1>2. CASE Hosting(SwitchDrop)
    BY <1>2 DEF SwitchDrop, Switch
  <1>3. CASE Hosting(SwitchRaise)
    BY <1>3 DEF SwitchRaise, Switch, UsbTypeOK
  <1>4. CASE Hosting(SwitchAnswer)
    BY <1>4 DEF SwitchAnswer, Switch
  <1> QED
    BY <1>1, <1>2, <1>3, <1>4 DEF Switch

\* GadgetInv is inductive beside CallInv.
LEMMA GadgetInvariant ==
    ASSUME LateStart = FALSE
    PROVE  Spec => [](CallInv /\ GadgetInv)
  <1>1. Init => GadgetInv
    BY DEF Init, UsbInit, UsbTypeOK, GadgetInv, NoDefaultYet, HandlerOfCall, AnswerIsTrue
  <1>2. CallInv /\ GadgetInv /\ [Next]_vars => GadgetInv'
    <2> SUFFICES ASSUME CallInv, GadgetInv, [Next]_vars
                 PROVE  GadgetInv'
      OBVIOUS
    <2>1. CASE MainStep \/ ProxyStep \/ Hosting(HandleStart) \/ Hosting(Switch)
      BY <2>1, MainGadget, ProxyGadget, HostGadget
    <2>2. CASE Retrying \/ Controlling \/ PhonesMove \/ UNCHANGED vars
      BY <2>2, GadgetFrame DEF Retrying, Controlling, PhonesMove, GadgetInv, AnswerIsTrue
    <2> QED
      BY <2>1, <2>2 DEF Next, Dead
  <1> QED
    BY <1>1, <1>2, CallInvariant, PTL DEF Spec

\* A session opens the accessory and forwards only while the accessory gadget is
\* bound, even when a handler left over from a call that timed out runs late. It
\* needs that no START is handled after its gadget was disabled: without that,
\* UsbManager itself answers too early (usb.cpp:68-126, proxyHandler.cpp:171-220).
THEOREM SessionsHaveTheAccessory ==
    ASSUME LateStart = FALSE
    PROVE  Spec => []SessionHasAccessory
  <1>1. GadgetInv => SessionHasAccessory
    BY DEF GadgetInv, AnswerIsTrue, SessionHasAccessory
  <1> QED
    BY <1>1, GadgetInvariant, PTL

\* No phone has, or can get, a Bluetooth connection without the accessory.
PhonesNeedAccessory == UsbFirst /\ (powered \/ connected # {}) => bound = "accessory"

\* Once the radio has been off: it is off again whenever main waits for the car.
RadioWaitsForUsb ==
    UsbFirst /\ main \in {"boot", "arm", "enable", "usbwait", "pause"} => ~powered

\* Only main powers the radio on, and it goes back to wait with the radio off.
LEMMA RadioWaitsStep ==
    ASSUME RadioInv, RadioWaitsForUsb, [Next]_vars
    PROVE  RadioWaitsForUsb'
  <1>1. CASE MainStep
    BY <1>1
    DEF MainStep, MainBoot, MainArm, MainEnable, MainUsbReady, MainListen, MainPower,
        MainConnect, MainJoin, MainStopTest, MainStopSet, MainJoinRetry, MainDisable,
        MainPause, PowerOn, LoopStart, RadioInv, PowerFollowsStrategy, RadioWaitsForUsb
  <1>2. CASE ProxyStep \/ Controlling \/ Hosting(HandleStart) \/ Hosting(Switch) \/ PhonesMove
    BY <1>2
    DEF ProxyStep, ProxyRuns, Controlling, CtlStep, Hosting, PhonesMove, Phones, PhoneJoins,
        PhoneDrops, RadioWaitsForUsb
  <1>3. CASE Retrying
    <2>1. main' = main /\ (powered' = powered \/ ~powered')
      BY <1>3
      DEF Retrying, RetryStep, RetryList, RetryPrefer, RetryPick, RetryDrop, RetryDial,
          RetryWait, RetryClear, RetryOff, PowerOff
    <2> QED
      BY <2>1 DEF RadioWaitsForUsb
  <1>4. CASE UNCHANGED vars
    BY <1>4 DEF RadioWaitsForUsb
  <1> QED
    BY <1>1, <1>2, <1>3, <1>4 DEF Next, Dead

\* Usb first, in two parts (aawgd.cpp:29-45). The retry thread runs only while the
\* accessory is bound. And whoever calls, a client's SWITCH included: from the first
\* moment the radio is off, which is at once if BlueZ left it off and else after the
\* first session, it is on, and a phone connected, only while the accessory is bound.
\* An adapter that BlueZ left on lets a SWITCH call a phone earlier.
THEOREM UsbComesFirst ==
    ASSUME LateStart = FALSE
    PROVE  Spec => []UsbBeforeBluetooth /\ [](~powered => []PhonesNeedAccessory)
  <1>1. CallInv /\ GadgetInv /\ RadioInv => UsbBeforeBluetooth
    BY DEF CallInv, CallMade, GadgetInv, AnswerIsTrue, RadioInv,
           PromiseBelongsToThread, UsbBeforeBluetooth
  <1>2. ~powered => RadioWaitsForUsb
    BY DEF RadioWaitsForUsb
  <1>3. RadioInv /\ RadioWaitsForUsb /\ [Next]_vars => RadioWaitsForUsb'
    BY RadioWaitsStep
  <1>4. CallInv /\ GadgetInv /\ RadioInv /\ RadioWaitsForUsb => PhonesNeedAccessory
    BY DEF CallInv, CallMade, GadgetInv, AnswerIsTrue, RadioInv, PowerFollowsStrategy,
           RadioWaitsForUsb, PhonesNeedAccessory
  <1> QED
    BY <1>1, <1>2, <1>3, <1>4, GadgetInvariant, RadioInvariant, PTL DEF Spec
-----------------------------------------------------------------------------
\* Without commands: nothing but the proxy and main stops the retry thread.

\* Until the proxy thread has made its stop there has been none.
NoStopYet ==
    /\ ctl = "idle"
    /\ proxy \in {"accept", "stop", "set"} =>
         promise # "set" /\ retry \notin {"clear", "off", "done"}
    /\ proxy = "set" => promise # "null"
    /\ promise \in {"null", "pending", "set"}

QuietInv == CallInv /\ RadioInv /\ NoStopYet

\* main stops the retry thread only after it has joined the proxy thread.
LEMMA MainQuiet ==
    ASSUME QuietInv, MainStep
    PROVE  NoStopYet'
  <1> USE DEF QuietInv, CallInv, ProxyIsJoined, NoStopYet
  <1>1. CASE MainListen
    BY <1>1 DEF MainStep, MainListen, RadioInv, PromiseBelongsToThread, Looping
  <1>2. CASE MainConnect
    BY <1>2 DEF MainStep, MainConnect, ConnectWithRetry
  <1>3. CASE MainStopSet
    BY <1>3 DEF MainStep, MainStopSet, StopSet
  <1>4. CASE MainJoinRetry
    BY <1>4 DEF MainStep, MainJoinRetry
  <1>5. ASSUME UNCHANGED <<promise, retry, ctl>>, proxy' \in {proxy, "none"}
        PROVE  NoStopYet'
    BY <1>5
  <1> QED
    BY <1>1, <1>2, <1>3, <1>4, <1>5
    DEF MainStep, MainBoot, MainArm, MainEnable, MainUsbReady, MainPower, MainJoin,
        MainStopTest, MainDisable, MainPause

\* The proxy thread's stop is the first; it comes after the accept.
LEMMA ProxyQuiet ==
    ASSUME QuietInv, ProxyStep
    PROVE  NoStopYet'
  <1> USE DEF QuietInv, NoStopYet, ProxyRuns
  <1>1. CASE ProxyRuns(ProxyStopTest)
    BY <1>1 DEF ProxyStopTest, StopTest, AfterProxyStop
  <1>2. CASE ProxyRuns(ProxyStopSet)
    BY <1>2 DEF ProxyStopSet, StopSet, AfterProxyStop
  <1>3. CASE ProxyRuns(ProxyAccept)
    BY <1>3 DEF ProxyAccept
  <1>4. ASSUME UNCHANGED <<promise, retry, ctl>>,
               proxy' \notin {"accept", "stop", "set"}
        PROVE  NoStopYet'
    BY <1>4
  <1> QED
    BY <1>1, <1>2, <1>3, <1>4
    DEF ProxyStep, ProxyProceeds, ProxyAcceptFails, ProxyArm, ProxyEnable,
        ProxyUsbReady, ProxyUsbTimeout, ProxyOpen, ProxyOpenFails,
        ProxyForwardEnds, ReturnEarly

\* The retry thread ends its loop only once it is stopped.
LEMMA RetryQuiet ==
    ASSUME QuietInv, Retrying
    PROVE  NoStopYet'
  BY DEF QuietInv, NoStopYet, Retrying, RetryStep, RetryList, RetryPrefer, RetryPick,
         RetryDrop, RetryDial, Proceed, RetryWait, RetryClear, RetryOff

\* Without commands NoStopYet is inductive beside CallInv and RadioInv.
LEMMA QuietInvariant ==
    ASSUME Commands = {}
    PROVE  Spec => []QuietInv
  <1>1. Init => NoStopYet
    BY DEF Init, BtInit, NoStopYet
  <1>2. CallInv /\ RadioInv /\ NoStopYet /\ [Next]_vars => NoStopYet'
    <2> SUFFICES ASSUME QuietInv, [Next]_vars
                 PROVE  NoStopYet'
      BY DEF QuietInv
    <2>1. CASE MainStep \/ ProxyStep \/ Retrying
      BY <2>1, MainQuiet, ProxyQuiet, RetryQuiet
    <2>2. ~Controlling
      BY DEF QuietInv, NoStopYet, Controlling, CtlStep, CtlReceive, CtlServe,
             CtlStopTest, CtlStopSet, CtlMatch, CtlStore, CtlForget, CtlSweep,
             CtlPick, CtlDrop, CtlDial
    <2>3. CASE \/ Hosting(HandleStart) \/ Hosting(Switch) \/ PhonesMove
               \/ UNCHANGED vars
      BY <2>3 DEF QuietInv, NoStopYet, Hosting, PhonesMove, Phones, PhoneJoins, PhoneDrops
    <2> QED
      BY <2>1, <2>2, <2>3 DEF Next, Dead
  <1>3. CallInv /\ RadioInv /\ NoStopYet => QuietInv
    BY DEF QuietInv
  <1> QED
    BY <1>1, <1>2, <1>3, CallInvariant, RadioInvariant, PTL DEF Spec

\* As long as no command is served, the thread that calls the phones runs for as
\* long as the server waits for one (aawgd.cpp:45-47, bluetoothHandler.cpp:364-375).
THEOREM CallsUntilAccepted ==
    ASSUME Commands = {}
    PROVE  Spec => []KeepsCalling
  <1>1. QuietInv => KeepsCalling
    BY DEF QuietInv, NoStopYet, RadioInv, PromiseBelongsToThread, Looping, KeepsCalling
  <1> QED
    BY <1>1, QuietInvariant, PTL

\* In dongle mode a waiting server can be reached, whatever commands are served
\* (README.md:41).
THEOREM ReachableInDongleMode ==
    ASSUME Strategy = "DONGLE_MODE"
    PROVE  Spec => []AcceptingMeansReachable
  <1>1. RadioInv => AcceptingMeansReachable
    BY DEF RadioInv, PowerFollowsStrategy, AcceptingMeansReachable
  <1> QED
    BY <1>1, RadioInvariant, PTL

\* In the other modes it needs that no command is served: SWITCH and DISCONNECT end
\* in the adapter being powered off (bluetoothHandler.cpp:377-379).
THEOREM ReachableWithoutCommands ==
    ASSUME Commands = {}
    PROVE  Spec => []AcceptingMeansReachable
  <1>1. QuietInv => AcceptingMeansReachable
    BY DEF QuietInv, NoStopYet, RadioInv, PromiseBelongsToThread,
           PowerFollowsStrategy, Looping, AcceptingMeansReachable
  <1> QED
    BY <1>1, QuietInvariant, PTL

\* As long as no command is served, the stop every session makes never kills the
\* daemon: the promise it found is still there, and has no value yet
\* (bluetoothHandler.cpp:423-427).
THEOREM ProxyStopKillsNothing ==
    ASSUME Commands = {}
    PROVE  Spec => ProxyStopIsSafe
  <1>1. QuietInv /\ [Next]_vars => [proxy = "set" /\ proxy' # "set" => fate' = "running"]_vars
    <2> SUFFICES ASSUME QuietInv, Next, proxy = "set", proxy' # "set"
                 PROVE  fate' = "running"
      OBVIOUS
    <2>1. ProxyRuns(ProxyStopSet)
      BY DEF Next, QuietInv, CallInv, ProxyIsJoined, MainStep, MainBoot, MainArm,
             MainEnable, MainUsbReady, MainListen, MainPower, MainConnect, MainJoin,
             MainStopTest, MainStopSet, MainJoinRetry, MainDisable, MainPause,
             ProxyStep, ProxyProceeds, ProxyRuns, ProxyAccept, ProxyAcceptFails,
             ProxyStopTest, ProxyArm, ProxyEnable, ProxyUsbReady, ProxyUsbTimeout,
             ProxyOpen, ProxyOpenFails, ProxyForwardEnds, Retrying, Controlling,
             Hosting, PhonesMove, Dead
    <2> QED
      BY <2>1 DEF ProxyRuns, ProxyStopSet, StopSet, QuietInv, NoStopYet
  <1> QED
    BY <1>1, QuietInvariant, PTL DEF Spec, ProxyStopIsSafe

\* Without commands no phone is ever preferred, and no pass asks which.
NoPreference == preferred = NoDevice /\ retry # "prefer"

\* Only SWITCH names a phone to prefer.
LEMMA NoPreferenceInvariant ==
    ASSUME Commands = {}
    PROVE  Spec => []NoPreference
  <1>1. Init => NoPreference
    BY DEF Init, BtInit, NoPreference
  <1>2. QuietInv /\ NoPreference /\ [Next]_vars => NoPreference'
    <2> SUFFICES ASSUME QuietInv, NoPreference, [Next]_vars
                 PROVE  NoPreference'
      OBVIOUS
    <2> USE DEF NoPreference
    <2>1. CASE MainStep
      BY <2>1 DEF MainStep, MainBoot, MainArm, MainEnable, MainUsbReady, MainListen, MainPower,
         MainConnect, ConnectWithRetry, MainJoin, MainStopTest, MainStopSet, MainJoinRetry,
         MainDisable, MainPause
    <2>2. CASE ProxyStep
      BY <2>2 DEF ProxyStep, ProxyRuns
    <2>3. CASE Retrying
      BY <2>3 DEF Retrying, RetryStep, RetryList, RetryPrefer, RetryPick, RetryDrop, RetryDial,
         Proceed, RetryWait, RetryClear, RetryOff
    <2>4. CASE Hosting(HandleStart) \/ Hosting(Switch) \/ PhonesMove \/ UNCHANGED vars
      BY <2>4 DEF Hosting, PhonesMove, Phones, PhoneJoins, PhoneDrops
    <2>5. ~Controlling
      BY DEF QuietInv, NoStopYet, Controlling, CtlStep, CtlReceive, CtlServe,
             CtlStopTest, CtlStopSet, CtlMatch, CtlStore, CtlForget, CtlSweep,
             CtlPick, CtlDrop, CtlDial
    <2> QED
      BY <2>1, <2>2, <2>3, <2>4, <2>5 DEF Next, Dead
  <1> QED
    BY <1>1, <1>2, QuietInvariant, PTL DEF Spec

\* Without commands there is one call that can kill the daemon: the stop main makes
\* after a session whose proxy thread has made one already, while the retry thread has
\* not dropped the promise, or is dropping it (aawgd.cpp:49, bluetoothHandler.cpp:423-427).
THEOREM OnlyMainsStopKills ==
    ASSUME Commands = {}
    PROVE  Spec => [][fate = "running" /\ fate' = "aborted" =>
                        main = "set" /\ promise # "pending"]_vars
  <1>1. QuietInv /\ NoPreference /\ [Next]_vars =>
          [fate = "running" /\ fate' = "aborted" => main = "set" /\ promise # "pending"]_vars
    <2> SUFFICES ASSUME QuietInv, NoPreference, Next, fate = "running", fate' = "aborted"
                 PROVE  main = "set" /\ promise # "pending"
      OBVIOUS
    <2>1. CASE MainStep
      BY <2>1 DEF MainStep, MainBoot, MainArm, MainEnable, MainUsbReady, MainListen, MainPower,
         MainConnect, MainJoin, MainStopTest, MainStopSet, StopSet, MainJoinRetry, MainDisable,
         MainPause
    <2>2. CASE ProxyStep
      <3>1. CASE ProxyRuns(ProxyStopSet)
        BY <3>1 DEF ProxyRuns, ProxyStopSet, StopSet, QuietInv, NoStopYet
      <3> QED
        BY <2>2, <3>1 DEF ProxyStep, ProxyProceeds, ProxyRuns, ProxyAccept, ProxyAcceptFails,
           ProxyStopTest, ProxyArm, ProxyEnable, ProxyUsbReady, ProxyUsbTimeout, ProxyOpen,
           ProxyOpenFails, ProxyForwardEnds
    <2>3. CASE Retrying
      BY <2>3 DEF NoPreference, Retrying, RetryStep, RetryList, RetryPrefer, RetryPick, RetryDrop,
         RetryDial, RetryWait, RetryClear, RetryOff
    <2>4. ~Controlling
      BY DEF QuietInv, NoStopYet, Controlling, CtlStep, CtlReceive, CtlServe,
             CtlStopTest, CtlStopSet, CtlMatch, CtlStore, CtlForget, CtlSweep,
             CtlPick, CtlDrop, CtlDial
    <2>5. ~Hosting(HandleStart) /\ ~Hosting(Switch) /\ ~PhonesMove /\ ~Dead
      BY DEF Hosting, PhonesMove, Phones, PhoneJoins, PhoneDrops, Dead
    <2> QED
      BY <2>1, <2>2, <2>3, <2>4, <2>5 DEF Next
  <1> QED
    BY <1>1, QuietInvariant, NoPreferenceInvariant, PTL DEF Spec

-----------------------------------------------------------------------------
\* What of the ends of the joins can be proved without fairness: whoever is joined
\* has been told to end, and comes nearer to its end with each of its own steps.

\* main joins a thread that is there, and a retry thread only once it is stopped.
JoinsEnd ==
    /\ main = "join" => proxy # "none"
    /\ main = "joinretry" => retry # "none" /\ promise # "pending"

\* The retry thread always has a device to take up, and one it has taken up is of
\* this pass.
PassInv ==
    /\ retry \in {"prefer", "pick"} => left # {}
    /\ retry \in {"drop", "dial"} => cur \in left

\* main stops the thread it has started, and only then joins it.
Stopped ==
    /\ main \in {"stop", "set", "joinretry"} => HasAdapter
    /\ main = "joinretry" => promise # "pending"

\* A stop is not undone, by no other one either.
LEMMA StoppedStep == Stopped /\ [Next]_vars => Stopped'
  <1> SUFFICES ASSUME Stopped, [Next]_vars PROVE Stopped'
    OBVIOUS
  <1> USE DEF Stopped
  <1>1. CASE MainStep
    BY <1>1 DEF MainStep, MainBoot, MainArm, MainEnable, MainUsbReady, MainListen, MainPower,
       MainConnect, MainJoin, MainStopTest, MainStopSet, StopTest, StopSet, MainJoinRetry,
       MainDisable, MainPause, LoopStart
  <1>2. CASE ProxyStep
    BY <1>2 DEF ProxyStep, ProxyProceeds, ProxyRuns, ProxyAccept, ProxyAcceptFails, ProxyStopTest,
       ProxyStopSet, StopSet, ProxyArm, ProxyEnable, ProxyUsbReady, ProxyUsbTimeout, ProxyOpen,
       ProxyOpenFails, ProxyForwardEnds
  <1>3. CASE Retrying
    BY <1>3 DEF Retrying, RetryStep, RetryList, RetryPrefer, RetryPick, RetryDrop, RetryDial,
       RetryWait, RetryClear, RetryOff
  <1>4. CASE Controlling
    BY <1>4 DEF Controlling, CtlStep, CtlReceive, CtlServe, CtlStopTest, CtlStopSet, StopSet,
       CtlMatch, CtlStore, CtlForget, CtlSweep, CtlPick, CtlDrop, CtlDial
  <1>5. CASE Hosting(HandleStart) \/ Hosting(Switch) \/ PhonesMove \/ UNCHANGED vars
    BY <1>5 DEF Hosting, PhonesMove, Phones, PhoneJoins, PhoneDrops
  <1> QED
    BY <1>1, <1>2, <1>3, <1>4, <1>5 DEF Next, Dead

\* A pass takes up what it has listed and drops only what it has done.
LEMMA PassStep == PassInv /\ [Next]_vars => PassInv'
  <1> SUFFICES ASSUME PassInv, [Next]_vars PROVE PassInv'
    OBVIOUS
  <1> USE DEF PassInv
  <1>1. CASE MainStep
    BY <1>1 DEF MainStep, MainBoot, MainArm, MainEnable, MainUsbReady, MainListen, MainPower,
       MainConnect, ConnectWithRetry, MainJoin, MainStopTest, MainStopSet, MainJoinRetry,
       MainDisable, MainPause
  <1>2. CASE ProxyStep \/ Controlling \/ Hosting(HandleStart) \/ Hosting(Switch) \/ PhonesMove
             \/ UNCHANGED vars
    BY <1>2 DEF ProxyStep, ProxyRuns, Controlling, CtlStep, Hosting, PhonesMove, Phones, PhoneJoins,
       PhoneDrops
  <1>3. CASE Retrying
    <2> USE DEF Retrying, RetryStep
    <2>1. CASE RetryList
      BY <2>1 DEF RetryList
    <2>2. CASE RetryPrefer \/ RetryPick
      BY <2>2 DEF RetryPrefer, RetryPick
    <2>3. CASE RetryDrop
      BY <2>3 DEF RetryDrop, Proceed
    <2>4. CASE RetryDial
      BY <2>4 DEF RetryDial, Proceed
    <2>5. CASE RetryWait \/ RetryClear \/ RetryOff
      BY <2>5 DEF RetryWait, RetryClear, RetryOff
    <2> QED
      BY <1>3, <2>1, <2>2, <2>3, <2>4, <2>5
  <1> QED
    BY <1>1, <1>2, <1>3 DEF Next, Dead

\* A pass ends by itself, whatever fails in it.
LEMMA PassInvariant == Spec => []PassInv
  <1>1. Init => PassInv
    BY DEF Init, BtInit, PassInv
  <1> QED
    BY <1>1, PassStep, PTL DEF Spec

\* No join of the daemon waits for a thread that is not there or that nobody has told
\* to end, whatever order the proxy's stop, main's and those of the clients come in
\* (aawgd.cpp:47-52).
THEOREM NoJoinInVain == Spec => []JoinsEnd
  <1>1. Init => Stopped
    BY DEF Init, Stopped
  <1>2. Stopped /\ [Next]_vars => Stopped'
    BY StoppedStep
  <1>3. Stopped /\ CallInv /\ RadioInv => JoinsEnd
    BY DEF Stopped, JoinsEnd, CallInv, ProxyIsJoined, RadioInv, PromiseBelongsToThread
  <1> QED
    BY <1>1, <1>2, <1>3, CallInvariant, RadioInvariant, PTL DEF Spec

\* What a stopped retry thread has left to do at most: three steps for each device of
\* this pass, or of the one it is about to begin.
StopLeft ==
    CASE retry = "list" -> 3 * Cardinality(Devices) + 3
      [] retry = "prefer" -> 3 * Cardinality(left) + 2
      [] retry = "pick" -> 3 * Cardinality(left) + 1
      [] retry = "drop" -> 3 * Cardinality(left)
      [] retry = "dial" -> 3 * Cardinality(left) - 1
      [] retry = "wait" -> 1
      [] OTHER -> 0

\* One step of the retry thread after the stop.
LEMMA RetryNears ==
    ASSUME IsFiniteSet(Devices), BtTypeOK, PassInv, RadioInv, Retrying, promise = "set"
    PROVE  promise' = "null" \/ fate' # "running" \/ StopLeft' < StopLeft
  <1> DEFINE N == Cardinality(left)
  <1> USE DEF Retrying, RetryStep, StopLeft
  <1>0. /\ left \subseteq Devices /\ IsFiniteSet(left) /\ N \in Nat
        /\ Cardinality(Devices) \in Nat
        /\ left # {} => N >= 1
        /\ retry \in {"drop", "dial"} => Cardinality(left \ {cur}) = N - 1
    <2>1. left \subseteq Devices
      BY DEF BtTypeOK
    <2>2. IsFiniteSet(left)
      BY <2>1, FS_Subset
    <2>3. N \in Nat /\ Cardinality(Devices) \in Nat
      BY <2>2, FS_CardinalityType
    <2>4. left # {} => N >= 1
      BY <2>2, <2>3, FS_EmptySet
    <2>5. retry \in {"drop", "dial"} => Cardinality(left \ {cur}) = N - 1
      BY <2>2, FS_RemoveElement DEF PassInv
    <2> QED
      BY <2>1, <2>2, <2>3, <2>4, <2>5
  <1>p. ASSUME NEW ok \in BOOLEAN, Proceed(ok), retry \in {"drop", "dial"} PROVE StopLeft' < StopLeft
    <2>1. N >= 1 /\ Cardinality(left') = N - 1 /\ retry' \in {"wait", "pick"}
      BY <1>0, <1>p DEF Proceed, PassInv
    <2>2. StopLeft \in {3 * N, 3 * N - 1} /\ StopLeft' \in {1, 3 * (N - 1) + 1}
      BY <1>p, <2>1
    <2> QED
      BY <1>0, <2>1, <2>2
  <1>1. CASE RetryList
    <2>1. PICK found \in SUBSET Devices :
              /\ left' = found
              /\ retry' \in {"wait", "prefer", "pick"}
      BY <1>1 DEF RetryList
    <2>2. Cardinality(found) \in Nat /\ Cardinality(found) <= Cardinality(Devices)
      BY FS_Subset, FS_CardinalityType
    <2>3. StopLeft = 3 * Cardinality(Devices) + 3
      BY <1>1 DEF RetryList
    <2>4. StopLeft' \in {1, 3 * Cardinality(found) + 2, 3 * Cardinality(found) + 1}
      BY <2>1
    <2> QED
      BY <1>0, <2>2, <2>3, <2>4
  <1>2. CASE RetryPrefer
    BY <1>0, <1>2 DEF RetryPrefer
  <1>3. CASE RetryPick
    BY <1>0, <1>3 DEF RetryPick
  <1>4. CASE RetryDrop
    <2>1. CASE retry' = "dial" /\ UNCHANGED left
      BY <1>0, <1>4, <2>1 DEF RetryDrop
    <2>2. CASE Proceed(FALSE)
      BY <1>4, <1>p, <2>2 DEF RetryDrop
    <2> QED
      BY <1>4, <2>1, <2>2 DEF RetryDrop
  <1>5. CASE RetryDial
    BY <1>5, <1>p DEF RetryDial
  <1>6. CASE RetryWait
    BY <1>6 DEF RetryWait
  <1>7. CASE RetryClear
    BY <1>7 DEF RetryClear
  <1>8. CASE RetryOff
    BY <1>8 DEF RetryOff, RadioInv, PromiseBelongsToThread, Looping
  <1> QED
    BY <1>1, <1>2, <1>3, <1>4, <1>5, <1>6, <1>7, <1>8

\* What is left is a number: it cannot grow less for ever.
THEOREM StopLeftCounts ==
    ASSUME IsFiniteSet(Devices)
    PROVE  Spec => [](StopLeft \in Nat)
  <1>1. TypeOK /\ PassInv => StopLeft \in Nat
    <2> SUFFICES ASSUME TypeOK, PassInv PROVE StopLeft \in Nat
      OBVIOUS
    <2>1. IsFiniteSet(left)
      BY FS_Subset DEF TypeOK, BtTypeOK
    <2>2. Cardinality(left) \in Nat /\ Cardinality(Devices) \in Nat
      BY <2>1, FS_CardinalityType
    <2>3. retry = "dial" => Cardinality(left) # 0
      BY <2>1, FS_EmptySet DEF PassInv
    <2> QED
      BY <2>2, <2>3 DEF StopLeft
  <1> QED
    BY <1>1, TypeCorrect, PassInvariant, PTL

\* Nobody else lengthens what a stopped retry thread has to do.
LEMMA OthersKeepStopLeft ==
    ASSUME RadioInv, [Next]_vars, ~Retrying, promise = "set"
    PROVE  StopLeft' = StopLeft
  <1>1. UNCHANGED <<retry, left>>
    <2>1. CASE MainStep
      BY <2>1 DEF RadioInv, PromiseBelongsToThread, Looping, MainStep, MainBoot, MainArm, MainEnable,
         MainUsbReady, MainListen, MainPower, MainConnect, MainJoin, MainStopTest, MainStopSet,
         MainJoinRetry, MainDisable, MainPause
    <2> QED
      BY <2>1 DEF Next, Dead, ProxyStep, ProxyRuns, Controlling, CtlStep, Hosting, PhonesMove,
         Phones, PhoneJoins, PhoneDrops
  <1> QED
    BY <1>1 DEF StopLeft

\* Once it is stopped, the retry thread comes nearer to dropping its promise with each
\* of its steps, whatever fails in them, and no other thread puts that off: neither the
\* phones that come and go nor the commands that drop and dial them. The number of
\* phones bounds it; the wait of 20 s is taken once at most (bluetoothHandler.cpp:364-375).
THEOREM StopNearsEnd ==
    ASSUME IsFiniteSet(Devices)
    PROVE  Spec => [][promise = "set" =>
                        \/ promise' = "null" \/ fate' # "running"
                        \/ StopLeft' < StopLeft
                        \/ ~Retrying /\ StopLeft' = StopLeft]_vars
  <1>1. TypeOK /\ PassInv /\ RadioInv /\ [Next]_vars =>
          [promise = "set" => \/ promise' = "null" \/ fate' # "running"
                              \/ StopLeft' < StopLeft
                              \/ ~Retrying /\ StopLeft' = StopLeft]_vars
    BY RetryNears, OthersKeepStopLeft DEF TypeOK
  <1> QED
    BY <1>1, TypeCorrect, PassInvariant, RadioInvariant, PTL DEF Spec
=============================================================================
