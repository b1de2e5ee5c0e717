# Verification of the Android Auto wireless dongle

TLA+ models of the software of this repository: the daemon `aawgd`, which takes an
Android Auto session from a phone (Bluetooth, then TCP over Wi-Fi) to a head unit (USB
accessory), its handshake with the phone, its control socket with the MQTT bridge, the A/B
update of the root file system, and the boot scripts that choose how wlan0 comes up. TLC
checks the models on small instances, TLAPS proves the theorems of the seven `*Proofs.tla`
for every value of the constants. `PROJECT.json` says which lines of the source each
definition models, which properties each run checks, and which hazard each property is
about.

File names without a directory are in `aa_wireless_dongle/package/aawg/src/`; the scripts
`S..`, `rcS` and `aawg-ota-apply` are in
`aa_wireless_dongle/board/common/rootfs_overlay/`.

## The system

| Component | State | Operations | Interacts through | Correct means |
|---|---|---|---|---|
| Main loop (`aawgd.cpp`) | the step of the loop, the strategy | one iteration per session | calls all others, joins their threads | serves one phone after another for ever |
| BluetoothHandler | adapter power, stop promise, preferred device; the retry thread | `powerOn`, `connectWithRetry`, `stopConnectWithRetry`, `switchToDevice`, `disconnectAll` | promise and preferred device shared by four threads, no lock; D-Bus | a phone is called while one is waited for; stops work; nothing crashes |
| UsbManager (`usb.cpp`) | two gadgets on one controller, a promise per call | `enableDefaultAndWaitForAccessory`, `disableGadget` | handler called on the uevent thread | a call that returns true has the accessory bound |
| UeventMonitor | netlink socket, list of handlers | `addHandler`, the monitor loop | the list, unlocked | every handler sees every event until it returns true |
| AAWProxy (`proxyHandler.cpp`) | server and session sockets, two forwarding threads | `startServer`, `handleClient`, `forward`, `readMessage`, `stopForwarding` | should_exit, two optional threads, SIGUSR1 | a session ends when either side ends, frees what it used and passes on whole messages |
| ControlSocketServer | one client at a time | LIST, SWITCH, DISCONNECT | BluetoothHandler, Unix socket | a command is served for the client that sent it, and no client but a silent one holds up the others |
| AA Wireless profile (`bluetoothProfiles.cpp`) | a detached thread and a descriptor per RFCOMM connection | `NewConnection`, the launch handshake | D-Bus, phone | the phone learns where to connect; thread and descriptor end with it |
| `mqttBridge.cpp` | the callback's thread, the status loop | commands, status | control socket, `aawg-ota-apply` | each payload has one meaning; busy is told from down |
| OTA scripts | `/persist/ota/*`, `cmdline.txt`, two slots | install, count boots, roll back, confirm | files; power may go | there is always a slot that boots and works |
| Boot and Wi-Fi scripts | configuration, mounts, services | `rcS`, `S30`, `S39`, `S41`, ... | files, environment | the services match the mode chosen, and the daemon tells phones what they serve |

What is hard: five threads of one process share a promise, an `optional` and a
`std::list` without a lock, and meet in timed waits and signals; a host's START may come
late; power may go at any step of an update or a boot, and files of /etc outlive it; nothing restarts the daemon when it dies
(`inittab` and `S93aawgd` only start it), so each crash is a dongle that waits for the
next power cycle.

## Modules

| Module | Models |
|---|---|
| `AccessoryGadget.tla` | What UsbManager promises its callers: one controller, one call at a time, a switch made by another thread |
| `UsbManager.tla` | How it keeps the promise: the handler list, the netlink queue, the monitor's walk; implements `AccessoryGadget` |
| `BluetoothHandler.tla` | Adapter, phones, retry thread, stop promise, control thread |
| `Aawgd.tla` | The daemon: main loop and proxy thread, with the two modules above by EXTENDS |
| `MCAawgd.tla` | Two phones for TLC |
| `AawgdProofs.tla` | Theorems about `Aawgd` |
| `UsbProofs.tla` | Theorems about `UsbManager`, its steps being those of `AccessoryGadget` among them |
| `Forwarding.tla` | The end of `handleClient`: two forwarding threads, their owner, the signal, the framing of what the phone sends |
| `ForwardingProofs.tla` | Theorems about `Forwarding` |
| `Launcher.tla` | `NewConnection` and the handshake of each connection's thread; phones that follow the protocol, do not, or go |
| `LauncherProofs.tla` | Theorems about `Launcher` |
| `ControlSocket.tla` | The control thread, the two threads of `aawgd-mqtt` with `parseCommandLine`, and other clients |
| `ControlProofs.tla` | Theorems about `ControlSocket` |
| `OtaUpdate.tla` | Installer, boot-state and confirmation scripts, the boot loader and power |
| `AbUpdate.tla` | What an update promises, without files and counts: one proven slot, never written, left only for one that has shown to be good |
| `OtaProofs.tla` | Theorems about the state of `OtaUpdate` |
| `OtaProgress.tla` | Theorems about its progress, and that its steps are those of `AbUpdate` |
| `WifiMode.tla` | `rcS`, S30, S39, S41, S93 and what the daemon tells phones; the user who edits `aawgd.conf`; power |
| `WifiProofs.tla` | Theorems about `WifiMode` |

### The daemon

`Aawgd` has four threads, each with a variable that says what it does next: `main`,
`proxy` (`handleClient`), `retry` (`retryConnectLoop`) and `ctl` (the control socket's
thread), and the START handler (`switcher`), which runs on the uevent thread. An action
is the code between two points at which another thread can be seen to act:
`stopConnectWithRetry` is two actions, the test of the promise (`StopTest`) and its use
(`StopSet`); each Disconnect and each ConnectProfile of a device is one; a pass of the
retry thread is as many as it has devices.
`StopSet` has the three outcomes of the code: the first `set_value` stops the thread, the
second throws and ends the process, one through a promise that has been dropped since the
test may do either. The test and the read of the preferred device are two actions as well.

Phones connect and disconnect by themselves while the adapter is on. Devices may be
missing from BlueZ's list unless they are connected; any D-Bus call on a device may fail;
which device comes first is arbitrary. Any station of the Wi-Fi network may connect to the
server at any time, and forwarding may end at any time. `leaked` counts the sockets of the
early returns of `handleClient`, `FdLimit` is the number at which `socket()` fails.

The gadgets are those of `AccessoryGadget`. A gadget is enabled only if the controller is
free, which is what configfs does and what `writeGadgetFile` ignores; `orphan` marks a
handler that has locked its promise before the call gave up.

`UsbManager` adds the list and the walk: `MonErase` is `it = erase(it)` followed by the
loop's `++it`, past the end of a `std::list` that means round to its first node.
`AddHandler` may lose its node if it races with the erase. The refinement
`ImplementsAccessoryGadget` maps the handler being run to `switcher` and the state of its
promise to `orphan`; it includes the fairness of `Switch`.

`LateStart` (and `Prompt`, its opposite, in `UsbManager`) is an assumption about time: a
START can wait in the netlink socket, or in the monitor, while its gadget is disabled and
the next call begins. Normally more than two seconds lie in between (`aawgd.cpp:58`); in
dongle mode nothing does. Runs and theorems say which case they take.

### Forwarding

`pc[t]` is the step of a forwarding thread. The lost wake-up is the difference between
"read" (should_exit tested, `read()` not entered) and "blocked", and between "write"
(should_exit tested, `write()` not entered) and "writing"; a signal between two reads of
one message is missed as well (`missed` in `Interrupt`). A signal ends the call it finds a
thread in. The TCP side's read always ends, because of `SO_RCVTIMEO`. Three calls have no
limit: the read of the accessory, and both writes (`acc_write` waits for the host to drain
its requests, and the socket has no `SO_SNDTIMEO`). So `ReadReturns` and `WriteReturns` are
under no fairness, and a liveness property names as its premise what it needs of the peers:
`Takes(t)`, that what is written is taken in the end, and `HostSends`. A peer may always go
instead, which ends the call. `member[t]` is the `std::optional<std::thread>` together with
whether its thread has been joined.

`readMessage` is in the same module, as its reads are what the signal ends: "blocked" is
also the read of a header, "body" that of the rest. `want` is what the `readFully` in
progress has still to read, and each `read()` may return any part of it; `unread` is what
remains of the message announced by the header, counted by the length the sender means
(four more bytes for a FIRST frame). The two agree only if the code computes the same
length, which is what `WholeMessages` is about. Bytes are counted in units: a header of
two, two more for a FIRST frame, a buffer of six, so that messages that fit, that fill the
buffer and that exceed it all occur. The theorem is for any lengths.

### The launch handshake

`launcher[l]` is the step of the thread of connection `l`: sending WifiStartRequest,
reading the first message, sending the credentials, draining, closing. A message is its
id; `readFully` keeps messages whole, so "cut" is the only partial one, left by a phone
that goes in the middle of it. `fds` counts the copies made by `dup`; with `FdFree = 1`
and two connections the second finds none left and gets neither thread nor answer. A phone is
`polite` or not: the polite one asks when told to start, sends any number of other messages
after the credentials and then WifiStartResponse; the other sends anything at any time.
`MaxWire` bounds what is sent and not yet read. Fairness: the threads run; a polite phone
that stays comes to ask (weak) and to start (strong, because its other messages may fill
the wire in between). No phone is obliged to go.

### The control socket and the bridge

`server` is the step of the control thread, `backlog` the connections that wait, `served`
the one accepted, `sent[c]` what a client has written and `ended` whether the server sees
its line end, by a newline or by the client's going. `thread[t]` is the progress of a
`unixSockRequest` of each of the bridge's threads. Another process (`Others`) may connect,
send a line or half of one, keep silent, or go before its answer. `DaemonDies` is any end
of `aawgd`, SIGPIPE at the answer to a client that is gone among them; what the bridge
then sees is a connection that ends or is refused. `handleCommand` changes the phones:
that is `CtlServe` of `BluetoothHandler.tla`, where a command arrives by itself; here it
is a step that returns.

A payload is its form, its command, its key and the command words that occur in its
argument: enough for `ParseJson`, which looks for words anywhere in the text. `Meaning` is
the reference, from the forms the comment before the code lists.

Fairness: the control thread and the bridge's run, and the kernel lets in by turns those
who wait for room in the backlog (strong fairness of `Connect`, without which another
process could overtake for ever). The broker and the other processes owe nothing.

### Updates

`phase` is the progress of the boot, `installer[i]` that of each run of
`aawg-ota-apply`. Every file write is an action; `PowerCycle` is power lost while the
system is up or hung, `PowerCut` at another step, `TearState` and `TearCmdline` inside a
write, which leaves the file empty. An image is `good`, `sick` (boots, no `aawgd`), `dead`
(does not boot) or `torn` (half written). The count saturates one above `max_boots`:
beyond it all counts are alike for the script. `MaxBoots = 2` is the value the scripts write.

`Failing` says which mounts may fail. With "boot", `set_cmdline_root` of a rollback cannot
write and the script goes on (`set +e`): `lost` records it. With "readonly", /boot cannot be
made read-only again after an installer has switched the root, which ends the script (`set
-e`): the root is switched and the reboot never comes (`SwitchStays`). `Patient` then says
more than that no update is ordered from an unproven slot: none is ordered, either, between
such a switch and the end of the drive. With "persist", a boot finds a
tmpfs at /persist (`persist = FALSE`): the scripts take it for the partition, so the boot is
not counted, the old state is neither seen nor changed, and what an installer writes is
gone at the next boot (`Written`); a root switched in such a boot has no way back, which
`lost` records too. Both are recorded so that the properties can say what holds apart from
them: the way back is there, or was lost in one of these two ways. `FaultsEnd` is the
condition of the liveness properties: from some moment on no boot is cut and each finds
its /persist.

### Wi-Fi mode

`step` is the script that runs next. `env` is what `rcS_aawgd_conf` leaves in the
environment of `rcS`; it is sourced once, because `AAWG_CONF_SOURCED` is exported, so that
a drawn password is drawn once. `etc` is the content of the two files S30 writes, `saved`
the same on /persist: a boot over /persist starts from the latter, one over a tmpfs or
without overlay from the image's. Without overlay /etc is read-only and S30 ends at its
first write (`set -e`). A configuration is written down as the script sees it: "unset"
stands for a variable that is missing, "EDIT_THIS" for the placeholder of `aawgd.conf`;
with the placeholder S30 and S39 behave as if it were missing, `Config::getenv` does not.
`Tear` is power lost inside one of the writes: an interfaces file without wlan0, a
supplicant file without network. The supplicant file is written before the interfaces
file, which is two actions, so power may also go between them.

## Runs

All passing runs explore the whole state space; the longest, `AawgdUsbFirst`, takes about
two minutes.

| Run | Bounds | Shows |
|---|---|---|
| `AawgdPhoneFirst` | 2 phones (symmetric), both commands, 2 sockets, prompt START | types, promise/thread, radio/strategy, accessory in sessions, one USB caller |
| `AawgdNoCommands` | no command, 3 sockets, late START | the server waits reachable, phones are being called, the session's stop is safe |
| `AawgdUsbFirst` | usb first, both commands, 2 sockets, no symmetry | the retry thread runs only with the accessory; the loop comes round; a stop is effective |
| `UsbPrompt` | 4 handlers, 3 events | the list implements the promise; a call that returns true has the accessory bound |
| `ForwardingSession` | buffer of 6 units, header of 2 or 4 | readFully asks for no more than fits, no use after close, SIGUSR1 always handled, whole messages; the TCP reader ends if the host takes what is written, sessions end if both peers do and the host sends |
| `Launcher` | 2 connections, 1 descriptor, 2 messages on the wire | no descriptor leaks, a polite phone is served to the end, a thread ends with its phone |
| `ControlSocket` | 1 other client, room for 1 connection, 5 arguments | a payload means one command, the daemon acts on its client's line, busy is not down, only silence blocks |
| `OtaSafe` | 1 installer, all bundles, all power losses and torn files, the mounts of /boot and /persist failing | boot target intact, way back ready, other slot only; when the faults end sick images roll back, good ones settle |
| `WifiBoots` | 1 SSID, 1 BSSID, 2 keys, 2 draws, every placeholder | wlan0 as this boot's configuration asks, phones told what is on the air |

Two phones suffice for an order, a preferred device and a device left over in a pass; the
phones differ in nothing, so symmetry is used where no liveness is checked. Two or three
sockets are enough to leak some and to run out. Four handlers are one live and three
expired ones: every position of the walk around an erase; with three events two are
queued while one is handled. Two keys and two draws make the network of one boot differ
from that of another, and of a second sourcing of the same file; the number of boots and
edits is not bounded. One other client and room for one connection make each of the three
clients wait for another in turn and find the backlog full; the arguments are no word, each of the three, and the two looked for
in an unlucky order. The sets of constants never cut a behaviour short except for
`MaxHandlers`, `MaxQueue` and `MaxWire`, which stop the caller, the kernel or the phone.

Fairness: weak fairness of each thread that can take a step by itself. It is justified by
the scheduler and by what the threads wait for: the 20 s and 30 s waits end, and D-Bus
calls are taken to return (they have a reply timeout). Not fair: accepting a phone, the
end of forwarding, phones, hosts, clients and the arrival of OTA commands. In `OtaUpdate`
the scripts run and each drive ends; in `Forwarding` the threads run and the peers owe
nothing (what a property needs of them is its premise). `Launcher` and `ControlSocket` are described above.

### Disagreements between code and its comments or documents

Each is a run whose property TLC violates; `PROJECT.json` quotes the lines.

| Run | What happens |
|---|---|
| `AawgdSwitchOff` | after SWITCH the adapter is powered off while the server waits |
| `OtaDead` | a slot that does not boot is never rolled back |
| `WifiRecovery` | S30's fallback to an access point for recovery is a variable of its own; S41 starts none |

The models reach more states a reader of the code should know of. They are outcomes of the
actions named, and the properties above are checked in their presence:

- `fate = "aborted"`: the stop by `main`, or by a command, finds a promise that already has
  its value or was dropped after the test (`StopSet`); or the preferred device is reset
  between its test and its use (`RetryPrefer`).
- A stop that is lost: a phone that connects before main has called `connectWithRetry`
  makes the proxy's stop find no promise (`ProxyStopTest`), and the retry thread started
  afterwards dials through the session.
- A handler that is skipped: the one after an erased handler does not see that event
  (`MonErase`), so that the first START after a call that timed out may be lost.
- `fate = "exited"`: every session given up before forwarding leaks the phone's socket
  (`ReturnEarly`) until `startServer` gets none.
- `ctl` in "sweep", "drop" or "dial" while `retry` is in "drop" or "dial": SWITCH works on
  devices beside the retry thread it has just told to stop.
- The accessory gadget bound after the call has timed out (`MonRaise` of a stale handler);
  and, with `Prompt = FALSE`, a call that returns true with the default gadget bound.
- A session that never ends: the signal that comes between the test of should_exit and
  `read()`, or between the test and `write()`, is lost ("Interrupting threads to stop
  forwarding", `proxyHandler.cpp:143`, helps only a thread already in the call). The session
  then lasts as long as the head unit stays silent, or does not take what is written to it,
  or as long as the phone does not. Without `HostSends`, or without `Takes` of either
  thread, TLC finds `SessionEnds` violated, and `TcpReaderEnds` without `Takes`.
- A client that connects to the control socket and keeps silent (`Silence`): the bridge's
  status and commands wait for it without a limit. A phone that stays connected and silent
  keeps its handshake's thread and descriptor in the same way.
- A payload whose argument holds a command word looked for first, outside `Clear`: a
  selector with "disconnect" disconnects, a URL with "switch" starts no update.
- `fate = "crashed"` and `"sigpipe"` of `Forwarding`: `pthread_kill` on a joined thread, a
  write to a phone that is gone.
- `cmdline = None`: power lost inside the rewriting of `cmdline.txt` (`TearCmdline`).

Two constants of `OtaUpdate` are assumptions about the user: with `Patient = FALSE`, an
update ordered from an unproven slot, `SickRollsBack` fails, because
`previous_root` and the good slot are overwritten; with two `Installers`, two commands in a
row, `BootTargetIntact` fails, because one switches the root while the other still writes.
With `Patient = FALSE` and a failing mount a single installer is enough for that. With
"persist", an update not settled is hidden by a missing /persist, another is ordered, and
the rollback of the first, once /persist is back, takes the slot the second has half
written. With "readonly", an update has switched the root and ended without the reboot, and
the next one writes the slot the next boot takes.

## Proofs

`AawgdProofs.tla`, from the assumptions `BluetoothAssumption`, `LateStartAssumption` and
`FdLimitAssumption` on the constants, for any set of phones, either adapter case, any
strategy and commands:

- `TypeCorrect`. `TypeOK` is not inductive: `TypeInv` adds that the server runs only with
  a socket to spare (`SocketToSpare`) and that a thread that dials has a phone
  (`DialsADevice`).
- `PromiseNeverOutlived` and `PowerIsSettled`, from `RadioInv`, which adds
  `RadioSettled`: what the radio is at the steps before main reaches "disable" or
  "connect". Each needs the other: the radio stays on while the promise's thread runs.
- `UsbCallsAreSerial`, from `CallInv`: the proxy thread exists exactly while main starts
  the connection or joins it, and the call in progress belongs to main with usb first and
  to the proxy otherwise.
- `SessionsHaveTheAccessory` and the first half of `UsbComesFirst` (the retry thread runs
  only with the accessory bound), from `GadgetInv` beside `CallInv`, for
  `LateStart = FALSE`. The heart is `HandlerOfCall`: a handler that holds the promise of
  the call in progress can find the default gadget bound only after the caller enabled
  it. With `LateStart` the statement is false: TLC finds the counterexample at once.
  The second half of `UsbComesFirst` is about everybody who could call, SWITCH included: from
  the first moment the radio is off, it is on only while the accessory is bound. It adds
  `RadioWaitsForUsb`. An adapter that BlueZ left on lets SWITCH call a phone before that.
- `CallsUntilAccepted`, `ReachableWithoutCommands` and `ProxyStopKillsNothing`, from
  `QuietInv`, for `Commands = {}`: until the proxy's stop there has been none. With
  commands they are false, as `AawgdSwitchOff` shows for the second. `ReachableInDongleMode`
  needs no such assumption.
- `OnlyMainsStopKills`, for `Commands = {}`: of all stops only main's, after a session whose
  thread has stopped already, can find a promise that is set or dropped and kill the daemon.
  It adds to `QuietInv` that no device is preferred without a command (`NoPreference`).
- `NoJoinInVain`, from `Stopped`, `CallInv` and `RadioInv`: main joins threads that are
  there, and the retry thread only when it is told to end. `StopLeftCounts` and
  `StopNearsEnd`, for a finite set of phones, from `PassInv` (a thread that picks has a
  phone to pick): a stopped thread has `StopLeft` steps at most, three for each phone,
  whatever fails in them and whatever the control thread drops and dials beside it.

`OtaProofs.tla`, from `OtaAssumption`, for any bundles and any value of `max_boots`, files
torn or not, any mounts failing; from the second on with at most one installer
(`OneInstaller`, an assumption about the user, see above):

- `TypeCorrect` and `RunningSlotKept` (the slot that runs is never written), from
  `SlotInv`: each installer writes the other one of two slots. Only these two need no
  assumption about the number of installers.
- `NeverBootsTorn` and `WritesOtherSlot`, from `IntactInv`. That the boot
  target is never half written is not inductive: `TargetInv` adds that the boot target is
  the running slot except between a switch and the reboot, or the end of a drive whose
  reboot did not come (`Stayed`), `InstallerInv` how far the
  installer has come and what it has written by then, and `WayBackInv` that the slot a
  rollback would take is whole. They assume `NothingHidden`: either neither /persist nor
  the read-only remount of /boot fails, or the user is `Patient`; without it the second is
  false (see above).
- `WayBackExists`, from `FallbackInv`, which adds `PatientInv` (an installer runs only in a
  good slot with nothing pending) and `GoodWayBackInv` (what a rollback takes is good).
  It needs `Patient`, too. The invariant is kept until the way back is `lost`, and a loss
  is never undone (`LostStays`).

`OtaProgress.tla`, for any `max_boots`, for one installer and a `Patient` user but for the
first:

- `DeadIsForEver`, for any user: once the boot target does not boot, and nothing runs any
  more, no step of anyone leads out. The run `OtaDead` shows one way into it.
- `SickLeftCounts` and `SickNearsRollback`: `SickLeft` weighs the boots still to be counted
  and the steps of this one; every step that is not a `Fault` (what `FaultsEnd` excludes)
  lowers it, returns to the good slot or loses the way back. `GoodNearsSettled` says the
  same of `GoodLeft` and the confirmation. Both rest on `SettledInv`: what has been settled
  by which phase (`ConfirmingInv`), that a settled slot stays settled while its
  installer works (`UndisturbedInv`), what a hung boot has found and what a rollback takes.
- `ImplementsAbUpdate`: mapping the proven slot to `ProvenRoot` (the previous root while an
  update is pending, the boot target otherwise) and leaving out files, counts and phases,
  every step is one of `AbUpdate` or a stutter, until the way back is `lost`. Two writes
  alone end a trial: the `0` in `upgrade_pending` of a good slot that runs, and the old
  root in `cmdline.txt`. `ProvenIsGood` is what the user cares for: until one of them is
  lost, the way back or `root=` itself, the files name a good slot at every moment.

`WifiProofs.tla`, from `WifiAssumption`, for any names, keys and draws: `TypeCorrect`,
`HistoryForgotten` and `TheRightNetwork`, from `BootInv`: at each step the files S30 has
written, and later `hostapd`, `wlan` and `daemon`, are functions of this boot's
environment alone. It holds without a clean /persist, which is the point of the first
theorem, and unless there is no overlay at all, when nothing can be written.

`UsbProofs.tla`, for any length of list and queue:

- `TypeCorrect` and `AnsweredOnce`, from `ListInv`: at most one handler is live, and an
  answered promise is one whose handler is about to be erased (`AnswersOnce`). The lemmas
  before it say what `erase` leaves of a sequence.
- `TrueIsAccessory`, for `Prompt`, from `GadgetInv`: what the gadgets are while a START is
  left, in a handler that holds the promise, and once it is answered.
- `ImplementsSteps`: each step of the list and the monitor is a step of `AccessoryGadget`
  or a stutter, under the mapping that the run `UsbPrompt` uses with fairness.

`ForwardingProofs.tla`, for any lengths: `TypeCorrect`, `ClosedUnused`, `AlwaysHandled` and
`MessagesStayWhole`, from `IInv`: what the owner knows from its joins (`JoinInv`), that
nothing is undone before both (`UndoneLast`), and that the reads and the message agree on
what is to come (`FrameInv`). Then, with `ExitInv` (a thread is done only after setting
should_exit), `AskedInv` (who set it is on the way to its end) and `BornInv` (who is joined
was started):

- `SecondIsAskedToStop`: nobody is joined after the first thread unless told to end.
- `SessionNearsEnd`: with should_exit set, `SessionLeft` counts the steps of the owner, of
  each thread from its place, and the units of a message begun; each step of any of them
  lowers it, and a peer that goes changes nothing.
- `HangsInOneCall`: if nobody can go on by itself, the thread the owner joins is in a read
  of the accessory or in a write, of a peer that is there, and once should_exit is set the
  other thread has ended. Threads and owner never wait for each other, and the direction
  that reads the phone hangs on nothing but its write. `Waits` lists the calls that have no
  limit; in every other place a thread has a step of `Proceeds`.

`ControlProofs.tla`, from `ControlAssumption`, for any other clients, arguments and room:
`TypeCorrect`, `CommandIsMeant`, `LineIsItsClients` and `BusyIsNotDown`, from `IInv`. Its
heart is `ThreadInv`, which relates each request of the bridge to what has become of its
connection: a thread that waits without an answer and without a connection has a server
that ended. `WaitsOnlyForALine` adds `DownInv` and `SentInv` and says who can keep whom
waiting: only a client that has not ended its line. `NobodyIsOvertaken` says that the time
a connected client waits depends on who came before it alone: `TurnsLeft`, its place in the
queue and the step of the control thread, falls with each step of that thread, and nobody
raises it. A client that still waits for room in the queue may be passed by others.

`LauncherProofs.tla`, from `LauncherAssumption`, for any finite number of connections:
`TypeCorrect`, `NoDescriptorLeaks`, `PoliteIsServed` and `OnlyWhoAsked` (a phone that has
not asked is not told the credentials), from `IInv`: `PhoneInv`, `AskedInv` and
`PoliteInv` say, for each connection, how far phone and thread are from each other.
`GoneNearsEnd` counts down what a thread has left once its phone is gone (`ThreadLeft`, with
the messages still on the wire). `NeverBothWait`, from `WaitInv`, says that a phone that
follows the protocol and its thread never wait for each other.

Only model-checked: liveness itself (`ListensAgain`, `StopTakesEffect`, `TcpReaderEnds`,
`SessionEnds`, `PoliteCompletes`, `ThreadsEndWithPhone`, `OnlySilenceBlocks`,
`SickRollsBack`, `GoodUpdateSettles`) and the fairness part of the refinement of
`AccessoryGadget`, as fairness and ENABLED are out of the prover's reach. What the theorems
above add to those runs is the part that does not depend on fairness, for every value of the
constants: a number of steps left that the component's own steps lower and nobody's raise
(`StopNearsEnd`, `SessionNearsEnd`, `GoneNearsEnd`, `NobodyIsOvertaken`,
`SickNearsRollback`, `GoodNearsSettled`), and who can be waited for (`NoJoinInVain`,
`HangsInOneCall`, `NeverBothWait`, `WaitsOnlyForALine`). That a component which is not done
has a step to take, and takes it, is left to TLC. No module declares a RECURSIVE operator.

## Not modelled

Left out because they carry no logic of this program or no behaviour: kernel patches and
build scripts, the protobuf declarations, Logger, BLE advertising, the HSP profile (it
logs), Release and RequestDisconnection, the scripts that mount, load modules or write
configfs once (S00, S06, S90, S92).

Left out by choice:

- What LIST prints, and the texts of payloads, beyond the words that decide a command.
- The bridge's connection to the broker: its failure at the start ends `aawgd-mqtt`
  (`mqttBridge.cpp:249`) for the rest of the drive, as S94 starts it once.
- `accept()` failing for want of descriptors, at which the control thread spins
  (`controlSocket.cpp:194`): it changes no state.
- D-Bus calls that fail outside `connectDeviceByObjectPath` (bluetoothd gone): the
  exception always ends the daemon.
- Address and port told to the phone: `getWifiInfo` reads wlan0's address at the handshake,
  and says 10.0.0.1 if there is none yet (`common.cpp:104`).
- The other session strategies' timing beyond what `LateStart` distinguishes; a UDC that
  refuses a gadget although it is free; a signal that reaches another thread than the one
  it is sent to.
- Hand runs of the init scripts, country codes, hostapd or dnsmasq that do not start.

Each component has its module; `Aawgd` composes those that share state. `Launcher` and
`ControlSocket` meet the daemon only through what their comments name (descriptors, the
commands served by `ctl`), so that composing them would multiply states without adding
interactions. An abstract session that `Aawgd` implements would restate `ListensAgain`,
`SessionHasAccessory` and `AcceptingMeansReachable`, which the runs of `Aawgd` check
directly.
