------------------------------- MODULE Launcher -------------------------------
(***************************************************************************)
(* AAWirelessProfile: NewConnection, which BlueZ calls when a phone has    *)
(* opened the Android Auto RFCOMM channel, and the detached thread per     *)
(* connection (AAWirelessLauncher) that tells the phone the address of the *)
(* proxy and, when asked, the Wi-Fi credentials.  Nothing limits the time  *)
(* a thread waits for its phone, or joins it.                              *)
(*                                                                         *)
(* A message is its id; readFully keeps messages whole, so the only part   *)
(* of a message seen is the one a phone leaves in.                         *)
(***************************************************************************)
EXTENDS Naturals, Sequences, FiniteSets

CONSTANTS
    Links,     \* connections at a time
    FdFree,    \* descriptors the process has left
    MaxWire    \* a bound on the messages of a phone that are not read yet

ASSUME LauncherAssumption ==
    /\ IsFiniteSet(Links)
    /\ FdFree \in Nat
    /\ MaxWire \in Nat \ {0}

VARIABLES
    launcher,  \* each connection's thread: "none", "hello", "first", "reply",
               \* "drain", "close"
    fds,       \* the copies of descriptors that are open
    phone,     \* each connection's phone: "away", "new", "asked" (it has sent
               \* WifiInfoRequest), "started" (WifiStartResponse), "gone"
    polite,    \* whether the phone follows the protocol
    told,      \* what the phone has got: "start", "info"
    wire,      \* what it has sent and the thread not read
    outcome    \* how the thread took its end: "none", "completed", "aborted"

vars == <<launcher, fds, phone, polite, told, wire, outcome>>
phoneVars == <<phone, polite>>

\* "other": WifiVersionRequest and -Response and WifiConnectStatus, which come
\* between the credentials and WifiStartResponse, or any id; "cut": half a message.
Messages == {"InfoRequest", "StartResponse", "other", "cut"}

Here(l) == phone[l] \in {"new", "asked", "started"}

TypeOK ==
    /\ launcher \in [Links -> {"none", "hello", "first", "reply", "drain", "close"}]
    /\ fds \in 0..FdFree
    /\ phone \in [Links -> {"away", "new", "asked", "started", "gone"}]
    /\ polite \in [Links -> BOOLEAN]
    /\ told \in [Links -> SUBSET {"start", "info"}]
    /\ wire \in [Links -> Seq(Messages)]
    /\ \A l \in Links : Len(wire[l]) <= MaxWire + 1
    /\ outcome \in [Links -> {"none", "completed", "aborted"}]

Init ==
    /\ launcher = [l \in Links |-> "none"] /\ fds = 0
    /\ phone = [l \in Links |-> "away"] /\ polite = [l \in Links |-> TRUE]
    /\ told = [l \in Links |-> {}] /\ wire = [l \in Links |-> <<>>]
    /\ outcome = [l \in Links |-> "none"]

-----------------------------------------------------------------------------
\* Mutant: the failure of dup goes unnoticed.
MutantNewConnection(l) ==
    /\ phone[l] = "away"
    /\ phone' = [phone EXCEPT ![l] = "new"]
    /\ \E p \in BOOLEAN : polite' = [polite EXCEPT ![l] = p]
    /\ told' = [told EXCEPT ![l] = {}] /\ wire' = [wire EXCEPT ![l] = <<>>]
    /\ outcome' = [outcome EXCEPT ![l] = "none"]
    /\ launcher' = [launcher EXCEPT ![l] = "hello"]
    /\ IF fds < FdFree THEN fds' = fds + 1 ELSE UNCHANGED fds

\* A phone connects and BlueZ calls NewConnection. Without a descriptor for the
\* copy there is no thread, and the phone is never answered.
NewConnection(l) ==
    /\ phone[l] = "away"
    /\ phone' = [phone EXCEPT ![l] = "new"]
    /\ \E p \in BOOLEAN : polite' = [polite EXCEPT ![l] = p]
    /\ told' = [told EXCEPT ![l] = {}] /\ wire' = [wire EXCEPT ![l] = <<>>]
    /\ outcome' = [outcome EXCEPT ![l] = "none"]
    /\ IF fds < FdFree
       THEN fds' = fds + 1 /\ launcher' = [launcher EXCEPT ![l] = "hello"]
       ELSE UNCHANGED <<fds, launcher>>

\* write(): an error is logged, the thread goes on.
Sends(l, step, next, message) ==
    /\ launcher[l] = step
    /\ launcher' = [launcher EXCEPT ![l] = next]
    /\ told' = [told EXCEPT ![l] = IF Here(l) THEN @ \cup {message} ELSE @]
    /\ UNCHANGED <<fds, phoneVars, wire, outcome>>

SendStart(l) == Sends(l, "hello", "first", "start")
SendInfo(l) == Sends(l, "reply", "drain", "info")

\* The thread takes its end.
Ends(l, how) ==
    /\ launcher' = [launcher EXCEPT ![l] = "close"]
    /\ outcome' = [outcome EXCEPT ![l] = how]

ReadInvalid(l) ==
    \/ wire[l] = <<>> /\ ~Here(l) /\ UNCHANGED wire
    \/ wire[l] # <<>> /\ Head(wire[l]) = "cut" /\ wire' = [wire EXCEPT ![l] = Tail(@)]

ReadMessage(l, m) ==
    /\ wire[l] # <<>> /\ Head(wire[l]) = m /\ m # "cut"
    /\ wire' = [wire EXCEPT ![l] = Tail(@)]

ReadFirst(l) ==
    /\ launcher[l] = "first"
    /\ \/ ReadInvalid(l) /\ Ends(l, "aborted")
       \/ \E m \in Messages \ {"InfoRequest"} : ReadMessage(l, m) /\ Ends(l, "aborted")
       \/ /\ ReadMessage(l, "InfoRequest")
          /\ launcher' = [launcher EXCEPT ![l] = "reply"]
          /\ UNCHANGED outcome
    /\ UNCHANGED <<fds, phoneVars, told>>

\* Mutant: what comes before WifiStartResponse is taken for an error.
MutantDrain(l) ==
    /\ launcher[l] = "drain"
    /\ \/ ReadInvalid(l) /\ Ends(l, "aborted")
       \/ ReadMessage(l, "StartResponse") /\ Ends(l, "completed")
       \/ \E m \in Messages \ {"StartResponse"} : ReadMessage(l, m) /\ Ends(l, "aborted")
    /\ UNCHANGED <<fds, phoneVars, told>>

\* Mutant: the end of the connection is not looked at.
MutantDrainForEver(l) ==
    /\ launcher[l] = "drain"
    /\ \/ ReadInvalid(l) /\ UNCHANGED <<launcher, outcome>>
       \/ ReadMessage(l, "StartResponse") /\ Ends(l, "completed")
       \/ /\ \E m \in Messages \ {"StartResponse"} : ReadMessage(l, m)
          /\ UNCHANGED <<launcher, outcome>>
    /\ UNCHANGED <<fds, phoneVars, told>>

Drain(l) ==
    /\ launcher[l] = "drain"
    /\ \/ ReadInvalid(l) /\ Ends(l, "aborted")
       \/ ReadMessage(l, "StartResponse") /\ Ends(l, "completed")
       \/ /\ \E m \in Messages \ {"StartResponse"} : ReadMessage(l, m)
          /\ UNCHANGED <<launcher, outcome>>
    /\ UNCHANGED <<fds, phoneVars, told>>

\* Mutant: only a launch that is completed closes the copy.
MutantClose(l) ==
    /\ launcher[l] = "close"
    /\ launcher' = [launcher EXCEPT ![l] = "none"]
    /\ fds' = IF outcome[l] = "completed" THEN fds - 1 ELSE fds
    /\ UNCHANGED <<phoneVars, told, wire, outcome>>

Close(l) ==
    /\ launcher[l] = "close"
    /\ launcher' = [launcher EXCEPT ![l] = "none"]
    /\ fds' = fds - 1
    /\ UNCHANGED <<phoneVars, told, wire, outcome>>

LauncherStep(l) == SendStart(l) \/ ReadFirst(l) \/ SendInfo(l) \/ Drain(l) \/ Close(l)

-----------------------------------------------------------------------------
\* The phone.
Puts(l, m) ==
    /\ Here(l)
    /\ Len(wire[l]) < MaxWire
    /\ wire' = [wire EXCEPT ![l] = Append(@, m)]

\* One that follows the protocol asks when it has been told to start, and starts
\* once it is on the Wi-Fi network, after any number of other messages.
Ask(l) ==
    /\ polite[l] /\ phone[l] = "new" /\ "start" \in told[l]
    /\ Puts(l, "InfoRequest")
    /\ phone' = [phone EXCEPT ![l] = "asked"]
    /\ UNCHANGED <<launcher, fds, polite, told, outcome>>

Report(l) ==
    /\ polite[l] /\ phone[l] = "asked" /\ "info" \in told[l]
    /\ Puts(l, "other")
    /\ UNCHANGED <<launcher, fds, phoneVars, told, outcome>>

StartSession(l) ==
    /\ polite[l] /\ phone[l] = "asked" /\ "info" \in told[l]
    /\ Puts(l, "StartResponse")
    /\ phone' = [phone EXCEPT ![l] = "started"]
    /\ UNCHANGED <<launcher, fds, polite, told, outcome>>

\* One that does not says anything at any time.
Babble(l) ==
    /\ ~polite[l]
    /\ \E m \in Messages \ {"cut"} :
         /\ Puts(l, m)
         /\ phone' = [phone EXCEPT ![l] =
                        IF m = "InfoRequest" /\ @ = "new" THEN "asked" ELSE @]
    /\ UNCHANGED <<launcher, fds, polite, told, outcome>>

\* Out of range, or ignition off: in the middle of a message or not.
Leave(l) ==
    /\ Here(l)
    /\ phone' = [phone EXCEPT ![l] = "gone"]
    /\ wire' \in {wire, [wire EXCEPT ![l] = Append(@, "cut")]}
    /\ UNCHANGED <<launcher, fds, polite, told, outcome>>

\* Another connection may take its place.
Forget(l) ==
    /\ phone[l] = "gone" /\ launcher[l] = "none"
    /\ phone' = [phone EXCEPT ![l] = "away"]
    /\ UNCHANGED <<launcher, fds, polite, told, wire, outcome>>

PhoneStep(l) == Ask(l) \/ Report(l) \/ StartSession(l) \/ Babble(l) \/ Leave(l) \/ Forget(l)

Next == \E l \in Links : NewConnection(l) \/ LauncherStep(l) \/ PhoneStep(l)

\* Threads run; a polite phone that stays comes to ask and to start.
Fairness ==
    \A l \in Links :
        /\ WF_vars(LauncherStep(l))
        /\ WF_vars(Ask(l)) /\ SF_vars(StartSession(l))

Spec == Init /\ [][Next]_vars /\ Fairness

-----------------------------------------------------------------------------
\* Every copy of a descriptor belongs to a thread that runs: no way out of the
\* handshake leaks one (bluetoothProfiles.cpp:64-67, 87-89, 215-219).
DescriptorsFollowThreads == fds = Cardinality({l \in Links : launcher[l] # "none"})

\* A phone that follows the protocol and stays is never given up, however many
\* messages it sends before WifiStartResponse (bluetoothProfiles.cpp:79-84).
PoliteNotAborted == \A l \in Links : polite[l] /\ Here(l) => outcome[l] # "aborted"

\* The Wi-Fi credentials are told only to a phone that asked for them.
CredentialsAreAsked ==
    \A l \in Links : "info" \in told[l] /\ Here(l) => phone[l] \in {"asked", "started"}

\* With a thread, such a phone gets its address and credentials and the handshake
\* completes, unless the phone goes (bluetoothProfiles.cpp:48-94).
PoliteCompletes ==
    \A l \in Links : polite[l] /\ launcher[l] = "hello" ~> outcome[l] = "completed" \/ ~Here(l)

\* When the phone is gone its thread ends, wherever it was in the handshake: the
\* descriptors come back (bluetoothProfiles.cpp:154-191).
ThreadsEndWithPhone ==
    \A l \in Links : phone[l] = "gone" ~> launcher[l] = "none"
=============================================================================
