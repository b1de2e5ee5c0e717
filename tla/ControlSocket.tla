----------------------------- MODULE ControlSocket -----------------------------
(***************************************************************************)
(* The control socket of aawgd and its clients: the control thread, which  *)
(* serves one connection at a time and waits for its line without a limit; *)
(* the two threads of aawgd-mqtt (the status loop, and the MQTT callback   *)
(* that turns payloads into commands); and any other process, as everyone  *)
(* may connect.  What a command does to the phones is in Aawgd.tla, what   *)
(* an OTA command starts in OtaUpdate.tla.                                 *)
(*                                                                         *)
(* A text is known by the command words that occur in it.                  *)
(***************************************************************************)
EXTENDS Naturals, Sequences

CONSTANTS
    Others,      \* the other processes that connect
    Args,        \* the arguments of payloads: sets of command words
    Waiting,     \* connections that can wait for accept()
    None         \* no message, no command, nothing sent, no answer

Bridge == {"status", "commands"}
Clients == Bridge \cup Others

ASSUME ControlAssumption ==
    /\ Others \cap Bridge = {}
    /\ None \notin Clients \cup {"list", "ok", "failed", "unknown"}
    /\ Waiting \in Nat \ {0}
    /\ Args \subseteq SUBSET {"disconnect", "switch", "ota"}

VARIABLES
    daemon,      \* "up" or "dead"
    server,      \* the control thread: "start", "accept", "read", "handle",
                 \* "write"; "none" when it has ended
    backlog,     \* the connections waiting for accept()
    served,      \* the client of the connection accepted
    line,        \* the command the control thread has read
    sent,        \* what each client has written to its connection
    ended,       \* the clients whose line the server sees end: a newline, no
                 \* more room, or the end of the connection
    gone,        \* the clients that have closed their end
    answer,      \* what the server has written to each thread of the bridge
    thread,      \* each thread of the bridge: "idle", "dispatch", "connect",
                 \* "send", "wait"
    message,     \* the payload in the MQTT callback
    command      \* what parseCommandLine makes of it

server_ == <<daemon, server, served, line>>
callback == <<message, command>>
vars == <<server_, backlog, sent, ended, gone, answer, thread, callback>>

-----------------------------------------------------------------------------
\* Payloads and commands.
Words == {"disconnect", "switch", "ota"}

List == [cmd |-> "LIST", arg |-> {}]
Disconnect == [cmd |-> "DISCONNECT", arg |-> {}]
Switch(a) == [cmd |-> "SWITCH", arg |-> a]
Ota(a) == [cmd |-> "OTA", arg |-> a]
Other == [cmd |-> "other", arg |-> {}]
Lines == {List, Disconnect, Other} \cup {Switch(a) : a \in Args}
Commands == Lines \cup {Ota(a) : a \in Args}

\* A plain payload is a command word and an argument, a JSON payload a "cmd" and
\* a "selector" or "url", either of which may be missing.
Payloads ==
    [form : {"plain", "json"}, cmd : Words \cup {"other"},
     key : {"selector", "url"}, arg : Args \cup {None}]

WordsOf(p) == {p.cmd} \cup (IF p.arg = None THEN {} ELSE p.arg)

\* The value after the key, where the code looks for it.
ValueOf(p, key, make(_)) == IF p.key = key /\ p.arg # None THEN make(p.arg) ELSE None

ParsePlain(p) ==
    CASE p.cmd = "disconnect" /\ p.arg = None -> Disconnect
      [] p.cmd = "switch" /\ p.arg # None -> Switch(p.arg)
      [] p.cmd = "ota" /\ p.arg # None -> Ota(p.arg)
      [] OTHER -> None

\* Mutant: "ota" is looked for first.
MutantParseJson(p) ==
    IF "ota" \in WordsOf(p) THEN ValueOf(p, "url", Ota)
    ELSE IF "disconnect" \in WordsOf(p) THEN Disconnect
    ELSE IF "switch" \in WordsOf(p) THEN ValueOf(p, "selector", Switch)
    ELSE None

\* The words are looked for anywhere in the payload, in this order.
ParseJson(p) ==
    IF "disconnect" \in WordsOf(p) THEN Disconnect
    ELSE IF "switch" \in WordsOf(p) THEN ValueOf(p, "selector", Switch)
    ELSE IF "ota" \in WordsOf(p) THEN ValueOf(p, "url", Ota)
    ELSE None

parseCommandLine(p) == IF p.form = "plain" THEN ParsePlain(p) ELSE ParseJson(p)

-----------------------------------------------------------------------------
Init ==
    /\ daemon = "up" /\ server = "start" /\ served = None /\ line = None
    /\ backlog = <<>>
    /\ sent = [c \in Clients |-> None] /\ ended = {} /\ gone = {}
    /\ answer = [t \in Bridge |-> None]
    /\ thread = [t \in Bridge |-> "idle"]
    /\ message = None /\ command = None

TypeOK ==
    /\ daemon \in {"up", "dead"}
    /\ server \in {"start", "accept", "read", "handle", "write", "none"}
    /\ backlog \in Seq(Clients) /\ Len(backlog) <= Waiting
    /\ served \in Clients \cup {None}
    /\ line \in Lines \cup {None}
    /\ sent \in [Clients -> Lines \cup {None}]
    /\ ended \subseteq Clients /\ gone \subseteq Others
    /\ answer \in [Bridge -> {None, "list", "ok", "failed", "unknown"}]
    /\ thread \in [Bridge -> {"idle", "dispatch", "connect", "send", "wait"}]
    /\ message \in Payloads \cup {None}
    /\ command \in Commands \cup {None}

Queued(c) == \E i \in DOMAIN backlog : backlog[i] = c
Connected(c) == Queued(c) \/ served = c
Listening == server \notin {"start", "none"}

-----------------------------------------------------------------------------
\* The control thread of the daemon.

\* socket, bind and listen; when one of them fails the thread returns.
Start ==
    /\ server = "start"
    /\ server' \in {"accept", "none"}
    /\ UNCHANGED <<daemon, served, line, backlog, sent, ended, gone, answer>>

\* Mutant: the line of the client before is still there.
MutantAccept ==
    /\ server = "accept"
    /\ backlog # <<>>
    /\ served' = Head(backlog) /\ backlog' = Tail(backlog)
    /\ server' = "read"
    /\ UNCHANGED <<daemon, line, sent, ended, gone, answer>>

Accept ==
    /\ server = "accept"
    /\ backlog # <<>>
    /\ served' = Head(backlog) /\ backlog' = Tail(backlog)
    /\ line' = None
    /\ server' = "read"
    /\ UNCHANGED <<daemon, sent, ended, gone, answer>>

\* A line without an end, of a client that went, is taken as it is.
ReadLine ==
    /\ server = "read"
    /\ served \in ended
    /\ line' = IF sent[served] = None THEN line ELSE sent[served]
    /\ server' = "handle"
    /\ UNCHANGED <<daemon, served, backlog, sent, ended, gone, answer>>

Handle ==
    /\ server = "handle"
    /\ server' = "write"
    /\ UNCHANGED <<daemon, served, line, backlog, sent, ended, gone, answer>>

Answers ==
    CASE line = List -> {"list"}
      [] line = Disconnect -> {"ok"}
      [] line # None /\ line.cmd = "SWITCH" -> {"ok", "failed"}
      [] OTHER -> {"unknown"}

\* The connection is closed and forgotten.
Hangup ==
    /\ served' = None
    /\ sent' = [sent EXCEPT ![served] = None]
    /\ ended' = ended \ {served}
    /\ gone' = gone \ {served}

\* Mutant: the connection is closed before the answer is written.
MutantWriteAnswer ==
    /\ server = "write"
    /\ served \notin gone
    /\ Hangup
    /\ server' = "accept"
    /\ UNCHANGED <<daemon, line, backlog, answer>>

WriteAnswer ==
    /\ server = "write"
    /\ served \notin gone
    /\ IF served \in Bridge
       THEN \E a \in Answers : answer' = [answer EXCEPT ![served] = a]
       ELSE UNCHANGED answer
    /\ Hangup
    /\ server' = "accept"
    /\ UNCHANGED <<daemon, line, backlog>>

\* Mutant: the thread ends when an answer cannot be written.
MutantWriteFails ==
    /\ server = "write"
    /\ served \in gone
    /\ Hangup
    /\ server' = "none"
    /\ UNCHANGED <<daemon, line, backlog, answer>>

\* Nobody reads the answer. Nothing in the daemon ignores SIGPIPE: if no library
\* does, this ends it (see DaemonDies).
WriteFails ==
    /\ server = "write"
    /\ served \in gone
    /\ Hangup
    /\ server' = "accept"
    /\ UNCHANGED <<daemon, line, backlog, answer>>

ServerStep ==
    /\ Start \/ Accept \/ ReadLine \/ Handle \/ WriteAnswer \/ WriteFails
    /\ UNCHANGED <<thread, callback>>

\* SIGPIPE, an exception in a thread, the return of main: the connections end.
DaemonDies ==
    /\ daemon = "up"
    /\ daemon' = "dead" /\ server' = "none"
    /\ served' = None /\ line' = None /\ backlog' = <<>>
    /\ sent' = [c \in Clients |-> None] /\ ended' = {} /\ gone' = {}
    /\ UNCHANGED <<answer, thread, callback>>

-----------------------------------------------------------------------------
\* unixSockRequest, of a thread of the bridge.

Request(t) == IF t = "status" THEN List ELSE command

\* It returns. publishStatus publishes the answer, or that there is none.
Returns(t) ==
    /\ thread' = [thread EXCEPT ![t] = "idle"]
    /\ answer' = [answer EXCEPT ![t] = None]
    /\ IF t = "status" THEN UNCHANGED callback ELSE message' = None /\ command' = None

\* It blocks while there is no room among the waiting connections.
Connect(t) ==
    /\ thread[t] = "connect"
    /\ Listening
    /\ Len(backlog) < Waiting
    /\ backlog' = Append(backlog, t)
    /\ thread' = [thread EXCEPT ![t] = "send"]
    /\ UNCHANGED <<server_, sent, ended, gone, answer, callback>>

\* Mutant: a refused connection is tried again.
MutantConnectFails(t) ==
    /\ thread[t] = "connect"
    /\ ~Listening
    /\ UNCHANGED vars

ConnectFails(t) ==
    /\ thread[t] = "connect"
    /\ ~Listening
    /\ Returns(t)
    /\ UNCHANGED <<server_, backlog, sent, ended, gone>>

Send(t) ==
    /\ thread[t] = "send"
    /\ Connected(t)
    /\ sent' = [sent EXCEPT ![t] = Request(t)]
    /\ ended' = ended \cup {t}
    /\ thread' = [thread EXCEPT ![t] = "wait"]
    /\ UNCHANGED <<server_, backlog, gone, answer, callback>>

Receive(t) ==
    /\ thread[t] = "wait"
    /\ answer[t] # None
    /\ Returns(t)
    /\ UNCHANGED <<server_, backlog, sent, ended, gone>>

\* The connection has ended without an answer: the write fails, or the read.
Broken(t) ==
    /\ thread[t] \in {"send", "wait"}
    /\ ~Connected(t) /\ answer[t] = None
    /\ Returns(t)
    /\ UNCHANGED <<server_, backlog, sent, ended, gone>>

\* The status loop wakes.
Wake ==
    /\ thread["status"] = "idle"
    /\ thread' = [thread EXCEPT !["status"] = "connect"]
    /\ UNCHANGED <<server_, backlog, sent, ended, gone, answer, callback>>

\* onMessage, called by the thread of the MQTT library.
OnMessage ==
    /\ thread["commands"] = "idle"
    /\ \E p \in Payloads : message' = p /\ command' = parseCommandLine(p)
    /\ thread' = [thread EXCEPT !["commands"] = "dispatch"]
    /\ UNCHANGED <<server_, backlog, sent, ended, gone, answer>>

\* Mutant: OTA commands go to the daemon too.
MutantDispatch ==
    /\ thread["commands"] = "dispatch"
    /\ IF command = None
       THEN Returns("commands")
       ELSE /\ thread' = [thread EXCEPT !["commands"] = "connect"]
            /\ message' = None
            /\ UNCHANGED <<answer, command>>
    /\ UNCHANGED <<server_, backlog, sent, ended, gone>>

\* An OTA command gets a thread of its own, any other waits for its answer.
Dispatch ==
    /\ thread["commands"] = "dispatch"
    /\ IF command = None \/ command.cmd = "OTA"
       THEN Returns("commands")
       ELSE /\ thread' = [thread EXCEPT !["commands"] = "connect"]
            /\ message' = None
            /\ UNCHANGED <<answer, command>>
    /\ UNCHANGED <<server_, backlog, sent, ended, gone>>

ThreadStep(t) ==
    \/ Connect(t) \/ ConnectFails(t) \/ Send(t) \/ Receive(t) \/ Broken(t)
    \/ t = "status" /\ Wake
    \/ t = "commands" /\ Dispatch

-----------------------------------------------------------------------------
\* The other processes do what they like, or nothing.
OtherConnects(c) ==
    /\ Listening
    /\ ~Connected(c)
    /\ Len(backlog) < Waiting
    /\ backlog' = Append(backlog, c)
    /\ UNCHANGED <<sent, ended, gone, answer>>

\* A line, or a part of one.
OtherSends(c) ==
    /\ Connected(c) /\ c \notin ended
    /\ sent[c] = None
    /\ \E l \in {Disconnect, Other} : sent' = [sent EXCEPT ![c] = l]
    /\ \/ ended' = ended \cup {c}
       \/ UNCHANGED ended
    /\ UNCHANGED <<backlog, gone, answer>>

OtherGoes(c) ==
    /\ Connected(c) /\ c \notin gone
    /\ gone' = gone \cup {c} /\ ended' = ended \cup {c}
    /\ UNCHANGED <<backlog, sent, answer>>

OtherStep(c) ==
    /\ OtherConnects(c) \/ OtherSends(c) \/ OtherGoes(c)
    /\ UNCHANGED <<server_, thread, callback>>

Next ==
    \/ ServerStep \/ DaemonDies
    \/ \E t \in Bridge : ThreadStep(t)
    \/ OnMessage
    \/ \E c \in Others : OtherStep(c)

\* The calls of a thread return, the status loop wakes, and the kernel lets those
\* who wait for room among the connections in by turns. The broker and the other
\* processes owe nothing.
Fairness ==
    /\ WF_vars(ServerStep)
    /\ \A t \in Bridge : WF_vars(ThreadStep(t)) /\ SF_vars(Connect(t))

Spec == Init /\ [][Next]_vars /\ Fairness

-----------------------------------------------------------------------------
\* What the payload says (mqttBridge.cpp:114-120).
Meaning(p) ==
    CASE p.cmd = "disconnect" /\ (p.form = "json" \/ p.arg = None) -> Disconnect
      [] p.cmd = "switch" /\ p.arg # None /\ (p.form = "json" => p.key = "selector") -> Switch(p.arg)
      [] p.cmd = "ota" /\ p.arg # None /\ (p.form = "json" => p.key = "url") -> Ota(p.arg)
      [] OTHER -> None

\* The words that are looked for before the command's own.
Before(cmd) ==
    CASE cmd = "disconnect" -> {}
      [] cmd = "switch" -> {"disconnect"}
      [] cmd = "ota" -> {"disconnect", "switch"}
      [] OTHER -> Words

Clear(p) == p.form = "plain" \/ p.arg = None \/ p.arg \cap Before(p.cmd) = {}

\* The bridge asks for what the payload says, unless its argument holds the name
\* of a command that is looked for first: a selector or a URL may hold any other
\* ("Super-minimal JSON parsing", mqttBridge.cpp:129-168).
AsksWhatWasSaid == message # None /\ Clear(message) => command = Meaning(message)

\* The control thread acts on what its own client has written, all of it and
\* nothing else; for the bridge, on the command still waited for
\* (controlSocket.cpp:199-223).
ActsOnItsClient ==
    server \in {"handle", "write"} =>
        /\ line = sent[served]
        /\ served \in Bridge => line = Request(served) /\ thread[served] = "wait"

\* "control socket unavailable" is published only if the daemon does not listen:
\* however busy it is, a status is awaited (mqttBridge.cpp:99-110).
UnavailableMeansDown ==
    [][thread["status"] # "idle" /\ thread'["status"] = "idle" /\ answer["status"] = None
         => ~Listening]_vars

\* A client that has connected and does not end its line.
Silence == server = "read" /\ served \in Others \ ended

\* Unless a client keeps silent for ever, each thread of the bridge comes back
\* from its request, dead daemon or not, other clients or not
\* (controlSocket.cpp:192-226, mqttBridge.cpp:48-80).
OnlySilenceBlocks ==
    []<>~Silence => \A t \in Bridge : thread[t] # "idle" ~> thread[t] = "idle"
=============================================================================
