----------------------------- MODULE ControlProofs -----------------------------
(***************************************************************************)
(* Theorems about ControlSocket, for any other clients, any arguments and  *)
(* any number of connections that wait: what is asked, read and answered,  *)
(* and that connections are served in turn and wait only for a line.       *)
(***************************************************************************)
EXTENDS ControlSocket, TLAPS

\* A client has one connection at most.
OnceConnected ==
    /\ \A i, j \in DOMAIN backlog : backlog[i] = backlog[j] => i = j
    /\ served # None => ~Queued(served)

\* Without a connection nothing is sent, ended or gone.
FreshInv == \A c \in Clients : ~Connected(c) => sent[c] = None /\ c \notin ended /\ c \notin gone

\* The control thread, its client and the line it has read.
ServerInv ==
    /\ served # None <=> server \in {"read", "handle", "write"}
    /\ server = "read" => line = None
    /\ server \in {"handle", "write"} => line = sent[served] /\ served \in ended

\* How far each thread of the bridge is with its request, and what it waits for.
ThreadInv ==
    \A t \in Bridge :
        /\ thread[t] \in {"idle", "dispatch", "connect"} => ~Connected(t)
        /\ thread[t] # "wait" => sent[t] = None /\ t \notin ended /\ answer[t] = None
        /\ thread[t] = "wait" /\ Connected(t) => sent[t] = Request(t) /\ answer[t] = None
        /\ thread[t] \in {"send", "wait"} /\ ~Connected(t) /\ answer[t] = None => server = "none"
        /\ server = "start" => thread[t] \notin {"send", "wait"}

\* The callback has parsed its payload, and sends nothing but lines.
CallbackInv ==
    /\ message # None => message \in Payloads /\ command = parseCommandLine(message)
    /\ message # None => thread["commands"] = "dispatch"
    /\ thread["commands"] \in {"connect", "send", "wait"} => command \in Lines

IInv == TypeOK /\ OnceConnected /\ FreshInv /\ ServerInv /\ ThreadInv /\ CallbackInv

-----------------------------------------------------------------------------
\* Who waits after one more has come.
LEMMA QueueAppend ==
    ASSUME backlog \in Seq(Clients), NEW c \in Clients, backlog' = Append(backlog, c)
    PROVE  /\ \A d : Queued(d)' <=> Queued(d) \/ d = c
           /\ ~Queued(c) /\ (\A i, j \in DOMAIN backlog : backlog[i] = backlog[j] => i = j)
                => \A i, j \in DOMAIN backlog' : backlog'[i] = backlog'[j] => i = j
<1>1. /\ DOMAIN backlog = 1..Len(backlog) /\ DOMAIN backlog' = 1..(Len(backlog) + 1)
      /\ Len(backlog) \in Nat
      /\ \A i \in 1..Len(backlog) : backlog'[i] = backlog[i]
      /\ backlog'[Len(backlog) + 1] = c
  OBVIOUS
<1>2. \A i \in DOMAIN backlog' : i \in DOMAIN backlog \/ i = Len(backlog) + 1
  BY <1>1
<1>3. \A i \in DOMAIN backlog : i \in DOMAIN backlog'
  BY <1>1
<1>4. Len(backlog) + 1 \in DOMAIN backlog'
  BY <1>1
<1>5. \A d : Queued(d)' <=> Queued(d) \/ d = c
  BY <1>1, <1>2, <1>3, <1>4 DEF Queued
<1>6. QED
  BY <1>1, <1>2, <1>5 DEF Queued

\* Who waits after the first has been accepted.
LEMMA QueueTail ==
    ASSUME backlog \in Seq(Clients), backlog # <<>>, backlog' = Tail(backlog),
           \A i, j \in DOMAIN backlog : backlog[i] = backlog[j] => i = j
    PROVE  /\ Head(backlog) \in Clients /\ Queued(Head(backlog))
           /\ \A d : Queued(d)' <=> Queued(d) /\ d # Head(backlog)
           /\ \A i, j \in DOMAIN backlog' : backlog'[i] = backlog'[j] => i = j
<1>1. /\ DOMAIN backlog = 1..Len(backlog) /\ Len(backlog) \in Nat /\ Len(backlog) >= 1
      /\ DOMAIN backlog' = 1..(Len(backlog) - 1)
      /\ \A i \in 1..(Len(backlog) - 1) : backlog'[i] = backlog[i + 1]
      /\ Head(backlog) = backlog[1] /\ Head(backlog) \in Clients
  OBVIOUS
<1>2. \A i \in DOMAIN backlog' : i + 1 \in DOMAIN backlog /\ i + 1 # 1
  BY <1>1
<1>3. \A i \in DOMAIN backlog : i = 1 \/ (i - 1 \in DOMAIN backlog' /\ (i - 1) + 1 = i)
  BY <1>1
<1>4. 1 \in DOMAIN backlog
  BY <1>1
<1>5. Queued(Head(backlog))
  BY <1>1, <1>4 DEF Queued
<1>6. ASSUME NEW d PROVE Queued(d)' <=> Queued(d) /\ d # Head(backlog)
  <2>1. ASSUME Queued(d)' PROVE Queued(d) /\ d # Head(backlog)
    <3>1. PICK i \in DOMAIN backlog' : backlog'[i] = d
      BY <2>1 DEF Queued
    <3>2. i + 1 \in DOMAIN backlog /\ backlog[i + 1] = d /\ i + 1 # 1
      BY <1>1, <1>2, <3>1
    <3>3. QED
      BY <1>1, <1>4, <3>2 DEF Queued
  <2>2. ASSUME Queued(d), d # Head(backlog) PROVE Queued(d)'
    <3>1. PICK i \in DOMAIN backlog : backlog[i] = d
      BY <2>2 DEF Queued
    <3>2. i - 1 \in DOMAIN backlog' /\ (i - 1) + 1 = i
      BY <1>1, <1>3, <2>2, <3>1
    <3>3. backlog'[i - 1] = d
      BY <1>1, <3>1, <3>2
    <3>4. QED
      BY <3>2, <3>3 DEF Queued
  <2>3. QED
    BY <2>1, <2>2
<1>7. ASSUME NEW i \in DOMAIN backlog', NEW j \in DOMAIN backlog', backlog'[i] = backlog'[j]
      PROVE  i = j
  <2>1. i + 1 = j + 1
    BY <1>1, <1>2, <1>7
  <2>2. QED
    BY <1>1, <2>1
<1>8. QED
  BY <1>1, <1>5, <1>6, <1>7

\* What the code makes of a payload is what it says.
LEMMA ParseMeans ==
    ASSUME NEW p \in Payloads, Clear(p)
    PROVE  parseCommandLine(p) = Meaning(p)
<1> USE DEF Payloads, Words
<1>1. CASE p.form = "plain"
  BY <1>1 DEF parseCommandLine, ParsePlain, Meaning
<1>2. CASE p.form = "json"
  <2>1. p.arg # None => p.arg \subseteq Words
    BY ControlAssumption
  <2>2. CASE p.cmd = "disconnect"
    BY <1>2, <2>2 DEF parseCommandLine, ParseJson, WordsOf, Meaning
  <2>3. CASE p.cmd = "switch"
    <3>1. "disconnect" \notin WordsOf(p) /\ "switch" \in WordsOf(p)
      BY <1>2, <2>3 DEF WordsOf, Clear, Before
    <3>2. QED
      BY <1>2, <2>3, <3>1 DEF parseCommandLine, ParseJson, ValueOf, Meaning
  <2>4. CASE p.cmd = "ota"
    <3>1. "disconnect" \notin WordsOf(p) /\ "switch" \notin WordsOf(p) /\ "ota" \in WordsOf(p)
      BY <1>2, <2>4 DEF WordsOf, Clear, Before
    <3>2. QED
      BY <1>2, <2>4, <3>1 DEF parseCommandLine, ParseJson, ValueOf, Meaning
  <2>5. CASE p.cmd = "other"
    <3>1. WordsOf(p) \cap Words = {}
      BY <1>2, <2>1, <2>5 DEF WordsOf, Clear, Before
    <3>2. QED
      BY <1>2, <2>5, <3>1 DEF parseCommandLine, ParseJson, Meaning
  <2>6. QED
    BY <2>2, <2>3, <2>4, <2>5
<1>3. QED
  BY <1>1, <1>2

\* And it is a command or nothing.
LEMMA ParseTyped ==
    ASSUME NEW p \in Payloads
    PROVE  parseCommandLine(p) \in Commands \cup {None}
<1>1. p.arg # None => p.arg \in Args
  BY DEF Payloads
<1>2. ParsePlain(p) \in Commands \cup {None}
  BY <1>1 DEF ParsePlain, Commands, Lines
<1>3. ParseJson(p) \in Commands \cup {None}
  BY <1>1 DEF ParseJson, ValueOf, Commands, Lines
<1>4. QED
  BY <1>2, <1>3 DEF parseCommandLine

-----------------------------------------------------------------------------
\* The connections are the same if nobody comes or goes.
LEMMA SameConnections ==
    ASSUME backlog' = backlog, served' = served
    PROVE  /\ \A c : Connected(c)' <=> Connected(c)
           /\ OnceConnected => OnceConnected'
BY DEF Connected, Queued, OnceConnected

\* With Hangup it is the client served that goes, and no one else.
LEMMA HungUp ==
    ASSUME TypeOK, OnceConnected, FreshInv, served \in Clients, backlog' = backlog, Hangup
    PROVE  /\ \A c \in Clients : Connected(c)' <=> Connected(c) /\ c # served
           /\ OnceConnected' /\ FreshInv'
           /\ \A c \in Clients : c # served =>
                  sent'[c] = sent[c] /\ (c \in ended' <=> c \in ended)
           /\ sent'[served] = None /\ served \notin ended'
           /\ sent' \in [Clients -> Lines \cup {None}]
           /\ ended' \subseteq Clients /\ gone' \subseteq Others
<1>1. None \notin Clients /\ served # None
  BY ControlAssumption
<1>2. \A c : Queued(c)' <=> Queued(c)
  BY DEF Queued
<1>3. ~Queued(served)
  BY <1>1 DEF OnceConnected
<1>4. \A c \in Clients : Connected(c)' <=> Connected(c) /\ c # served
  BY <1>1, <1>2, <1>3 DEF Connected, Hangup
<1>5. OnceConnected'
  BY DEF OnceConnected, Hangup
<1>6. /\ \A c \in Clients : c # served =>
             sent'[c] = sent[c] /\ (c \in ended' <=> c \in ended) /\ (c \in gone' <=> c \in gone)
      /\ sent'[served] = None /\ served \notin ended' /\ served \notin gone'
      /\ sent' \in [Clients -> Lines \cup {None}]
      /\ ended' \subseteq Clients /\ gone' \subseteq Others
  BY DEF Hangup, TypeOK
<1>7. FreshInv'
  BY <1>4, <1>6 DEF FreshInv
<1>8. QED
  BY <1>4, <1>5, <1>6, <1>7

LEMMA StartKeeps ==
    ASSUME IInv, Start, UNCHANGED <<thread, callback>>
    PROVE  IInv'
<1> USE DEF IInv
<1>1. /\ server = "start" /\ server' \in {"accept", "none"}
      /\ served' = served /\ line' = line /\ backlog' = backlog /\ daemon' = daemon
      /\ sent' = sent /\ ended' = ended /\ gone' = gone /\ answer' = answer
      /\ thread' = thread /\ message' = message /\ command' = command
  BY DEF Start, callback
<1>2. /\ \A c : Connected(c)' <=> Connected(c)
      /\ OnceConnected'
  BY <1>1, SameConnections
<1>3. TypeOK'
  BY <1>1 DEF TypeOK
<1>4. FreshInv'
  BY <1>1, <1>2 DEF FreshInv
<1>5. ServerInv'
  BY <1>1 DEF ServerInv
<1>6. ThreadInv'
  BY <1>1, <1>2 DEF ThreadInv, Request
<1>7. CallbackInv'
  BY <1>1 DEF CallbackInv
<1>8. QED
  BY <1>2, <1>3, <1>4, <1>5, <1>6, <1>7

LEMMA AcceptKeeps ==
    ASSUME IInv, Accept, UNCHANGED <<thread, callback>>
    PROVE  IInv'
<1> USE DEF IInv
<1>1. /\ server = "accept" /\ server' = "read"
      /\ served' = Head(backlog) /\ line' = None /\ backlog' = Tail(backlog) /\ daemon' = daemon
      /\ sent' = sent /\ ended' = ended /\ gone' = gone /\ answer' = answer
      /\ thread' = thread /\ message' = message /\ command' = command
      /\ backlog # <<>>
  BY DEF Accept, callback
<1>2. backlog \in Seq(Clients) /\ Len(backlog) <= Waiting /\ None \notin Clients
  BY ControlAssumption DEF TypeOK
<1>3. /\ Head(backlog) \in Clients /\ Queued(Head(backlog))
      /\ \A d : Queued(d)' <=> Queued(d) /\ d # Head(backlog)
      /\ \A i, j \in DOMAIN backlog' : backlog'[i] = backlog'[j] => i = j
  BY <1>1, <1>2, QueueTail DEF OnceConnected
<1>4. served = None
  BY <1>1 DEF ServerInv
<1>5. \A c \in Clients : Connected(c)' <=> Connected(c)
  BY <1>1, <1>2, <1>3, <1>4 DEF Connected
<1>6. OnceConnected'
  BY <1>1, <1>3 DEF OnceConnected
<1>7. TypeOK'
  <2>1. backlog' \in Seq(Clients) /\ Len(backlog') <= Waiting
    BY <1>1, <1>2, ControlAssumption
  <2>2. QED
    BY <1>1, <1>3, <2>1 DEF TypeOK
<1>8. FreshInv'
  BY <1>1, <1>5 DEF FreshInv
<1>9. ServerInv'
  BY <1>1, <1>2, <1>3 DEF ServerInv
<1>10. ThreadInv'
  BY <1>1, <1>5 DEF ThreadInv, Request, Clients
<1>11. CallbackInv'
  BY <1>1 DEF CallbackInv
<1>12. QED
  BY <1>6, <1>7, <1>8, <1>9, <1>10, <1>11

\* ReadLine and Handle: no one comes or goes, and the line is the client's.
LEMMA ReadKeeps ==
    ASSUME IInv, ReadLine \/ Handle, UNCHANGED <<thread, callback>>
    PROVE  IInv'
<1> USE DEF IInv
<1>1. /\ server \in {"read", "handle"} /\ server' \in {"handle", "write"}
      /\ served' = served /\ backlog' = backlog /\ daemon' = daemon
      /\ sent' = sent /\ ended' = ended /\ gone' = gone /\ answer' = answer
      /\ thread' = thread /\ message' = message /\ command' = command
  BY DEF ReadLine, Handle, callback
<1>2. /\ \A c : Connected(c)' <=> Connected(c)
      /\ OnceConnected'
  BY <1>1, SameConnections
<1>3. served \in Clients /\ served # None
  BY <1>1 DEF TypeOK, ServerInv
<1>4. line' = sent[served] /\ served \in ended
  BY <1>3 DEF ReadLine, Handle, ServerInv
<1>5. TypeOK'
  BY <1>1, <1>3, <1>4 DEF TypeOK
<1>6. FreshInv'
  BY <1>1, <1>2 DEF FreshInv
<1>7. ServerInv'
  BY <1>1, <1>3, <1>4 DEF ServerInv
<1>8. ThreadInv'
  BY <1>1, <1>2 DEF ThreadInv, Request
<1>9. CallbackInv'
  BY <1>1 DEF CallbackInv
<1>10. QED
  BY <1>2, <1>5, <1>6, <1>7, <1>8, <1>9

\* The answer is written, or cannot be: only a client that is no thread of the
\* bridge goes before it has its answer.
LEMMA WriteKeeps ==
    ASSUME IInv, WriteAnswer \/ WriteFails, UNCHANGED <<thread, callback>>
    PROVE  IInv'
<1> USE DEF IInv
<1>1. /\ server = "write" /\ server' = "accept" /\ Hangup /\ served' = None
      /\ line' = line /\ backlog' = backlog /\ daemon' = daemon
      /\ thread' = thread /\ message' = message /\ command' = command
  BY DEF WriteAnswer, WriteFails, Hangup, callback
<1>2. served \in Clients /\ served # None
  BY <1>1 DEF TypeOK, ServerInv
<1>3. /\ \A c \in Clients : Connected(c)' <=> Connected(c) /\ c # served
      /\ OnceConnected' /\ FreshInv'
      /\ \A c \in Clients : c # served =>
             sent'[c] = sent[c] /\ (c \in ended' <=> c \in ended)
      /\ sent'[served] = None /\ served \notin ended'
      /\ sent' \in [Clients -> Lines \cup {None}]
      /\ ended' \subseteq Clients /\ gone' \subseteq Others
  BY <1>1, <1>2, HungUp
<1>4. /\ answer' \in [Bridge -> {None, "list", "ok", "failed", "unknown"}]
      /\ \A t \in Bridge : t # served => answer'[t] = answer[t]
      /\ served \in Bridge => answer'[served] # None
  <2>1. CASE WriteAnswer
    <3>1. CASE served \in Bridge
      <4>1. PICK a \in Answers : answer' = [answer EXCEPT ![served] = a]
        BY <2>1, <3>1 DEF WriteAnswer
      <4>2. a \in {"list", "ok", "failed", "unknown"} /\ a # None
        BY ControlAssumption DEF Answers, Lines
      <4>3. QED
        BY <3>1, <4>1, <4>2 DEF TypeOK
    <3>2. CASE served \notin Bridge
      BY <2>1, <3>2 DEF WriteAnswer, TypeOK
    <3>3. QED
      BY <3>1, <3>2
  <2>2. CASE WriteFails
    <3>1. served \in Others /\ answer' = answer
      BY <2>2 DEF WriteFails, TypeOK
    <3>2. QED
      BY <3>1, ControlAssumption DEF TypeOK
  <2>3. QED
    BY <2>1, <2>2
<1>5. TypeOK'
  BY <1>1, <1>3, <1>4 DEF TypeOK
<1>6. ServerInv'
  BY <1>1 DEF ServerInv
<1>7. ThreadInv'
  <2>1. ASSUME NEW t \in Bridge, t = served
        PROVE  thread[t] = "wait" /\ ~Connected(t)' /\ answer'[t] # None
    <3>1. t \in Clients /\ Connected(t) /\ t \in ended
      BY <1>1, <1>2, <2>1 DEF Connected, ServerInv
    <3>2. thread[t] = "wait"
      BY <3>1 DEF ThreadInv
    <3>3. QED
      BY <1>3, <1>4, <2>1, <3>1, <3>2
  <2>2. ASSUME NEW t \in Bridge, t # served
        PROVE  /\ Connected(t)' <=> Connected(t)
               /\ sent'[t] = sent[t] /\ (t \in ended' <=> t \in ended) /\ answer'[t] = answer[t]
    BY <1>3, <1>4, <2>2 DEF Clients
  <2>3. QED
    BY <1>1, <2>1, <2>2 DEF ThreadInv, Request
<1>8. CallbackInv'
  BY <1>1 DEF CallbackInv
<1>9. QED
  BY <1>3, <1>5, <1>6, <1>7, <1>8

LEMMA DiesKeeps ==
    ASSUME IInv, DaemonDies
    PROVE  IInv'
<1> USE DEF IInv
<1>1. /\ daemon' = "dead" /\ server' = "none" /\ served' = None /\ line' = None /\ backlog' = <<>>
      /\ sent' = [c \in Clients |-> None] /\ ended' = {} /\ gone' = {}
      /\ answer' = answer /\ thread' = thread /\ message' = message /\ command' = command
  BY DEF DaemonDies, callback
<1>2. \A c \in Clients : ~Connected(c)'
  BY <1>1, ControlAssumption DEF Connected, Queued
<1>3. OnceConnected'
  BY <1>1 DEF OnceConnected
<1>4. TypeOK'
  <2>1. Len(backlog') <= Waiting
    BY <1>1, ControlAssumption
  <2>2. QED
    BY <1>1, <2>1 DEF TypeOK
<1>5. FreshInv'
  BY <1>1 DEF FreshInv
<1>6. ServerInv'
  BY <1>1 DEF ServerInv
<1>7. ThreadInv'
  <2>1. \A t \in Bridge : ~Connected(t)' /\ sent'[t] = None
    BY <1>1, <1>2 DEF Clients
  <2>2. QED
    BY <1>1, <2>1 DEF ThreadInv
<1>8. CallbackInv'
  BY <1>1 DEF CallbackInv
<1>9. QED
  BY <1>3, <1>4, <1>5, <1>6, <1>7, <1>8

\* One more connection waits, of a thread of the bridge or of another process.
LEMMA ConnectKeeps ==
    ASSUME IInv, NEW t \in Bridge, Connect(t)
    PROVE  IInv'
<1> USE DEF IInv
<1>1. /\ thread[t] = "connect" /\ Listening /\ Len(backlog) < Waiting
      /\ backlog' = Append(backlog, t) /\ thread' = [thread EXCEPT ![t] = "send"]
      /\ daemon' = daemon /\ server' = server /\ served' = served /\ line' = line
      /\ sent' = sent /\ ended' = ended /\ gone' = gone /\ answer' = answer
      /\ message' = message /\ command' = command
  BY DEF Connect, server_, callback
<1>2. t \in Clients /\ backlog \in Seq(Clients) /\ ~Connected(t)
  BY <1>1 DEF TypeOK, Clients, ThreadInv
<1>3. /\ \A d : Queued(d)' <=> Queued(d) \/ d = t
      /\ OnceConnected'
  BY <1>1, <1>2, QueueAppend DEF OnceConnected, Connected
<1>4. \A c : Connected(c)' <=> Connected(c) \/ c = t
  BY <1>1, <1>3 DEF Connected
<1>5. TypeOK'
  <2>1. backlog' \in Seq(Clients) /\ Len(backlog') <= Waiting
    BY <1>1, <1>2, ControlAssumption
  <2>2. QED
    BY <1>1, <2>1 DEF TypeOK
<1>6. FreshInv'
  BY <1>1, <1>4 DEF FreshInv
<1>7. ServerInv'
  BY <1>1 DEF ServerInv
<1>8. thread'[t] = "send" /\ (\A u \in Bridge : u # t => thread'[u] = thread[u])
  BY <1>1 DEF TypeOK
<1>9. ThreadInv'
  <2>1. server # "start"
    BY <1>1 DEF Listening
  <2>2. QED
    BY <1>1, <1>4, <1>8, <2>1 DEF ThreadInv, Request
<1>10. CallbackInv'
  BY <1>1, <1>8 DEF CallbackInv, Bridge
<1>11. QED
  BY <1>3, <1>5, <1>6, <1>7, <1>9, <1>10

\* A request that is over: it was refused or answered, or its connection ended.
LEMMA ReturnKeeps ==
    ASSUME IInv, NEW t \in Bridge, Returns(t), ~Connected(t),
           UNCHANGED <<server_, backlog, sent, ended, gone>>
    PROVE  IInv'
<1> USE DEF IInv
<1>1. /\ daemon' = daemon /\ server' = server /\ served' = served /\ line' = line
      /\ backlog' = backlog /\ sent' = sent /\ ended' = ended /\ gone' = gone
  BY DEF server_
<1>2. /\ thread' = [thread EXCEPT ![t] = "idle"]
      /\ answer' = [answer EXCEPT ![t] = None]
      /\ t = "status" => message' = message /\ command' = command
      /\ t # "status" => message' = None /\ command' = None
  BY DEF Returns, callback
<1>3. /\ \A c : Connected(c)' <=> Connected(c)
      /\ OnceConnected'
  BY <1>1, SameConnections
<1>4. t \in Clients /\ sent[t] = None /\ t \notin ended
  BY DEF Clients, FreshInv
<1>5. /\ thread'[t] = "idle" /\ answer'[t] = None
      /\ \A u \in Bridge : u # t => thread'[u] = thread[u] /\ answer'[u] = answer[u]
  BY <1>2 DEF TypeOK
<1>6. TypeOK'
  BY <1>1, <1>2 DEF TypeOK
<1>7. FreshInv'
  BY <1>1, <1>3 DEF FreshInv
<1>8. ServerInv'
  BY <1>1 DEF ServerInv
<1>9. ThreadInv'
  <2>1. ASSUME NEW u \in Bridge, u # t PROVE Request(u)' = Request(u) \/ u = "commands"
    BY <2>1 DEF Request, Bridge
  <2>2. t = "status" => Request("commands")' = Request("commands")
    BY <1>2 DEF Request
  <2>3. t = "status" \/ t = "commands"
    BY DEF Bridge
  <2>4. \A u \in Bridge : u # t => Request(u)' = Request(u)
    BY <2>1, <2>2, <2>3
  <2>5. QED
    BY <1>1, <1>3, <1>4, <1>5, <2>4 DEF ThreadInv
<1>10. CallbackInv'
  <2>1. CASE t = "status"
    BY <1>2, <1>5, <2>1 DEF CallbackInv, Bridge
  <2>2. CASE t = "commands"
    BY <1>2, <1>5, <2>2 DEF CallbackInv
  <2>3. QED
    BY <2>1, <2>2 DEF Bridge
<1>11. QED
  BY <1>3, <1>6, <1>7, <1>8, <1>9, <1>10

LEMMA SendKeeps ==
    ASSUME IInv, NEW t \in Bridge, Send(t)
    PROVE  IInv'
<1> USE DEF IInv
<1>1. /\ thread[t] = "send" /\ Connected(t)
      /\ sent' = [sent EXCEPT ![t] = Request(t)] /\ ended' = ended \cup {t}
      /\ thread' = [thread EXCEPT ![t] = "wait"]
      /\ daemon' = daemon /\ server' = server /\ served' = served /\ line' = line
      /\ backlog' = backlog /\ gone' = gone /\ answer' = answer
      /\ message' = message /\ command' = command
  BY DEF Send, server_, callback
<1>2. /\ \A c : Connected(c)' <=> Connected(c)
      /\ OnceConnected'
  BY <1>1, SameConnections
<1>3. t \in Clients /\ t \notin ended /\ answer[t] = None
  BY <1>1 DEF Clients, ThreadInv
<1>4. Request(t)' = Request(t) /\ Request(t) \in Lines
  BY <1>1 DEF Request, CallbackInv, Lines, Bridge
<1>5. /\ sent'[t] = Request(t) /\ thread'[t] = "wait"
      /\ \A c \in Clients : c # t => sent'[c] = sent[c]
      /\ \A u \in Bridge : u # t => thread'[u] = thread[u] /\ sent'[u] = sent[u]
  BY <1>1, <1>3 DEF TypeOK, Clients
<1>6. TypeOK'
  BY <1>1, <1>3, <1>4 DEF TypeOK
<1>7. FreshInv'
  BY <1>1, <1>2, <1>5 DEF FreshInv
<1>8. ServerInv'
  <2>1. server \in {"handle", "write"} => served \in Clients /\ served # t
    BY <1>3 DEF ServerInv, TypeOK
  <2>2. QED
    BY <1>1, <1>5, <2>1 DEF ServerInv
<1>9. ThreadInv'
  <2>1. \A u \in Bridge : Request(u)' = Request(u)
    BY <1>1 DEF Request
  <2>2. server # "start"
    BY <1>1 DEF ThreadInv
  <2>3. QED
    BY <1>1, <1>2, <1>3, <1>5, <2>1, <2>2 DEF ThreadInv
<1>10. CallbackInv'
  BY <1>1, <1>5 DEF CallbackInv, Bridge
<1>11. QED
  BY <1>2, <1>6, <1>7, <1>8, <1>9, <1>10

\* The steps of a thread that touch neither connections nor requests: the status
\* loop wakes, a payload comes, a command is to be sent.
LEMMA IdleKeeps ==
    ASSUME IInv, NEW t \in Bridge, thread[t] \in {"idle", "dispatch"}, NEW next,
           thread' = [thread EXCEPT ![t] = next], next \in {"dispatch", "connect"},
           UNCHANGED <<server_, backlog, sent, ended, gone, answer>>,
           t = "status" => command' = command, (CallbackInv /\ TypeOK)'
    PROVE  IInv'
<1> USE DEF IInv
<1>1. /\ server' = server /\ served' = served /\ line' = line /\ answer' = answer
      /\ backlog' = backlog /\ sent' = sent /\ ended' = ended /\ gone' = gone
  BY DEF server_
<1>2. /\ \A c : Connected(c)' <=> Connected(c)
      /\ OnceConnected'
  BY <1>1, SameConnections
<1>3. thread'[t] = next /\ (\A u \in Bridge : u # t => thread'[u] = thread[u])
  BY DEF TypeOK
<1>4. FreshInv'
  BY <1>1, <1>2 DEF FreshInv
<1>5. ServerInv'
  BY <1>1 DEF ServerInv
<1>6. ThreadInv'
  <2>1. \A u \in Bridge : u # t => Request(u)' = Request(u)
    BY DEF Request, Bridge
  <2>2. QED
    BY <1>1, <1>2, <1>3, <2>1 DEF ThreadInv
<1>7. QED
  BY <1>2, <1>4, <1>5, <1>6

LEMMA ThreadKeeps ==
    ASSUME IInv, NEW t \in Bridge, ThreadStep(t)
    PROVE  IInv'
<1> USE DEF IInv
<1>1. CASE Connect(t)
  BY <1>1, ConnectKeeps
<1>2. CASE ConnectFails(t)
  <2>1. ~Connected(t)
    BY <1>2 DEF ConnectFails, ThreadInv
  <2>2. QED
    BY <1>2, <2>1, ReturnKeeps DEF ConnectFails
<1>3. CASE Send(t)
  BY <1>3, SendKeeps
<1>4. CASE Receive(t)
  <2>1. ~Connected(t)
    BY <1>4 DEF Receive, ThreadInv
  <2>2. QED
    BY <1>4, <2>1, ReturnKeeps DEF Receive
<1>5. CASE Broken(t)
  BY <1>5, ReturnKeeps DEF Broken
<1>6. CASE t = "status" /\ Wake
  <2>1. /\ thread["status"] = "idle" /\ thread' = [thread EXCEPT !["status"] = "connect"]
        /\ UNCHANGED <<server_, backlog, sent, ended, gone, answer>>
        /\ message' = message /\ command' = command
    BY <1>6 DEF Wake, callback
  <2>2. TypeOK'
    BY <2>1 DEF TypeOK, server_
  <2>3. CallbackInv'
    BY <2>1 DEF CallbackInv, TypeOK, Bridge
  <2>4. QED
    BY <1>6, <2>1, <2>2, <2>3, IdleKeeps
<1>7. CASE t = "commands" /\ Dispatch
  <2>1. /\ thread["commands"] = "dispatch"
        /\ UNCHANGED <<server_, backlog, sent, ended, gone>>
    BY <1>7 DEF Dispatch
  <2>2. CASE command = None \/ command.cmd = "OTA"
    <3>1. Returns(t)
      BY <1>7, <2>2 DEF Dispatch
    <3>2. ~Connected(t)
      BY <1>7, <2>1 DEF ThreadInv
    <3>3. QED
      BY <2>1, <3>1, <3>2, ReturnKeeps
  <2>3. CASE ~(command = None \/ command.cmd = "OTA")
    <3>1. /\ thread' = [thread EXCEPT !["commands"] = "connect"] /\ message' = None
          /\ answer' = answer /\ command' = command
      BY <1>7, <2>3 DEF Dispatch
    <3>2. command \in Lines
      BY <2>3 DEF TypeOK, Commands, Ota
    <3>3. TypeOK'
      BY <2>1, <3>1 DEF TypeOK, server_
    <3>4. CallbackInv'
      BY <3>1, <3>2 DEF CallbackInv
    <3>5. UNCHANGED <<server_, backlog, sent, ended, gone, answer>>
      BY <2>1, <3>1
    <3>6. QED
      BY <1>7, <2>1, <3>1, <3>3, <3>4, <3>5, IdleKeeps
  <2>4. QED
    BY <2>2, <2>3
<1>8. QED
  BY <1>1, <1>2, <1>3, <1>4, <1>5, <1>6, <1>7 DEF ThreadStep

LEMMA MessageKeeps ==
    ASSUME IInv, OnMessage
    PROVE  IInv'
<1> USE DEF IInv
<1>1. PICK p \in Payloads : message' = p /\ command' = parseCommandLine(p)
  BY DEF OnMessage
<1>2. /\ thread["commands"] = "idle" /\ thread' = [thread EXCEPT !["commands"] = "dispatch"]
      /\ UNCHANGED <<server_, backlog, sent, ended, gone, answer>>
  BY DEF OnMessage
<1>3. command' \in Commands \cup {None}
  BY <1>1, ParseTyped
<1>4. TypeOK'
  BY <1>1, <1>2, <1>3 DEF TypeOK, server_
<1>5. thread'["commands"] = "dispatch"
  BY <1>2 DEF TypeOK, Bridge
<1>6. parseCommandLine(message') = parseCommandLine(message)'
  BY DEF parseCommandLine, ParsePlain, ParseJson, WordsOf, ValueOf
<1>7. CallbackInv'
  BY <1>1, <1>5, <1>6 DEF CallbackInv
<1>8. "commands" \in Bridge
  BY DEF Bridge
<1>9. QED
  BY <1>2, <1>4, <1>7, <1>8, IdleKeeps

\* The other processes touch their own connections only.
LEMMA OtherKeeps ==
    ASSUME IInv, NEW c \in Others, OtherStep(c)
    PROVE  IInv'
<1> USE DEF IInv
<1>1. /\ daemon' = daemon /\ server' = server /\ served' = served /\ line' = line
      /\ answer' = answer /\ thread' = thread /\ message' = message /\ command' = command
  BY DEF OtherStep, OtherConnects, OtherSends, OtherGoes, server_, callback
<1>2. c \in Clients /\ c \notin Bridge
  BY ControlAssumption DEF Clients
<1>3. /\ \A d : Connected(d)' => Connected(d) \/ d = c
      /\ \A d : Connected(d) => Connected(d)'
      /\ backlog' \in Seq(Clients) /\ Len(backlog') <= Waiting
      /\ OnceConnected'
  <2>1. CASE OtherConnects(c)
    <3>1. /\ ~Connected(c) /\ Len(backlog) < Waiting /\ backlog' = Append(backlog, c)
          /\ backlog \in Seq(Clients)
      BY <2>1 DEF OtherConnects, TypeOK
    <3>2. /\ \A d : Queued(d)' <=> Queued(d) \/ d = c
          /\ OnceConnected'
      BY <1>1, <1>2, <3>1, QueueAppend DEF OnceConnected, Connected
    <3>3. backlog' \in Seq(Clients) /\ Len(backlog') <= Waiting
      BY <1>2, <3>1, ControlAssumption
    <3>4. QED
      BY <1>1, <3>2, <3>3 DEF Connected
  <2>2. CASE OtherSends(c) \/ OtherGoes(c)
    <3>1. backlog' = backlog
      BY <2>2 DEF OtherSends, OtherGoes
    <3>2. QED
      BY <1>1, <3>1, SameConnections DEF TypeOK
  <2>3. QED
    BY <2>1, <2>2 DEF OtherStep
<1>4. /\ sent' \in [Clients -> Lines \cup {None}]
      /\ ended' \subseteq Clients /\ gone' \subseteq Others
      /\ ended \subseteq ended'
      /\ \A d \in Clients : d # c =>
             sent'[d] = sent[d] /\ (d \in ended' <=> d \in ended) /\ (d \in gone' <=> d \in gone)
      /\ c \in ended => sent'[c] = sent[c]
  <2>1. CASE OtherConnects(c)
    BY <1>2, <2>1 DEF OtherConnects, TypeOK
  <2>2. CASE OtherSends(c)
    <3>1. PICK l \in {Disconnect, Other} : sent' = [sent EXCEPT ![c] = l]
      BY <2>2 DEF OtherSends
    <3>2. l \in Lines
      BY <3>1 DEF Lines
    <3>3. QED
      BY <1>2, <1>3, <2>2, <3>1, <3>2 DEF OtherSends, TypeOK
  <2>3. CASE OtherGoes(c)
    BY <1>2, <1>3, <2>3 DEF OtherGoes, TypeOK
  <2>4. QED
    BY <2>1, <2>2, <2>3 DEF OtherStep
<1>5. TypeOK'
  BY <1>1, <1>3, <1>4 DEF TypeOK
<1>6. FreshInv'
  <2>1. ~Connected(c)' => sent'[c] = None /\ c \notin ended' /\ c \notin gone'
    <3>1. CASE OtherConnects(c)
      BY <1>2, <1>3, <3>1 DEF OtherConnects, FreshInv
    <3>2. CASE OtherSends(c) \/ OtherGoes(c)
      BY <1>3, <3>2 DEF OtherSends, OtherGoes
    <3>3. QED
      BY <3>1, <3>2 DEF OtherStep
  <2>2. QED
    BY <1>3, <1>4, <2>1 DEF FreshInv
<1>7. ServerInv'
  <2>1. server \in {"handle", "write"} => served \in Clients /\ served \in ended
    BY DEF ServerInv, TypeOK
  <2>2. QED
    BY <1>1, <1>4, <2>1 DEF ServerInv
<1>8. ThreadInv'
  <2>1. ASSUME NEW t \in Bridge
        PROVE  /\ sent'[t] = sent[t] /\ (t \in ended' <=> t \in ended)
               /\ Connected(t)' <=> Connected(t)
               /\ Request(t)' = Request(t)
    BY <1>1, <1>2, <1>3, <1>4 DEF Clients, Request
  <2>2. QED
    BY <1>1, <2>1 DEF ThreadInv
<1>9. CallbackInv'
  BY <1>1 DEF CallbackInv
<1>10. QED
  BY <1>3, <1>5, <1>6, <1>7, <1>8, <1>9

-----------------------------------------------------------------------------
\* The invariant holds at first, and every step keeps it.
LEMMA InitInv == Init => IInv
<1> SUFFICES ASSUME Init PROVE IInv
  OBVIOUS
<1>1. backlog = <<>> /\ served = None /\ None \notin Clients /\ Waiting \in Nat
  BY ControlAssumption DEF Init
<1>2. \A c \in Clients : ~Connected(c)
  BY <1>1 DEF Connected, Queued
<1>3. TypeOK
  BY <1>1 DEF Init, TypeOK
<1>4. OnceConnected /\ FreshInv /\ ServerInv
  BY <1>1 DEF Init, OnceConnected, FreshInv, ServerInv
<1>5. ThreadInv /\ CallbackInv
  <2>1. \A t \in Bridge : ~Connected(t) /\ sent[t] = None
    BY <1>2 DEF Init, Clients
  <2>2. QED
    BY <2>1 DEF Init, ThreadInv, CallbackInv, Bridge
<1>6. QED
  BY <1>3, <1>4, <1>5 DEF IInv

LEMMA StepKeeps == IInv /\ [Next]_vars => IInv'
<1> SUFFICES ASSUME IInv, [Next]_vars PROVE IInv'
  OBVIOUS
<1>1. CASE ServerStep
  BY <1>1, StartKeeps, AcceptKeeps, ReadKeeps, WriteKeeps DEF ServerStep
<1>2. CASE DaemonDies
  BY <1>2, DiesKeeps
<1>3. CASE \E t \in Bridge : ThreadStep(t)
  BY <1>3, ThreadKeeps
<1>4. CASE OnMessage
  BY <1>4, MessageKeeps
<1>5. CASE \E c \in Others : OtherStep(c)
  BY <1>5, OtherKeeps
<1>6. CASE UNCHANGED vars
  <2>1. /\ daemon' = daemon /\ server' = server /\ served' = served /\ line' = line
        /\ backlog' = backlog /\ sent' = sent /\ ended' = ended /\ gone' = gone
        /\ answer' = answer /\ thread' = thread /\ message' = message /\ command' = command
    BY <1>6 DEF vars, server_, callback
  <2>2. (\A c : Connected(c)' <=> Connected(c)) /\ OnceConnected'
    BY <2>1, SameConnections DEF IInv
  <2>3. TypeOK' /\ FreshInv' /\ ServerInv'
    BY <2>1, <2>2 DEF IInv, TypeOK, FreshInv, ServerInv
  <2>4. ThreadInv'
    BY <2>1, <2>2 DEF IInv, ThreadInv, Request
  <2>5. CallbackInv'
    BY <2>1 DEF IInv, CallbackInv
  <2>6. QED
    BY <2>2, <2>3, <2>4, <2>5 DEF IInv
<1>7. QED
  BY <1>1, <1>2, <1>3, <1>4, <1>5, <1>6 DEF Next

\* The invariant of the control socket.
LEMMA Invariant == Spec => []IInv
BY InitInv, StepKeeps, PTL DEF Spec

-----------------------------------------------------------------------------
\* Every variable has its type: in particular no more connections wait than may,
\* and no OTA command is written to the daemon (controlSocket.cpp, mqttBridge.cpp).
THEOREM TypeCorrect == Spec => []TypeOK
<1>1. IInv => TypeOK
  BY DEF IInv
<1>2. QED
  BY <1>1, Invariant, PTL

\* The bridge asks for what the payload says (mqttBridge.cpp:113-171).
THEOREM CommandIsMeant == Spec => []AsksWhatWasSaid
<1>1. IInv => AsksWhatWasSaid
  BY ParseMeans DEF IInv, CallbackInv, AsksWhatWasSaid
<1>2. QED
  BY <1>1, Invariant, PTL

\* The control thread acts on its own client's line, and for the bridge on a
\* request that is still waited for (controlSocket.cpp:199-223).
THEOREM LineIsItsClients == Spec => []ActsOnItsClient
<1>1. IInv => ActsOnItsClient
  <2> SUFFICES ASSUME IInv, server \in {"handle", "write"} PROVE ActsOnItsClient
    BY DEF ActsOnItsClient
  <2>1. line = sent[served] /\ served \in ended /\ Connected(served)
    BY DEF IInv, ServerInv, Connected
  <2>2. served \in Bridge => thread[served] = "wait" /\ sent[served] = Request(served)
    BY <2>1 DEF IInv, ThreadInv
  <2>3. QED
    BY <2>1, <2>2 DEF ActsOnItsClient
<1>2. QED
  BY <1>1, Invariant, PTL

\* The status request of the bridge comes back empty only if nobody listens: the
\* other connections delay it, they do not break it (mqttBridge.cpp:48-80, 99-110).
THEOREM BusyIsNotDown == Spec => UnavailableMeansDown
<1>1. ASSUME IInv, [Next]_vars,
             thread["status"] # "idle", thread'["status"] = "idle", answer["status"] = None
      PROVE  ~Listening
  <2>1. /\ thread \in [Bridge -> {"idle", "dispatch", "connect", "send", "wait"}]
        /\ "status" \in Bridge /\ "commands" \in Bridge
    BY <1>1 DEF IInv, TypeOK, Bridge
  <2>2. thread' # thread
    BY <1>1
  <2>3. PICK t \in Bridge : ThreadStep(t)
    <3>1. ~ServerStep /\ ~DaemonDies /\ ~(\E c \in Others : OtherStep(c))
      BY <2>2 DEF ServerStep, DaemonDies, OtherStep
    <3>2. ~OnMessage
      BY <1>1, <2>1 DEF OnMessage
    <3>3. ~UNCHANGED vars
      BY <2>2 DEF vars
    <3>4. QED
      BY <1>1, <3>1, <3>2, <3>3 DEF Next
  <2>4. CASE t = "commands"
    BY <1>1, <2>1, <2>3, <2>4
      DEF ThreadStep, Connect, ConnectFails, Send, Receive, Broken, Dispatch, Returns
  <2>5. CASE t = "status"
    <3>1. ConnectFails(t) \/ Receive(t) \/ Broken(t)
      BY <1>1, <2>1, <2>3, <2>5 DEF ThreadStep, Connect, Send, Wake
    <3>2. QED
      BY <1>1, <2>1, <2>5, <3>1
        DEF ConnectFails, Receive, Broken, IInv, ThreadInv, Listening
  <2>6. QED
    BY <2>4, <2>5 DEF Bridge
<1>2. IInv /\ [Next]_vars =>
        [thread["status"] # "idle" /\ thread'["status"] = "idle" /\ answer["status"] = None
           => ~Listening]_vars
  BY <1>1
<1>3. QED
  BY <1>2, Invariant, PTL DEF Spec, UnavailableMeansDown
-----------------------------------------------------------------------------
\* What OnlySilenceBlocks rests on, without the fairness: the connections are
\* served in the order they came, and nobody waits but for a client that is silent.

\* Nobody is connected to a socket that is not there, and a request that is waited
\* for has been written to its end.
DownInv == ~Listening => backlog = <<>>
SentInv == \A t \in Bridge : thread[t] = "wait" /\ Connected(t) => t \in ended

\* A thread of the bridge that cannot go on, and a control thread that cannot.
Waits(t) ==
    \/ thread[t] = "connect" /\ Listening /\ Len(backlog) >= Waiting
    \/ thread[t] = "wait" /\ answer[t] = None /\ Connected(t)
ServerWaits ==
    \/ server = "none"
    \/ server = "accept" /\ backlog = <<>>
    \/ server = "read" /\ served \notin ended

NobodyElseIsWaitedFor ==
    (\E t \in Bridge : Waits(t)) /\ ServerWaits =>
        Silence \/ (server = "read" /\ served \in Bridge /\ thread[served] = "send")

\* The steps of the control thread until the connection of c is closed.
ServerLeft ==
    CASE server = "read" -> 3
      [] server = "handle" -> 2
      [] server = "write" -> 1
      [] OTHER -> 0
Place(c) == IF served = c THEN 0 ELSE CHOOSE i \in DOMAIN backlog : backlog[i] = c
TurnsLeft(c) == 4 * Place(c) + ServerLeft

\* A step of the control thread brings every connection nearer to its end, and no
\* other step makes one wait longer.
ServedInTurn ==
    \A c \in Clients : Connected(c) /\ Connected(c)' =>
        /\ TurnsLeft(c) \in Nat
        /\ IF ServerStep THEN TurnsLeft(c)' < TurnsLeft(c) ELSE TurnsLeft(c)' = TurnsLeft(c)

\* Every step keeps what is known of those who wait.
LEMMA WaitStep ==
    ASSUME IInv, DownInv, SentInv, [Next]_vars
    PROVE  DownInv' /\ SentInv'
<1> USE DEF IInv
<1>1. CASE ServerStep
  <2>0. thread' = thread /\ (\A t \in Bridge : t \in Clients)
    BY <1>1 DEF ServerStep, Clients
  <2>1. CASE Start
    BY <2>0, <2>1 DEF Start, DownInv, SentInv, Listening, Connected, Queued
  <2>2. CASE Accept
    <3>1. \A c : Connected(c)' => Connected(c)
      BY <2>2, QueueTail DEF Accept, Connected, OnceConnected, TypeOK
    <3>2. QED
      BY <2>0, <2>2, <3>1 DEF Accept, DownInv, SentInv, Listening
  <2>3. CASE ReadLine \/ Handle
    BY <2>0, <2>3 DEF ReadLine, Handle, DownInv, SentInv, Listening, Connected, Queued
  <2>4. CASE WriteAnswer \/ WriteFails
    <3>1. /\ served # None /\ served' = None /\ backlog' = backlog /\ ended' = ended \ {served}
          /\ server' = "accept"
      BY <2>4 DEF WriteAnswer, WriteFails, Hangup, ServerInv
    <3>2. \A c \in Clients : Connected(c)' => Connected(c) /\ c # served
      BY <3>1, ControlAssumption DEF Connected, Queued, OnceConnected
    <3>3. QED
      BY <2>0, <3>1, <3>2 DEF DownInv, SentInv, Listening
  <2>5. QED
    BY <1>1, <2>1, <2>2, <2>3, <2>4 DEF ServerStep
<1>2. CASE DaemonDies
  <2>1. /\ backlog' = <<>> /\ served' = None
    BY <1>2 DEF DaemonDies
  <2>2. \A t \in Bridge : ~Connected(t)'
    BY <2>1, ControlAssumption DEF Connected, Queued, Clients
  <2>3. QED
    BY <2>1, <2>2 DEF DownInv, SentInv
<1>3. CASE \E t \in Bridge : ThreadStep(t)
  <2>1. PICK t \in Bridge : ThreadStep(t)
    BY <1>3
  <2>2. server' = server /\ served' = served
    BY <2>1 DEF ThreadStep, Connect, ConnectFails, Send, Receive, Broken, Wake, Dispatch, server_
  <2>3. CASE Connect(t)
    <3>1. /\ Listening /\ backlog' = Append(backlog, t) /\ ended' = ended
          /\ thread'[t] = "send" /\ (\A u \in Bridge : u # t => thread'[u] = thread[u])
      BY <2>3 DEF Connect, TypeOK
    <3>2. \A d : Queued(d)' <=> Queued(d) \/ d = t
      BY <3>1, QueueAppend DEF TypeOK, Clients
    <3>3. QED
      BY <2>2, <3>1, <3>2 DEF DownInv, SentInv, Listening, Connected
  <2>4. CASE Send(t)
    BY <2>2, <2>4 DEF Send, TypeOK, DownInv, SentInv, Listening, Connected, Queued
  <2>5. CASE ~Connect(t) /\ ~Send(t)
    <3>1. /\ backlog' = backlog /\ ended' = ended
          /\ \A u \in Bridge : thread'[u] = "wait" => thread[u] = "wait"
      BY <2>1, <2>5
      DEF ThreadStep, ConnectFails, Receive, Broken, Wake, Dispatch, Returns, TypeOK
    <3>2. QED
      BY <2>2, <3>1 DEF DownInv, SentInv, Listening, Connected, Queued
  <2>6. QED
    BY <2>3, <2>4, <2>5
<1>4. CASE OnMessage
  BY <1>4 DEF OnMessage, server_, TypeOK, DownInv, SentInv, Listening, Connected, Queued
<1>5. CASE \E c \in Others : OtherStep(c)
  <2>1. PICK c \in Others : OtherStep(c)
    BY <1>5
  <2>2. server' = server /\ served' = served /\ thread' = thread
    BY <2>1 DEF OtherStep, server_
  <2>3. c \in Clients /\ c \notin Bridge
    BY ControlAssumption DEF Clients
  <2>4. CASE OtherConnects(c)
    <3>1. Listening /\ backlog' = Append(backlog, c) /\ ended' = ended
      BY <2>4 DEF OtherConnects
    <3>2. \A d : Queued(d)' <=> Queued(d) \/ d = c
      BY <2>3, <3>1, QueueAppend DEF TypeOK
    <3>3. QED
      BY <2>2, <2>3, <3>1, <3>2 DEF DownInv, SentInv, Listening, Connected
  <2>5. CASE OtherSends(c) \/ OtherGoes(c)
    <3>1. backlog' = backlog /\ ended \subseteq ended'
      BY <2>5 DEF OtherSends, OtherGoes
    <3>2. QED
      BY <2>2, <3>1 DEF DownInv, SentInv, Listening, Connected, Queued
  <2>6. QED
    BY <2>1, <2>4, <2>5 DEF OtherStep
<1>6. CASE UNCHANGED vars
  BY <1>6 DEF vars, server_, DownInv, SentInv, Listening, Connected, Queued
<1>7. QED
  BY <1>1, <1>2, <1>3, <1>4, <1>5, <1>6 DEF Next

LEMMA WaitInvariant == Spec => [](IInv /\ DownInv /\ SentInv)
<1>1. Init => DownInv /\ SentInv
  BY DEF Init, DownInv, SentInv
<1>2. IInv /\ DownInv /\ SentInv /\ [Next]_vars => DownInv' /\ SentInv'
  BY WaitStep
<1>3. QED
  BY <1>1, <1>2, Invariant, PTL DEF Spec

\* When a thread of the bridge cannot go on and the control thread cannot either,
\* the control thread is at a connection whose client has not ended its line: one
\* of another process, or the other thread of the bridge, which is about to write.
\* A thread is never left connected to nobody, or without a line the other reads
\* for (controlSocket.cpp:192-226, mqttBridge.cpp:48-80).
THEOREM WaitsOnlyForALine == Spec => []NobodyElseIsWaitedFor
<1>1. IInv /\ DownInv /\ SentInv => NobodyElseIsWaitedFor
  <2> SUFFICES ASSUME IInv, DownInv, SentInv, NEW t \in Bridge, Waits(t), ServerWaits
               PROVE  Silence \/ (server = "read" /\ served \in Bridge /\ thread[served] = "send")
    BY DEF NobodyElseIsWaitedFor
  <2> USE DEF IInv
  <2>0. t \in Clients /\ t # None /\ (served \in Bridge \/ served \in Others \/ served = None)
    BY ControlAssumption DEF Clients, TypeOK
  <2>1. server # "none"
    <3>1. ASSUME server = "none" PROVE FALSE
      <4>1. ~Listening /\ backlog = <<>> /\ served = None
        BY <3>1 DEF DownInv, Listening, ServerInv
      <4>2. ~Connected(t)
        BY <2>0, <4>1 DEF Connected, Queued
      <4>3. QED
        BY <4>1, <4>2 DEF Waits
    <3>2. QED
      BY <3>1
  <2>2. ~(server = "accept" /\ backlog = <<>>)
    <3>1. ASSUME server = "accept", backlog = <<>> PROVE FALSE
      <4>1. served = None /\ Len(backlog) = 0
        BY <3>1 DEF ServerInv
      <4>2. ~Connected(t)
        BY <2>0, <3>1, <4>1 DEF Connected, Queued
      <4>3. ~(Len(backlog) >= Waiting)
        BY <4>1, ControlAssumption
      <4>4. QED
        BY <4>2, <4>3 DEF Waits
    <3>2. QED
      BY <3>1
  <2>3. server = "read" /\ served \notin ended /\ served # None
    BY <2>1, <2>2 DEF ServerWaits, ServerInv
  <2>4. CASE served \in Others
    BY <2>3, <2>4 DEF Silence
  <2>5. CASE served \in Bridge
    <3>1. Connected(served) /\ thread[served] # "wait"
      BY <2>3, <2>5 DEF Connected, SentInv
    <3>2. thread[served] = "send"
      BY <2>5, <3>1 DEF ThreadInv, TypeOK
    <3>3. QED
      BY <2>3, <2>5, <3>2
  <2>6. QED
    BY <2>0, <2>3, <2>4, <2>5
<1>2. QED
  BY <1>1, WaitInvariant, PTL

\* The place of a connection that waits, now and after a step.
LEMMA PlaceIs ==
    ASSUME IInv, NEW c \in Clients, NEW i \in DOMAIN backlog, backlog[i] = c
    PROVE  served # c /\ Place(c) = i
<1>1. served # c
  BY ControlAssumption DEF IInv, OnceConnected, Queued, Clients
<1>2. \A j \in DOMAIN backlog : backlog[j] = c => j = i
  BY DEF IInv, OnceConnected
<1>3. QED
  BY <1>1, <1>2 DEF Place
LEMMA PlaceWillBe ==
    ASSUME IInv', NEW c \in Clients, NEW i \in DOMAIN backlog', backlog'[i] = c
    PROVE  served' # c /\ Place(c)' = i
<1>1. served' # c
  BY ControlAssumption DEF IInv, OnceConnected, Queued, Clients
<1>2. \A j \in DOMAIN backlog' : backlog'[j] = c => j = i
  BY DEF IInv, OnceConnected
<1>3. QED
  BY <1>1, <1>2 DEF Place

\* A connection has a place, before a step and after it.
LEMMA PlaceCounts ==
    ASSUME IInv, IInv', NEW c \in Clients
    PROVE  /\ Connected(c) => Place(c) \in Nat
           /\ Connected(c)' => Place(c)' \in Nat
<1>1. ASSUME Queued(c) PROVE Place(c) \in Nat
  <2>1. PICK i \in DOMAIN backlog : backlog[i] = c
    BY <1>1 DEF Queued
  <2>2. i \in Nat
    BY <2>1 DEF IInv, TypeOK
  <2>3. QED
    BY <2>1, <2>2, PlaceIs
<1>2. ASSUME Queued(c)' PROVE Place(c)' \in Nat
  <2>1. PICK i \in DOMAIN backlog' : backlog'[i] = c
    BY <1>2 DEF Queued
  <2>2. i \in Nat
    BY <2>1 DEF IInv, TypeOK
  <2>3. QED
    BY <2>1, <2>2, PlaceWillBe
<1>3. (served = c => Place(c) = 0) /\ (served' = c => Place(c)' = 0)
  BY DEF Place
<1>4. QED
  BY <1>1, <1>2, <1>3 DEF Connected

\* The control thread brings every connection nearer to its end.
LEMMA TurnServer ==
    ASSUME IInv, IInv', DownInv, ServerStep, NEW c \in Clients, Connected(c), Connected(c)'
    PROVE  TurnsLeft(c)' < TurnsLeft(c)
<1> USE DEF IInv
<1>0. Place(c) \in Nat /\ Place(c)' \in Nat /\ c # None
  BY PlaceCounts, ControlAssumption
<1>1. CASE Start
  BY <1>0, <1>1 DEF Start, DownInv, Listening, Connected, Queued, ServerInv
<1>2. CASE Accept
  <2>1. /\ server = "accept" /\ served = None /\ server' = "read" /\ backlog # <<>>
        /\ backlog' = Tail(backlog) /\ served' = Head(backlog) /\ backlog \in Seq(Clients)
    BY <1>2 DEF Accept, ServerInv, TypeOK
  <2>2. PICK i \in DOMAIN backlog : backlog[i] = c
    BY <1>0, <2>1 DEF Connected, Queued
  <2>3. Place(c) = i /\ i \in Nat
    BY <1>0, <2>2, PlaceIs
  <2>4. Place(c)' = i - 1
    <3>1. CASE i = 1
      BY <2>1, <2>2, <3>1 DEF Place
    <3>2. CASE i # 1
      <4>1. i - 1 \in DOMAIN backlog' /\ backlog'[i - 1] = c
        BY <2>1, <2>2, <3>2
      <4>2. QED
        BY <4>1, PlaceWillBe
    <3>3. QED
      BY <3>1, <3>2
  <2>5. ServerLeft = 0 /\ ServerLeft' = 3
    BY <2>1 DEF ServerLeft
  <2>6. TurnsLeft(c) = 4 * i /\ TurnsLeft(c)' = 4 * (i - 1) + 3
    BY <2>3, <2>4, <2>5 DEF TurnsLeft
  <2>7. QED
    BY <2>3, <2>6
<1>3. CASE ReadLine \/ Handle
  <2>1. /\ backlog' = backlog /\ served' = served
        /\ \/ ServerLeft = 3 /\ ServerLeft' = 2
           \/ ServerLeft = 2 /\ ServerLeft' = 1
    BY <1>3 DEF ReadLine, Handle, ServerLeft
  <2>2. Place(c)' = Place(c)
    BY <2>1 DEF Place
  <2>3. QED
    BY <1>0, <2>1, <2>2 DEF TurnsLeft
<1>4. CASE WriteAnswer \/ WriteFails
  <2>1. /\ backlog' = backlog /\ served' = None /\ ServerLeft = 1 /\ ServerLeft' = 0
    BY <1>4 DEF WriteAnswer, WriteFails, Hangup, ServerLeft
  <2>2. PICK i \in DOMAIN backlog : backlog[i] = c
    BY <1>0, <2>1 DEF Connected, Queued
  <2>3. Place(c) = i
    BY <2>2, PlaceIs
  <2>4. Place(c)' = i
    BY <2>1, <2>2, PlaceWillBe
  <2>5. QED
    BY <1>0, <2>1, <2>3, <2>4 DEF TurnsLeft
<1>5. QED
  BY <1>1, <1>2, <1>3, <1>4 DEF ServerStep

\* A new connection takes the last place, and leaves the others theirs.
LEMMA TurnAppend ==
    ASSUME IInv, IInv', server' = server, served' = served,
           NEW d \in Clients, ~Connected(d), backlog' = Append(backlog, d),
           NEW c \in Clients, Connected(c)
    PROVE  TurnsLeft(c)' = TurnsLeft(c)
<1>1. ServerLeft' = ServerLeft
  BY DEF ServerLeft
<1>2. CASE served = c
  BY <1>1, <1>2 DEF TurnsLeft, Place
<1>3. CASE Queued(c)
  <2>1. PICK i \in DOMAIN backlog : backlog[i] = c
    BY <1>3 DEF Queued
  <2>2. i \in DOMAIN backlog' /\ backlog'[i] = c
    BY <2>1 DEF IInv, TypeOK
  <2>3. Place(c) = i /\ Place(c)' = i
    BY <2>1, <2>2, PlaceIs, PlaceWillBe
  <2>4. QED
    BY <1>1, <2>3 DEF TurnsLeft
<1>4. QED
  BY <1>2, <1>3 DEF Connected

\* Connections are served in the order they came: a step of the control thread
\* brings every connection nearer to its answer, and no step of another client, of
\* a thread of the bridge or of the callback puts one back, however many there are
\* and however often the others connect again (controlSocket.cpp:176-226).
THEOREM NobodyIsOvertaken == Spec => [][ServedInTurn]_vars
<1>1. ASSUME IInv, IInv', DownInv, Next PROVE ServedInTurn
  <2> SUFFICES ASSUME NEW c \in Clients, Connected(c), Connected(c)'
               PROVE  /\ TurnsLeft(c) \in Nat
                      /\ ServerStep => TurnsLeft(c)' < TurnsLeft(c)
                      /\ ~ServerStep => TurnsLeft(c)' = TurnsLeft(c)
    BY DEF ServedInTurn
  <2>1. TurnsLeft(c) \in Nat
    <3>1. Place(c) \in Nat /\ ServerLeft \in Nat
      BY <1>1, PlaceCounts DEF ServerLeft
    <3>2. QED
      BY <3>1 DEF TurnsLeft
  <2>2. ServerStep => TurnsLeft(c)' < TurnsLeft(c)
    BY <1>1, TurnServer
  <2>3. ASSUME server' = server, served' = served, backlog' = backlog
        PROVE  TurnsLeft(c)' = TurnsLeft(c)
    BY <2>3 DEF TurnsLeft, Place, ServerLeft
  <2>4. CASE DaemonDies
    BY <2>4, ControlAssumption DEF DaemonDies, Connected, Queued
  <2>5. CASE \E t \in Bridge : ThreadStep(t)
    <3>1. PICK t \in Bridge : ThreadStep(t)
      BY <2>5
    <3>2. server' = server /\ served' = served
      BY <3>1 DEF ThreadStep, Connect, ConnectFails, Send, Receive, Broken, Wake, Dispatch, server_
    <3>3. CASE Connect(t)
      <4>1. backlog' = Append(backlog, t) /\ t \in Clients /\ ~Connected(t)
        BY <1>1, <3>3 DEF Connect, Clients, IInv, ThreadInv
      <4>2. QED
        BY <1>1, <2>1, <2>2, <3>2, <4>1, TurnAppend
    <3>4. CASE ~Connect(t)
      <4>1. backlog' = backlog
        BY <3>1, <3>4 DEF ThreadStep, ConnectFails, Send, Receive, Broken, Wake, Dispatch
      <4>2. QED
        BY <2>1, <2>2, <2>3, <3>2, <4>1
    <3>5. QED
      BY <3>3, <3>4
  <2>6. CASE OnMessage
    BY <2>1, <2>2, <2>3, <2>6 DEF OnMessage, server_
  <2>7. CASE \E d \in Others : OtherStep(d)
    <3>1. PICK d \in Others : OtherStep(d)
      BY <2>7
    <3>2. server' = server /\ served' = served
      BY <3>1 DEF OtherStep, server_
    <3>3. CASE OtherConnects(d)
      <4>1. backlog' = Append(backlog, d) /\ d \in Clients /\ ~Connected(d)
        BY <3>3 DEF OtherConnects, Clients
      <4>2. QED
        BY <1>1, <2>1, <2>2, <3>2, <4>1, TurnAppend
    <3>4. CASE OtherSends(d) \/ OtherGoes(d)
      BY <2>1, <2>2, <2>3, <3>2, <3>4 DEF OtherSends, OtherGoes
    <3>5. QED
      BY <3>1, <3>3, <3>4 DEF OtherStep
  <2>8. QED
    BY <1>1, <2>1, <2>2, <2>4, <2>5, <2>6, <2>7 DEF Next
<1>2. IInv /\ IInv' /\ DownInv /\ [Next]_vars => [ServedInTurn]_vars
  BY <1>1
<1>3. QED
  BY <1>2, WaitInvariant, PTL DEF Spec
=============================================================================
