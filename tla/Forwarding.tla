------------------------------ MODULE Forwarding ------------------------------
(***************************************************************************)
(* The session of AAWProxy::handleClient: the proxy thread (the owner)     *)
(* starts a thread per direction, joins them, restores the disposition of  *)
(* SIGUSR1 and closes the descriptors.  The direction that ends first sets *)
(* should_exit and signals both threads, through two std::optional members *)
(* that the owner sets and resets without a lock.                          *)
(*                                                                         *)
(* A signal only helps a thread that is in a call: one that has tested     *)
(* should_exit and not yet entered read() or write(), or is between two    *)
(* reads of a message, takes it for nothing. A read of the phone times     *)
(* out; a read of the accessory, and any write, waits as long as the peer  *)
(* makes it wait.                                                          *)
(*                                                                         *)
(* What the phone sends is cut into messages by readMessage.  Lengths are  *)
(* counted in units; read() returns as many as it likes.                   *)
(***************************************************************************)
EXTENDS Naturals

CONSTANTS
    HeaderLength,  \* of every message
    ExtraLength,   \* what the header of a FIRST frame has on top
    BufferLen      \* buffer_len

ASSUME ForwardingAssumption ==
    /\ HeaderLength \in Nat \ {0} /\ ExtraLength \in Nat /\ BufferLen \in Nat

VARIABLES
    fate,          \* the process: "running", "crashed" (a bad pthread_kill),
                   \* "sigusr1", "sigpipe" (killed by that signal)
    owner,         \* the proxy thread: what it does next
    pc,            \* the forwarding threads: what they do next
    member,        \* m_usb_tcp_thread, m_tcp_usb_thread: "unset", "set", or
                   \* "joined" (still set, its thread no more)
    should_exit,
    handler,       \* the empty signal handler is installed
    open,          \* the descriptors that are open
    phone, host,   \* the peers are still there
    want,          \* what the readFully in progress has still to read
    unread         \* of the message whose header was read: still to come

session == <<owner, member, handler, open, phone, host>>
framing == <<want, unread>>
vars == <<fate, pc, should_exit, session, framing>>

Threads == {"usb_tcp", "tcp_usb"}
Source(t) == IF t = "usb_tcp" THEN "usb" ELSE "tcp"
Sink(t) == IF t = "usb_tcp" THEN "tcp" ELSE "usb"

\* In the read of a message there are two, of its header and of its body.
Reading == {"blocked", "body"}

\* In a system call on a descriptor.
Using(t, fd) ==
    \/ pc[t] \in Reading /\ fd = Source(t)
    \/ pc[t] = "writing" /\ fd = Sink(t)

OwnerSteps == {"start usb_tcp", "set usb_tcp", "start tcp_usb", "set tcp_usb",
               "join usb_tcp", "reset usb_tcp", "join tcp_usb", "reset tcp_usb",
               "restore", "close usb", "close tcp", "returned"}

\* The body of a message that fits into the buffer behind its header.
Fits(length) == HeaderLength + length <= BufferLen

\* What readFully may be asked for: a header, or the body of a message that fits.
Wanted == 0..HeaderLength \cup {n \in 0..BufferLen : Fits(n)}

TypeOK ==
    /\ fate \in {"running", "crashed", "sigusr1", "sigpipe"}
    /\ owner \in OwnerSteps
    /\ pc \in [Threads -> {"unborn", "test", "read", "blocked", "body", "got",
                           "write", "writing", "stop", "look usb_tcp", "kill usb_tcp",
                           "look tcp_usb", "kill tcp_usb", "ended"}]
    /\ member \in [Threads -> {"unset", "set", "joined"}]
    /\ should_exit \in BOOLEAN /\ handler \in BOOLEAN
    /\ phone \in BOOLEAN /\ host \in BOOLEAN
    /\ open \subseteq {"usb", "tcp"}
    /\ want \in Wanted
    /\ unread \in 0..(ExtraLength + BufferLen)

\* Both descriptors are open and sigaction has been called.
Init ==
    /\ fate = "running"
    /\ owner = "start usb_tcp"
    /\ pc = [t \in Threads |-> "unborn"]
    /\ member = [t \in Threads |-> "unset"]
    /\ should_exit = FALSE
    /\ handler = TRUE
    /\ open = {"usb", "tcp"}
    /\ phone = TRUE /\ host = TRUE
    /\ want = 0 /\ unread = 0

-----------------------------------------------------------------------------
\* The owner.

At(step, next) == owner = step /\ owner' = next
RestUnchanged == UNCHANGED <<fate, should_exit, phone, host, framing>>

\* std::thread's constructor: the thread may run before the member is set.
Start(t, step, next) ==
    /\ At(step, next)
    /\ pc' = [pc EXCEPT ![t] = "test"]
    /\ RestUnchanged /\ UNCHANGED <<member, handler, open>>

SetMember(t, step, next) ==
    /\ At(step, next)
    /\ member' = [member EXCEPT ![t] = "set"]
    /\ RestUnchanged /\ UNCHANGED <<pc, handler, open>>

\* Mutant: the thread is detached.
MutantDetach(t, step, next) ==
    /\ At(step, next)
    /\ member' = [member EXCEPT ![t] = "joined"]
    /\ RestUnchanged /\ UNCHANGED <<pc, handler, open>>

Join(t, step, next) ==
    /\ At(step, next)
    /\ pc[t] = "ended"
    /\ member' = [member EXCEPT ![t] = "joined"]
    /\ RestUnchanged /\ UNCHANGED <<pc, handler, open>>

\* Mutant: the disposition of the signal is restored after the first join.
MutantRestoreEarly(t, step, next) ==
    /\ At(step, next)
    /\ member' = [member EXCEPT ![t] = "unset"]
    /\ handler' = FALSE
    /\ RestUnchanged /\ UNCHANGED <<pc, open>>

Reset(t, step, next) ==
    /\ At(step, next)
    /\ member' = [member EXCEPT ![t] = "unset"]
    /\ RestUnchanged /\ UNCHANGED <<pc, handler, open>>

\* signal(SIGUSR1, SIG_DFL)
Restore ==
    /\ At("restore", "close usb")
    /\ handler' = FALSE
    /\ RestUnchanged /\ UNCHANGED <<pc, member, open>>

Close(fd, step, next) ==
    /\ At(step, next)
    /\ open' = open \ {fd}
    /\ RestUnchanged /\ UNCHANGED <<pc, member, handler>>

OwnerStep ==
    /\ fate = "running"
    /\ \/ Start("usb_tcp", "start usb_tcp", "set usb_tcp")
       \/ SetMember("usb_tcp", "set usb_tcp", "start tcp_usb")
       \/ Start("tcp_usb", "start tcp_usb", "set tcp_usb")
       \/ SetMember("tcp_usb", "set tcp_usb", "join usb_tcp")
       \/ Join("usb_tcp", "join usb_tcp", "reset usb_tcp")
       \/ Reset("usb_tcp", "reset usb_tcp", "join tcp_usb")
       \/ Join("tcp_usb", "join tcp_usb", "reset tcp_usb")
       \/ Reset("tcp_usb", "reset tcp_usb", "restore")
       \/ Restore
       \/ Close("usb", "close usb", "close tcp")
       \/ Close("tcp", "close tcp", "returned")

-----------------------------------------------------------------------------
\* A forwarding thread: forward().

ThreadAt(t, step, next) == pc[t] = step /\ pc' = [pc EXCEPT ![t] = next]
ThreadOnly == UNCHANGED session
JustMoves == UNCHANGED <<fate, should_exit, framing>> /\ ThreadOnly

\* while (!should_exit)
Test(t) ==
    /\ ThreadAt(t, "test", IF should_exit THEN "stop" ELSE "read")
    /\ JustMoves

\* The thread enters read(), of what there is or of a header.
Read(t) ==
    /\ ThreadAt(t, "read", "blocked")
    /\ want' = IF Source(t) = "tcp" THEN HeaderLength ELSE want
    /\ UNCHANGED <<fate, should_exit, unread>> /\ ThreadOnly

Reachable(end) == IF end = "usb" THEN host ELSE phone

\* The accessory's read returns what there is.
ReadReturns(t) ==
    /\ Source(t) = "usb" /\ host
    /\ ThreadAt(t, "blocked", "got")
    /\ JustMoves

\* The phone's message: what its header announces and what will follow it.
MessageLength(first, body) == body + (IF first THEN ExtraLength ELSE 0)

\* readFully goes on after a short read; what the phone has sent can be read after
\* it has gone.
ReadSome(t, step, n) ==
    /\ Source(t) = "tcp"
    /\ pc[t] = step
    /\ n < want
    /\ want' = want - n
    /\ UNCHANGED <<fate, pc, should_exit>> /\ ThreadOnly

ReadHeaderPart(t) ==
    \E n \in 1..want : ReadSome(t, "blocked", n) /\ UNCHANGED unread

\* Mutant: the longer header of a FIRST frame is forgotten.
MutantReadHeader(t) ==
    /\ Source(t) = "tcp"
    /\ \E first \in BOOLEAN, body \in 0..BufferLen :
         /\ unread' = MessageLength(first, body)
         /\ IF ~Fits(body) \/ body = 0
            THEN ThreadAt(t, "blocked", "stop") /\ want' = 0
            ELSE ThreadAt(t, "blocked", "body") /\ want' = body
    /\ UNCHANGED <<fate, should_exit>> /\ ThreadOnly

\* Mutant: the check of the size forgets the header.
MutantSizeCheck(t) ==
    /\ Source(t) = "tcp"
    /\ \E first \in BOOLEAN, body \in 0..BufferLen :
         LET length == MessageLength(first, body) IN
         /\ unread' = length
         /\ IF length > BufferLen \/ length = 0
            THEN ThreadAt(t, "blocked", "stop") /\ want' = 0
            ELSE ThreadAt(t, "blocked", "body") /\ want' = length
    /\ UNCHANGED <<fate, should_exit>> /\ ThreadOnly

\* The header is complete. A message that does not fit is an error, one without
\* a body makes readMessage return 0, the end of the stream.
ReadHeader(t) ==
    /\ Source(t) = "tcp"
    /\ \E first \in BOOLEAN, body \in 0..BufferLen :
         LET length == MessageLength(first, body) IN
         /\ unread' = length
         /\ IF ~Fits(length) \/ length = 0
            THEN ThreadAt(t, "blocked", "stop") /\ want' = 0
            ELSE ThreadAt(t, "blocked", "body") /\ want' = length
    /\ UNCHANGED <<fate, should_exit>> /\ ThreadOnly

ReadBodyPart(t) ==
    \E n \in 1..want : ReadSome(t, "body", n) /\ unread' = unread - n

ReadBody(t) ==
    /\ Source(t) = "tcp"
    /\ ThreadAt(t, "body", "got")
    /\ want' = 0
    /\ unread' = unread - want
    /\ UNCHANGED <<fate, should_exit>> /\ ThreadOnly

\* Mutant: no timeout is set on the TCP socket.
MutantNoTimeout(t) ==
    /\ ~Reachable(Source(t))
    /\ pc[t] \in Reading /\ ThreadAt(t, pc[t], "stop")
    /\ JustMoves

\* Mutant: the end of the accessory's stream is ignored.
MutantEofIgnored(t) ==
    /\ Source(t) = "tcp"
    /\ pc[t] \in Reading /\ ThreadAt(t, pc[t], "stop")
    /\ JustMoves

\* The end of the stream or an error; on TCP, 10 s without data are an error.
\* A read of the accessory has no timeout.
ReadFails(t) ==
    /\ Source(t) = "usb" => ~host
    /\ pc[t] \in Reading /\ ThreadAt(t, pc[t], "stop")
    /\ JustMoves

TestRead(t) ==
    /\ ThreadAt(t, "got", IF should_exit THEN "stop" ELSE "write")
    /\ JustMoves

\* The thread enters write(); until then a signal is no use to it.
EnterWrite(t) ==
    /\ ThreadAt(t, "write", "writing")
    /\ JustMoves

\* The peer has taken what was written, which may be as late as it likes; a write
\* to a peer that is gone may still succeed. After the write should_exit is tested
\* again, as it is by the loop.
WriteReturns(t) ==
    /\ ThreadAt(t, "writing", "test")
    /\ JustMoves

\* Writing to a phone that is gone raises SIGPIPE, which nothing ignores,
\* unless the error is another than EPIPE.
WriteFails(t) ==
    /\ \/ /\ ~Reachable(Sink(t))
          /\ ThreadAt(t, "writing", "stop")
          /\ UNCHANGED fate
       \/ /\ Sink(t) = "tcp" /\ ~phone
          /\ pc[t] = "writing"
          /\ fate' = "sigpipe"
          /\ UNCHANGED pc
    /\ UNCHANGED <<should_exit, framing>> /\ ThreadOnly

\* stopForwarding: for each member, is it set, then pthread_kill on its handle.
StopForwarding(t) ==
    /\ ThreadAt(t, "stop", "look usb_tcp")
    /\ should_exit' = TRUE
    /\ UNCHANGED <<fate, framing>> /\ ThreadOnly

Look(t, victim, step, kill, next) ==
    /\ ThreadAt(t, step, IF member[victim] # "unset" THEN kill ELSE next)
    /\ JustMoves

\* A call the signal reaches fails with EINTR, or returns what it has done so far
\* to a thread that tests should_exit next: its forward() ends. readFully makes
\* several calls, and a signal between two of them is missed.
Interrupt(t, victim, next) ==
    \E missed \in BOOLEAN :
      /\ missed => Source(victim) = "tcp" /\ pc[victim] \in Reading
      /\ pc' = [u \in Threads |->
                  IF u = t THEN next
                  ELSE IF u = victim /\ pc[u] \in Reading \cup {"writing"} /\ ~missed
                       THEN "stop"
                  ELSE pc[u]]

\* A thread that was joined has no handle any more; without the handler the
\* signal kills the process.
Kill(t, victim, step, next) ==
    /\ pc[t] = step
    /\ fate' = IF member[victim] # "set" THEN "crashed"
               ELSE IF handler THEN fate ELSE "sigusr1"
    /\ IF fate' = fate THEN Interrupt(t, victim, next) ELSE UNCHANGED pc
    /\ UNCHANGED <<should_exit, framing>> /\ ThreadOnly

\* The phone or the accessory sends.
Receives(t) ==
    \/ ReadReturns(t)
    \/ ReadHeaderPart(t) \/ ReadHeader(t) \/ ReadBodyPart(t) \/ ReadBody(t)

\* What a thread does without waiting for a peer.
Proceeds(t) ==
    \/ Test(t) \/ Read(t) \/ TestRead(t) \/ EnterWrite(t) \/ WriteFails(t)
    \/ ReadFails(t)
    \/ StopForwarding(t)
    \/ Look(t, "usb_tcp", "look usb_tcp", "kill usb_tcp", "look tcp_usb")
    \/ Kill(t, "usb_tcp", "kill usb_tcp", "look tcp_usb")
    \/ Look(t, "tcp_usb", "look tcp_usb", "kill tcp_usb", "ended")
    \/ Kill(t, "tcp_usb", "kill tcp_usb", "ended")

ThreadStep(t) == fate = "running" /\ (Proceeds(t) \/ Receives(t) \/ WriteReturns(t))

\* The phone closes its connection; the host unplugs or resets.
PeerGoes ==
    /\ fate = "running"
    /\ \/ phone /\ phone' = FALSE /\ UNCHANGED host
       \/ host /\ host' = FALSE /\ UNCHANGED phone
    /\ UNCHANGED <<fate, owner, pc, member, should_exit, handler, open, framing>>

\* The session is over, or the process.
Over == (owner = "returned" \/ fate # "running") /\ UNCHANGED vars

Next == OwnerStep \/ (\E t \in Threads : ThreadStep(t)) \/ PeerGoes \/ Over

\* Threads are scheduled, and reads of TCP time out. The peers owe nothing.
Fairness ==
    /\ WF_vars(OwnerStep)
    /\ \A t \in Threads : WF_vars(fate = "running" /\ Proceeds(t))

Spec == Init /\ [][Next]_vars /\ Fairness

-----------------------------------------------------------------------------
\* No call is in progress on a descriptor that has been closed, which could by
\* then be another file (proxyHandler.cpp:208-220).
NoUseAfterClose ==
    \A t \in Threads, fd \in {"usb", "tcp"} : Using(t, fd) => fd \in open

\* SIGUSR1 never finds its default action, which would kill the daemon: by the
\* time of signal(SIGUSR1, SIG_DFL) nobody sends it (proxyHandler.cpp:199, 214).
SignalHandled == fate # "sigusr1"

\* Nothing but whole messages goes to the accessory: whenever the thread that
\* reads the phone begins a message, or has one to write, what it has read since
\* the session began is a number of complete messages, FIRST frames included,
\* however short the reads were (proxyHandler.cpp:40-66).
WholeMessages ==
    pc["tcp_usb"] \in {"test", "read", "got", "write", "writing"} => unread = 0

\* What the code leaves to its peers, and no timeout limits: that they take what
\* is written to them, and that the host sends; or else that they go.
Takes(t) == WF_vars(fate = "running" /\ WriteReturns(t))
HostSends == WF_vars(fate = "running" /\ ReadReturns("usb_tcp"))

\* Once one direction stops, the direction that reads the phone ends, if the host
\* takes what is written to it: a missed signal costs a read no more than its
\* timeout, of 10 s, but a write as long as the host likes (proxyHandler.cpp:115-120,
\* 183-192).
TcpReaderEnds ==
    Takes("tcp_usb") => (should_exit ~> (pc["tcp_usb"] = "ended" \/ fate # "running"))

\* "Interrupting threads to stop forwarding" (proxyHandler.cpp:143): once one
\* direction stops, the session ends, if the peers take what is written to them and
\* the host sends; without these a missed signal may leave a thread in its call.
SessionEnds ==
    (\A t \in Threads : Takes(t)) /\ HostSends =>
        (should_exit ~> (owner = "returned" \/ fate # "running"))
=============================================================================
