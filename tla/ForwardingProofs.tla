--------------------------- MODULE ForwardingProofs ---------------------------
(***************************************************************************)
(* Theorems about Forwarding, for any lengths and any host: the types, the *)
(* descriptors, the signal and the framing, from one inductive invariant.  *)
(* It says what the owner knows from its joins (a thread it has joined has *)
(* ended, and both have before anything is undone), and that readFully and *)
(* the message agree on what is still to come. Then what the liveness of a *)
(* session rests on: its steps are counted down once should_exit is set,   *)
(* and only a peer that makes one call wait can leave it with nobody that  *)
(* goes on.                                                                *)
(***************************************************************************)
EXTENDS Forwarding, TLAPS

AfterJoins == {"reset tcp_usb", "restore", "close usb", "close tcp", "returned"}
AfterFirstJoin == {"reset usb_tcp", "join tcp_usb"} \cup AfterJoins

BeforeTcpStart == {"start usb_tcp", "set usb_tcp", "start tcp_usb"}

JoinInv ==
    /\ owner \in BeforeTcpStart => pc["tcp_usb"] = "unborn"
    /\ owner \in AfterFirstJoin => pc["usb_tcp"] = "ended"
    /\ owner \in AfterJoins => pc["tcp_usb"] = "ended"

UndoneLast ==
    /\ owner \notin {"close tcp", "returned"} => "usb" \in open
    /\ owner # "returned" => "tcp" \in open
    /\ ~handler => owner \in {"close usb", "close tcp", "returned"}

FrameInv ==
    /\ pc["tcp_usb"] = "body" => unread = want
    /\ pc["tcp_usb"] \in {"unborn", "test", "read", "blocked", "got", "write", "writing"}
           => unread = 0

IInv == TypeOK /\ JoinInv /\ UndoneLast /\ FrameInv /\ SignalHandled

\* What readFully may be asked for goes on being so while it reads.
LEMMA WantedCounts ==
    /\ 0 \in Wanted /\ HeaderLength \in Wanted
    /\ \A n \in Nat : Fits(n) => n \in Wanted /\ n <= BufferLen
    /\ \A w \in Wanted : w \in Nat /\ \A n \in 1..w : w - n \in Wanted
<1>1. \A n \in Nat : Fits(n) => n \in 0..BufferLen
  BY ForwardingAssumption DEF Fits
<1>2. ASSUME NEW w \in Wanted PROVE w \in Nat
  BY <1>2, ForwardingAssumption DEF Wanted
<1>3. ASSUME NEW w \in Wanted, NEW n \in 1..w PROVE w - n \in Wanted
  <2>1. w - n \in Nat /\ w - n <= w
    BY <1>2, <1>3
  <2>2. CASE w \in 0..HeaderLength
    BY <2>1, <2>2, ForwardingAssumption DEF Wanted
  <2>3. CASE w \in 0..BufferLen /\ Fits(w)
    <3>1. Fits(w - n)
      BY <2>1, <2>3, ForwardingAssumption DEF Fits
    <3>2. QED
      BY <1>1, <2>1, <3>1 DEF Wanted
  <2>4. QED
    BY <2>2, <2>3 DEF Wanted
<1>4. 0 \in Wanted /\ HeaderLength \in Wanted
  BY ForwardingAssumption DEF Wanted
<1>5. ASSUME NEW n \in Nat, Fits(n) PROVE n \in Wanted /\ n <= BufferLen
  BY <1>1, <1>5 DEF Wanted
<1>6. QED
  BY <1>2, <1>3, <1>4, <1>5

\* A session starts with both descriptors and the handler, and no thread.
LEMMA InitKeeps == Init => IInv
<1> SUFFICES ASSUME Init PROVE IInv
  OBVIOUS
<1>1. 0 \in Wanted /\ 0 \in 0..(ExtraLength + BufferLen)
  BY ForwardingAssumption DEF Wanted
<1>2. TypeOK
  BY <1>1 DEF Init, TypeOK, Threads, OwnerSteps
<1>3. JoinInv
  BY DEF Init, JoinInv, BeforeTcpStart, AfterFirstJoin, AfterJoins, Threads
<1>4. UndoneLast
  BY DEF Init, UndoneLast
<1>5. FrameInv /\ SignalHandled
  BY DEF Init, FrameInv, SignalHandled, Threads
<1>6. QED
  BY <1>2, <1>3, <1>4, <1>5 DEF IInv

\* A step of the owner: only its joins wait, and what it undoes comes after them.
LEMMA OwnerKeeps ==
    ASSUME IInv, OwnerStep
    PROVE  IInv'
<1> USE DEF IInv, OwnerStep, Start, SetMember, Join, Reset, Restore, Close, At
<1>1. TypeOK'
  BY DEF TypeOK, RestUnchanged, framing, Threads, OwnerSteps
<1>2. JoinInv'
  BY DEF TypeOK, JoinInv, BeforeTcpStart, AfterFirstJoin, AfterJoins, Threads
<1>3. UndoneLast'
  BY DEF UndoneLast, RestUnchanged
<1>4. FrameInv'
  BY DEF TypeOK, FrameInv, JoinInv, BeforeTcpStart, RestUnchanged, framing, Threads
<1>5. SignalHandled'
  BY DEF SignalHandled, RestUnchanged
<1>6. QED
  BY <1>1, <1>2, <1>3, <1>4, <1>5

\* A thread that has not ended is not one the owner has joined, so that the
\* handler is still there; an ended thread stays ended.
LEMMA NotJoined ==
    ASSUME IInv, NEW t \in Threads, pc[t] # "ended"
    PROVE  handler /\ owner \notin AfterJoins /\ (t = "usb_tcp" => owner \notin AfterFirstJoin)
BY DEF IInv, TypeOK, JoinInv, UndoneLast, AfterFirstJoin, AfterJoins, Threads

\* The other steps of a thread only move it, from a place that is not its end.
LEMMA MoveKeeps ==
    ASSUME IInv, NEW t \in Threads, NEW step, NEW next, ThreadAt(t, step, next),
           step # "ended", step # "unborn", should_exit' \in BOOLEAN,
           UNCHANGED <<fate, session, framing>>,
           \/ next \in {"stop", "look usb_tcp", "kill usb_tcp", "look tcp_usb",
                        "kill tcp_usb", "ended"}
           \/ /\ step \in {"test", "read", "blocked", "got", "write", "writing"}
              /\ next \in {"test", "read", "blocked", "got", "write", "writing"}
    PROVE  IInv'
<1> USE DEF IInv, ThreadAt, session, framing
<1>1. TypeOK'
  BY DEF TypeOK
<1>2. JoinInv'
  BY DEF TypeOK, JoinInv, BeforeTcpStart, AfterFirstJoin, AfterJoins, Threads
<1>3. FrameInv'
  BY DEF TypeOK, FrameInv, Threads
<1>4. UndoneLast' /\ SignalHandled'
  BY DEF UndoneLast, SignalHandled
<1>5. QED
  BY <1>1, <1>2, <1>3, <1>4

\* Steps of the thread that reads the phone, in the middle of a message.
LEMMA ReadingKeeps ==
    ASSUME IInv, UNCHANGED <<fate, should_exit, session>>,
           want' \in Wanted,
           unread' \in 0..(ExtraLength + BufferLen),
           NEW step \in {"read", "blocked", "body"},
           NEW next \in {"blocked", "body", "got", "stop"},
           ThreadAt("tcp_usb", step, next),
           next = "body" => unread' = want',
           next \in {"blocked", "got"} => unread' = 0
    PROVE  IInv'
<1> USE DEF IInv, ThreadAt, session
<1>1. TypeOK'
  BY DEF TypeOK
<1>2. JoinInv'
  BY DEF TypeOK, JoinInv, BeforeTcpStart, AfterFirstJoin, AfterJoins, Threads
<1>3. FrameInv'
  BY DEF TypeOK, FrameInv, Threads
<1>4. UndoneLast' /\ SignalHandled'
  BY DEF UndoneLast, SignalHandled
<1>5. QED
  BY <1>1, <1>2, <1>3, <1>4

\* Reading a message: readFully's count and the message's go down together.
LEMMA ReadKeeps ==
    ASSUME IInv, NEW t \in Threads,
           ReadHeaderPart(t) \/ ReadHeader(t) \/ ReadBodyPart(t) \/ ReadBody(t)
    PROVE  IInv'
<1>0. /\ t = "tcp_usb" /\ UNCHANGED <<fate, should_exit, session>>
      /\ want \in Wanted /\ unread \in 0..(ExtraLength + BufferLen)
      /\ pc["tcp_usb"] = "body" => unread = want
      /\ pc["tcp_usb"] = "blocked" => unread = 0
      /\ pc' = pc => ThreadAt("tcp_usb", pc["tcp_usb"], pc["tcp_usb"])
  BY DEF ReadHeaderPart, ReadHeader, ReadBodyPart, ReadBody, ReadSome, ThreadOnly,
         Source, Threads, IInv, TypeOK, FrameInv, ThreadAt
<1>1. CASE ReadHeaderPart(t)
  <2>1. PICK n \in 1..want : ReadSome(t, "blocked", n) /\ unread' = unread
    BY <1>1 DEF ReadHeaderPart
  <2>2. /\ want' = want - n /\ unread' = unread
        /\ pc["tcp_usb"] = "blocked" /\ pc' = pc
    BY <1>0, <2>1 DEF ReadSome
  <2>3. want' \in Wanted
    BY <1>0, <2>1, <2>2, WantedCounts
  <2>4. QED
    BY <1>0, <2>2, <2>3, ReadingKeeps
<1>2. CASE ReadHeader(t)
  <2>1. PICK first \in BOOLEAN, body \in 0..BufferLen :
          LET length == MessageLength(first, body) IN
          /\ unread' = length
          /\ IF ~Fits(length) \/ length = 0
             THEN ThreadAt(t, "blocked", "stop") /\ want' = 0
             ELSE ThreadAt(t, "blocked", "body") /\ want' = length
    BY <1>2 DEF ReadHeader
  <2>2. unread' \in 0..(ExtraLength + BufferLen)
    BY <2>1, ForwardingAssumption DEF MessageLength
  <2>3. /\ want' \in Wanted
        /\ \/ ThreadAt(t, "blocked", "stop")
           \/ ThreadAt(t, "blocked", "body") /\ unread' = want'
    <3>1. unread' \in Nat
      BY <2>2, ForwardingAssumption
    <3>2. QED
      BY <2>1, <3>1, WantedCounts
  <2>4. QED
    BY <1>0, <2>2, <2>3, ReadingKeeps
<1>3. CASE ReadBodyPart(t)
  <2>1. PICK n \in 1..want : ReadSome(t, "body", n) /\ unread' = unread - n
    BY <1>3 DEF ReadBodyPart
  <2>2. pc["tcp_usb"] = "body" /\ pc' = pc /\ want' = want - n /\ unread = want /\ n < want
    BY <1>0, <2>1 DEF ReadSome
  <2>3. unread' = want'
    BY <2>1, <2>2
  <2>4. /\ want' \in Wanted
        /\ unread' \in 0..(ExtraLength + BufferLen)
    <3>1. want' \in Wanted
      BY <1>0, <2>1, <2>2, WantedCounts
    <3>2. unread \in 0..(ExtraLength + BufferLen) /\ unread' = unread - n /\ n \in 1..unread
      BY <1>0, <2>1, <2>2
    <3>3. QED
      BY <3>1, <3>2, ForwardingAssumption
  <2>5. QED
    BY <1>0, <2>2, <2>3, <2>4, ReadingKeeps
<1>4. CASE ReadBody(t)
  <2>1. /\ want' = 0 /\ unread' = unread - want
        /\ ThreadAt("tcp_usb", "body", "got") /\ unread = want
    BY <1>0, <1>4 DEF ReadBody, ThreadAt
  <2>2. /\ want' \in Wanted
        /\ unread' = 0 /\ unread' \in 0..(ExtraLength + BufferLen)
    <3>1. unread' = 0
      BY <1>0, <2>1, ForwardingAssumption
    <3>2. QED
      BY <2>1, <3>1, WantedCounts, ForwardingAssumption
  <2>3. QED
    BY <1>0, <2>1, <2>2, ReadingKeeps
<1>5. QED
  BY <1>1, <1>2, <1>3, <1>4

\* pthread_kill: the handler is there, since the caller has not been joined.
LEMMA KillKeeps ==
    ASSUME IInv, NEW t \in Threads, NEW victim \in Threads,
           \/ Kill(t, victim, "kill usb_tcp", "look tcp_usb")
           \/ Kill(t, victim, "kill tcp_usb", "ended")
    PROVE  IInv'
<1>1. handler
  BY NotJoined DEF Kill
<1>2. fate' \in {"crashed", fate}
  BY <1>1 DEF Kill
<1>3. \A u \in Threads :
        /\ pc[u] = "ended" => pc'[u] = "ended"
        /\ \/ pc'[u] = pc[u]
           \/ /\ pc[u] # "unborn"
              /\ pc'[u] \in {"stop", "look tcp_usb", "ended"}
  BY DEF Kill, Interrupt, IInv, TypeOK, Threads, Reading
<1>4. pc' \in [Threads -> {"unborn", "test", "read", "blocked", "body", "got",
                           "write", "writing", "stop", "look usb_tcp", "kill usb_tcp",
                           "look tcp_usb", "kill tcp_usb", "ended"}]
  BY DEF Kill, Interrupt, IInv, TypeOK
<1>5. UNCHANGED <<should_exit, session, framing>>
  BY DEF Kill, ThreadOnly
<1>6. TypeOK'
  BY <1>2, <1>4, <1>5 DEF IInv, TypeOK, session, framing
<1>7. JoinInv'
  BY <1>3, <1>5
  DEF IInv, JoinInv, BeforeTcpStart, AfterFirstJoin, AfterJoins, Threads, session
<1>8. FrameInv'
  BY <1>3, <1>5 DEF IInv, FrameInv, Threads, framing
<1>9. UndoneLast' /\ SignalHandled'
  BY <1>2, <1>5 DEF IInv, UndoneLast, SignalHandled, session
<1>10. QED
  BY <1>6, <1>7, <1>8, <1>9 DEF IInv

\* A step of a thread.
LEMMA ThreadKeeps ==
    ASSUME IInv, NEW t \in Threads, ThreadStep(t)
    PROVE  IInv'
<1> USE DEF JustMoves, ThreadOnly
<1>0. should_exit \in BOOLEAN /\ {"usb_tcp", "tcp_usb"} = Threads
  BY DEF IInv, TypeOK, Threads
<1>1. Test(t) \/ TestRead(t) \/ EnterWrite(t) => IInv'
  BY <1>0, MoveKeeps DEF Test, TestRead, EnterWrite
<1>2. Read(t) => IInv'
  <2>1. CASE Source(t) = "tcp" /\ Read(t)
    <3>1. t = "tcp_usb" /\ UNCHANGED <<fate, should_exit, session>>
          /\ ThreadAt("tcp_usb", "read", "blocked") /\ want' = HeaderLength
      BY <2>1 DEF Read, Source, Threads
    <3>2. want' \in Wanted
      BY <3>1, WantedCounts
    <3>3. unread' = 0 /\ unread' \in 0..(ExtraLength + BufferLen)
      BY <2>1, <3>1 DEF Read, ThreadAt, IInv, FrameInv, TypeOK
    <3>4. QED
      BY <3>1, <3>2, <3>3, ReadingKeeps
  <2>2. CASE Source(t) # "tcp" /\ Read(t)
    BY <1>0, <2>2, MoveKeeps DEF Read, framing
  <2>3. QED
    BY <2>1, <2>2
<1>2a. ReadHeaderPart(t) \/ ReadHeader(t) \/ ReadBodyPart(t) \/ ReadBody(t) => IInv'
  BY ReadKeeps
<1>3. ReadReturns(t) \/ WriteReturns(t) => IInv'
  BY <1>0, MoveKeeps DEF ReadReturns, WriteReturns
<1>4. ReadFails(t) => IInv'
  BY <1>0, MoveKeeps DEF ReadFails, Reading
<1>5. WriteFails(t) => IInv'
  <2>1. CASE ThreadAt(t, "writing", "stop") /\ UNCHANGED <<fate, should_exit, session, framing>>
    BY <1>0, <2>1, MoveKeeps
  <2>2. CASE fate' = "sigpipe" /\ UNCHANGED <<pc, should_exit, session, framing>>
    BY <2>2
    DEF IInv, TypeOK, JoinInv, UndoneLast, FrameInv, SignalHandled, session, framing
  <2>3. QED
    BY <2>1, <2>2 DEF WriteFails
<1>6. StopForwarding(t) => IInv'
  BY MoveKeeps DEF StopForwarding
<1>7. Look(t, "usb_tcp", "look usb_tcp", "kill usb_tcp", "look tcp_usb") => IInv'
  BY <1>0, MoveKeeps DEF Look
<1>8. Look(t, "tcp_usb", "look tcp_usb", "kill tcp_usb", "ended") => IInv'
  BY <1>0, MoveKeeps DEF Look
<1>9. Kill(t, "usb_tcp", "kill usb_tcp", "look tcp_usb") => IInv'
  BY <1>0, KillKeeps
<1>10. Kill(t, "tcp_usb", "kill tcp_usb", "ended") => IInv'
  BY <1>0, KillKeeps
<1>11. QED
  BY <1>1, <1>2, <1>2a, <1>3, <1>4, <1>5, <1>6, <1>7, <1>8, <1>9, <1>10
  DEF ThreadStep, Proceeds, Receives

\* The invariant is inductive.
LEMMA IInvKept == IInv /\ [Next]_vars => IInv'
<1> SUFFICES ASSUME IInv, [Next]_vars PROVE IInv'
  OBVIOUS
<1>1. CASE OwnerStep
  BY <1>1, OwnerKeeps
<1>2. CASE \E t \in Threads : ThreadStep(t)
  BY <1>2, ThreadKeeps
<1>3. CASE PeerGoes
  BY <1>3
  DEF PeerGoes, IInv, TypeOK, JoinInv, UndoneLast, FrameInv, SignalHandled, framing
<1>4. CASE UNCHANGED vars
  <2>1. /\ fate' = fate /\ pc' = pc /\ should_exit' = should_exit /\ owner' = owner
        /\ member' = member /\ handler' = handler /\ open' = open
        /\ phone' = phone /\ host' = host /\ want' = want /\ unread' = unread
    BY <1>4 DEF vars, session, framing
  <2>2. TypeOK'
    BY <2>1 DEF IInv, TypeOK
  <2>3. JoinInv' /\ UndoneLast'
    BY <2>1 DEF IInv, JoinInv, UndoneLast
  <2>4. FrameInv' /\ SignalHandled'
    BY <2>1 DEF IInv, FrameInv, SignalHandled
  <2>5. QED
    BY <2>2, <2>3, <2>4 DEF IInv
<1>5. QED
  BY <1>1, <1>2, <1>3, <1>4 DEF Next, Over

LEMMA AlwaysIInv == Spec => []IInv
<1>1. Init => IInv
  BY InitKeeps
<1>2. IInv /\ [Next]_vars => IInv'
  BY IInvKept
<1>3. QED
  BY <1>1, <1>2, PTL DEF Spec

\* A call in progress is one of a thread the owner has not joined.
LEMMA JoinedBeforeClosed == IInv => NoUseAfterClose
<1> SUFFICES ASSUME IInv, NEW t \in Threads, NEW fd \in {"usb", "tcp"}, Using(t, fd)
             PROVE  fd \in open
  BY DEF NoUseAfterClose
<1>1. owner \notin AfterJoins
  BY NotJoined DEF Using, Reading
<1>2. QED
  BY <1>1 DEF IInv, UndoneLast, AfterJoins

\* The variables of a session keep their types; in particular readFully never
\* asks for more than the buffer holds, whatever the phone announces.
THEOREM TypeCorrect == Spec => []TypeOK
<1>1. IInv => TypeOK
  BY DEF IInv
<1>2. QED
  BY <1>1, AlwaysIInv, PTL

\* No descriptor is closed while a call on it is in progress (proxyHandler.cpp:208-220).
THEOREM ClosedUnused == Spec => []NoUseAfterClose
BY JoinedBeforeClosed, AlwaysIInv, PTL

\* SIGUSR1 never finds its default action (proxyHandler.cpp:199, 214).
THEOREM AlwaysHandled == Spec => []SignalHandled
<1>1. IInv => SignalHandled
  BY DEF IInv
<1>2. QED
  BY <1>1, AlwaysIInv, PTL

\* What is written to the accessory are whole messages, for any lengths of
\* header and buffer (proxyHandler.cpp:40-66).
THEOREM MessagesStayWhole == Spec => []WholeMessages
<1>1. IInv => WholeMessages
  BY DEF IInv, FrameInv, WholeMessages
<1>2. QED
  BY <1>1, AlwaysIInv, PTL
-----------------------------------------------------------------------------
\* The temporal properties, without the fairness: once should_exit is set the
\* session has a number of steps left, whatever its threads are doing.

\* A thread that is done has set should_exit; the session begins with no thread.
DonePlaces == {"look usb_tcp", "kill usb_tcp", "look tcp_usb", "kill tcp_usb", "ended"}
ExitInv ==
    /\ \A t \in Threads : pc[t] \in DonePlaces => should_exit
    /\ owner = "start usb_tcp" => pc["usb_tcp"] = "unborn"

LEMMA OthersStay ==
    ASSUME IInv, ExitInv, NEW t \in Threads, ThreadStep(t)
    PROVE  /\ UNCHANGED session /\ (should_exit => should_exit')
           /\ pc[t] # "unborn" /\ pc'[t] # "unborn"
           /\ \A u \in Threads \ {t} :
                pc'[u] = pc[u] \/ (pc[u] \in Reading \cup {"writing"} /\ pc'[u] = "stop")
           /\ pc'[t] \in DonePlaces => should_exit'
<1> USE DEF ThreadOnly, JustMoves, ThreadAt
<1>0. TypeOK /\ (pc[t] \in DonePlaces => should_exit)
  BY DEF IInv, ExitInv
<1>1. CASE Proceeds(t)
  <2>1. CASE \/ Test(t) \/ Read(t) \/ TestRead(t) \/ EnterWrite(t) \/ WriteFails(t)
             \/ ReadFails(t)
    BY <1>0, <2>1
    DEF Test, Read, TestRead, EnterWrite, WriteFails, ReadFails, TypeOK, Reading, DonePlaces
  <2>2. CASE StopForwarding(t)
    BY <1>0, <2>2 DEF StopForwarding, TypeOK
  <2>3. CASE \/ Look(t, "usb_tcp", "look usb_tcp", "kill usb_tcp", "look tcp_usb")
             \/ Look(t, "tcp_usb", "look tcp_usb", "kill tcp_usb", "ended")
    BY <1>0, <2>3 DEF Look, TypeOK, DonePlaces
  <2>4. CASE \/ Kill(t, "usb_tcp", "kill usb_tcp", "look tcp_usb")
             \/ Kill(t, "tcp_usb", "kill tcp_usb", "ended")
    <3>1. UNCHANGED session /\ should_exit' = should_exit /\ pc[t] \in DonePlaces
      BY <2>4 DEF Kill, DonePlaces
    <3>2. \/ pc' = pc
          \/ \A u \in Threads \ {t} :
               pc'[u] = pc[u] \/ (pc[u] \in Reading \cup {"writing"} /\ pc'[u] = "stop")
      BY <1>0, <2>4 DEF Kill, Interrupt, TypeOK
    <3>3. pc'[t] # "unborn"
      BY <1>0, <3>1, <2>4 DEF Kill, Interrupt, TypeOK, DonePlaces
    <3>4. QED
      BY <1>0, <3>1, <3>2, <3>3 DEF DonePlaces
  <2>5. QED
    BY <1>1, <2>1, <2>2, <2>3, <2>4 DEF Proceeds
<1>2. CASE Receives(t) \/ WriteReturns(t)
  BY <1>0, <1>2
  DEF Receives, WriteReturns, ReadReturns, ReadHeaderPart, ReadHeader, ReadBodyPart,
      ReadBody, ReadSome, TypeOK, DonePlaces
<1>3. QED
  BY <1>1, <1>2 DEF ThreadStep

\* Who asks for the end goes on to its own, and nothing takes it back.
LEMMA AskingStays ==
    ASSUME IInv, NEW t \in Threads, ThreadStep(t)
    PROVE  /\ pc[t] \in DonePlaces => pc'[t] \in DonePlaces
           /\ should_exit' = should_exit \/ pc'[t] \in DonePlaces
<1> USE DEF ThreadOnly, JustMoves, ThreadAt, DonePlaces
<1>0. TypeOK
  BY DEF IInv
<1>1. CASE \/ Test(t) \/ Read(t) \/ TestRead(t) \/ EnterWrite(t) \/ WriteReturns(t)
           \/ WriteFails(t) \/ ReadFails(t)
  BY <1>0, <1>1
  DEF Test, Read, TestRead, EnterWrite, WriteReturns, WriteFails, ReadFails, TypeOK, Reading
<1>2. CASE StopForwarding(t)
  BY <1>0, <1>2 DEF StopForwarding, TypeOK
<1>3. CASE \/ Look(t, "usb_tcp", "look usb_tcp", "kill usb_tcp", "look tcp_usb")
           \/ Look(t, "tcp_usb", "look tcp_usb", "kill tcp_usb", "ended")
  BY <1>0, <1>3 DEF Look, TypeOK
<1>4. CASE \/ Kill(t, "usb_tcp", "kill usb_tcp", "look tcp_usb")
           \/ Kill(t, "tcp_usb", "kill tcp_usb", "ended")
  BY <1>0, <1>4 DEF Kill, Interrupt, TypeOK
<1>5. CASE Receives(t)
  <2>1. should_exit' = should_exit /\ pc[t] \in Reading
    BY <1>5
    DEF Receives, ReadReturns, ReadHeaderPart, ReadHeader, ReadBodyPart, ReadBody, ReadSome,
        Reading
  <2>2. QED
    BY <2>1 DEF Reading
<1>6. QED
  BY <1>1, <1>2, <1>3, <1>4, <1>5 DEF ThreadStep, Proceeds

LEMMA ExitStep ==
    ASSUME IInv, ExitInv, [Next]_vars
    PROVE  ExitInv' /\ (should_exit => should_exit')
<1>1. CASE OwnerStep
  <2>1. /\ should_exit' = should_exit /\ owner' # "start usb_tcp"
        /\ \A t \in Threads : pc'[t] = pc[t] \/ pc'[t] = "test"
    BY <1>1
    DEF OwnerStep, Start, SetMember, Join, Reset, Restore, Close, At, RestUnchanged, IInv, TypeOK
  <2>2. QED
    BY <2>1 DEF ExitInv, DonePlaces
<1>2. CASE \E t \in Threads : ThreadStep(t)
  <2>1. PICK t \in Threads : ThreadStep(t)
    BY <1>2
  <2>2. /\ UNCHANGED session /\ (should_exit => should_exit') /\ pc[t] # "unborn"
        /\ \A u \in Threads \ {t} :
             pc'[u] = pc[u] \/ (pc[u] \in Reading \cup {"writing"} /\ pc'[u] = "stop")
        /\ pc'[t] \in DonePlaces => should_exit'
    BY <2>1, OthersStay
  <2>3. \A u \in Threads : pc'[u] \in DonePlaces => should_exit'
    BY <2>2 DEF ExitInv, DonePlaces
  <2>4. owner' = "start usb_tcp" => t # "usb_tcp" /\ pc'["usb_tcp"] = "unborn"
    BY <2>2 DEF ExitInv, session, Threads, Reading
  <2>5. QED
    BY <2>2, <2>3, <2>4 DEF ExitInv
<1>3. CASE PeerGoes
  BY <1>3 DEF PeerGoes, ExitInv
<1>4. CASE UNCHANGED vars
  BY <1>4 DEF vars, session, ExitInv
<1>5. QED
  BY <1>1, <1>2, <1>3, <1>4 DEF Next, Over

LEMMA ExitAlways == Spec => [](IInv /\ ExitInv)
<1>1. Init => ExitInv
  BY DEF Init, ExitInv, DonePlaces, Threads
<1>2. IInv /\ ExitInv /\ [Next]_vars => ExitInv'
  BY ExitStep
<1>3. QED
  BY <1>1, <1>2, AlwaysIInv, PTL DEF Spec

\* The owner waits for the second thread, and undoes what it did, only when that
\* thread has been asked to stop: the first does not end without asking
\* (proxyHandler.cpp:124, 143-155, 203-220).
THEOREM SecondIsAskedToStop == Spec => [](owner \in AfterFirstJoin => should_exit)
<1>1. IInv /\ ExitInv => (owner \in AfterFirstJoin => should_exit)
  BY DEF IInv, JoinInv, ExitInv, DonePlaces, Threads
<1>2. QED
  BY <1>1, ExitAlways, PTL

-----------------------------------------------------------------------------
\* The steps a thread has left, at most, once should_exit is set: a message it has
\* begun may still be read to its end, in as many reads as there are units.
PlaceLeft(t) ==
    CASE pc[t] = "ended" -> 0
      [] pc[t] = "kill tcp_usb" -> 1
      [] pc[t] = "look tcp_usb" -> 2
      [] pc[t] = "kill usb_tcp" -> 3
      [] pc[t] = "look usb_tcp" -> 4
      [] pc[t] = "stop" -> 5
      [] pc[t] \in {"test", "got"} -> 6
      [] pc[t] \in {"unborn", "writing", "body"} -> 7
      [] pc[t] = "write" -> 8
      [] pc[t] = "blocked" -> 8 + BufferLen
      [] OTHER -> 9 + BufferLen + HeaderLength
ToRead(t) == IF t = "tcp_usb" /\ pc[t] \in Reading THEN want ELSE 0
ThreadLeft(t) == PlaceLeft(t) + ToRead(t)

OwnerLeft ==
    CASE owner = "start usb_tcp" -> 11
      [] owner = "set usb_tcp" -> 10
      [] owner = "start tcp_usb" -> 9
      [] owner = "set tcp_usb" -> 8
      [] owner = "join usb_tcp" -> 7
      [] owner = "reset usb_tcp" -> 6
      [] owner = "join tcp_usb" -> 5
      [] owner = "reset tcp_usb" -> 4
      [] owner = "restore" -> 3
      [] owner = "close usb" -> 2
      [] owner = "close tcp" -> 1
      [] OTHER -> 0

SessionLeft == OwnerLeft + ThreadLeft("usb_tcp") + ThreadLeft("tcp_usb")

LEMMA Lengths == BufferLen \in Nat /\ HeaderLength \in Nat
BY ForwardingAssumption

\* In a state of the right types, and in the next, what is left is a number.
LEMMA LeftCounts ==
    ASSUME TypeOK, TypeOK'
    PROVE  /\ OwnerLeft \in Nat /\ OwnerLeft' \in Nat
           /\ want \in Nat /\ want' \in Nat
           /\ \A t \in Threads :
                /\ PlaceLeft(t) \in Nat /\ PlaceLeft(t)' \in Nat
                /\ ToRead(t) \in Nat /\ ToRead(t)' \in Nat
                /\ ThreadLeft(t) \in Nat /\ ThreadLeft(t)' \in Nat
           /\ SessionLeft \in Nat
<1>1. OwnerLeft \in Nat /\ OwnerLeft' \in Nat
  BY DEF OwnerLeft
<1>2. want \in Nat /\ want' \in Nat
  BY WantedCounts DEF TypeOK
<1>3. ASSUME NEW t \in Threads
      PROVE  /\ PlaceLeft(t) \in Nat /\ PlaceLeft(t)' \in Nat
             /\ ToRead(t) \in Nat /\ ToRead(t)' \in Nat
  <2>1. /\ PlaceLeft(t) \in 0..8 \cup {8 + BufferLen, 9 + BufferLen + HeaderLength}
        /\ PlaceLeft(t)' \in 0..8 \cup {8 + BufferLen, 9 + BufferLen + HeaderLength}
    BY DEF PlaceLeft
  <2>2. PlaceLeft(t) \in Nat /\ PlaceLeft(t)' \in Nat
    BY <2>1, Lengths
  <2>3. ToRead(t) \in Nat /\ ToRead(t)' \in Nat
    BY <1>2 DEF ToRead
  <2>4. QED
    BY <2>2, <2>3
<1>4. \A t \in Threads : ThreadLeft(t) \in Nat /\ ThreadLeft(t)' \in Nat
  BY <1>3 DEF ThreadLeft
<1>5. SessionLeft \in Nat
  BY <1>1, <1>4 DEF SessionLeft, Threads
<1>6. QED
  BY <1>1, <1>2, <1>3, <1>4, <1>5

\* A step t takes that is seen by no other, and one that is seen by the others only
\* when it interrupts them.
Nears(t) ==
    /\ ThreadLeft(t)' < ThreadLeft(t)
    /\ \A u \in Threads \ {t} : ThreadLeft(u)' <= ThreadLeft(u)

\* A thread that goes on to a place nearer to its end, not in a read.
LEMMA MoveNears ==
    ASSUME TypeOK, TypeOK', NEW t \in Threads, \A u \in Threads \ {t} : pc'[u] = pc[u],
           pc'[t] \notin Reading, want' = want, PlaceLeft(t)' < PlaceLeft(t)
    PROVE  Nears(t)
<1>1. ToRead(t)' = 0
  BY DEF ToRead
<1>2. ThreadLeft(t)' < ThreadLeft(t)
  BY <1>1, LeftCounts DEF ThreadLeft
<1>3. \A u \in Threads \ {t} : ThreadLeft(u)' = ThreadLeft(u)
  BY DEF ThreadLeft, PlaceLeft, ToRead
<1>4. QED
  BY <1>2, <1>3, LeftCounts DEF Nears

\* So does one that reads on, of the phone's message or of the accessory.
LEMMA ReadNears ==
    ASSUME TypeOK, TypeOK', NEW t \in Threads, Read(t) \/ Receives(t)
    PROVE  Nears(t)
<1>0. want \in Nat /\ want' \in Nat
  BY LeftCounts
<1>1. CASE Read(t)
  <2>1. /\ pc[t] = "read" /\ pc'[t] = "blocked" /\ (\A u \in Threads \ {t} : pc'[u] = pc[u])
        /\ t = "tcp_usb" => want' = HeaderLength
        /\ t # "tcp_usb" => want' = want
    BY <1>1 DEF Read, ThreadAt, Source, Threads, TypeOK
  <2>2. ThreadLeft(t)' < ThreadLeft(t)
    <3>1. ToRead(t)' \in {0, HeaderLength} /\ ToRead(t) = 0
      BY <2>1 DEF ToRead, Reading
    <3>2. PlaceLeft(t) = 9 + BufferLen + HeaderLength /\ PlaceLeft(t)' = 8 + BufferLen
      BY <2>1 DEF PlaceLeft
    <3>3. QED
      BY <3>1, <3>2, Lengths DEF ThreadLeft
  <2>3. ASSUME NEW u \in Threads \ {t} PROVE ThreadLeft(u)' <= ThreadLeft(u)
    <3>1. PlaceLeft(u)' = PlaceLeft(u)
      BY <2>1 DEF PlaceLeft
    <3>2. ToRead(u)' = ToRead(u)
      BY <2>1 DEF ToRead
    <3>3. QED
      BY <3>1, <3>2, LeftCounts DEF ThreadLeft
  <2>4. QED
    BY <2>2, <2>3 DEF Nears
<1>2. CASE ReadReturns(t)
  <2>1. /\ pc[t] = "blocked" /\ pc'[t] = "got" /\ (\A u \in Threads \ {t} : pc'[u] = pc[u])
        /\ want' = want
    BY <1>2 DEF ReadReturns, ThreadAt, JustMoves, framing, TypeOK
  <2>2. PlaceLeft(t) = 8 + BufferLen /\ PlaceLeft(t)' = 6
    BY <2>1 DEF PlaceLeft
  <2>3. PlaceLeft(t)' < PlaceLeft(t) /\ pc'[t] \notin Reading
    BY <2>1, <2>2, Lengths DEF Reading
  <2>4. QED
    BY <2>1, <2>3, MoveNears
<1>3. CASE ReadHeaderPart(t) \/ ReadHeader(t) \/ ReadBodyPart(t) \/ ReadBody(t)
  <2>1. t = "tcp_usb"
    BY <1>3 DEF ReadHeaderPart, ReadHeader, ReadBodyPart, ReadBody, ReadSome, Source, Threads
  <2>2. /\ \A u \in Threads \ {t} : pc'[u] = pc[u]
        /\ \/ /\ pc'[t] = pc[t] /\ pc[t] \in Reading
              /\ want' < want
           \/ /\ pc[t] = "blocked" /\ pc'[t] = "stop"
           \/ /\ pc[t] = "blocked" /\ pc'[t] = "body"
              /\ want' <= BufferLen
           \/ pc[t] = "body" /\ pc'[t] = "got"
    <3>1. CASE ReadHeaderPart(t) \/ ReadBodyPart(t)
      <4>1. PICK n \in 1..want, step \in Reading : ReadSome(t, step, n)
        BY <3>1 DEF ReadHeaderPart, ReadBodyPart, Reading
      <4>2. want' = want - n /\ pc' = pc /\ pc[t] = step
        BY <4>1 DEF ReadSome
      <4>3. want' < want
        BY <1>0, <4>2
      <4>4. QED
        BY <4>2, <4>3
    <3>2. CASE ReadHeader(t)
      <4>1. PICK first \in BOOLEAN, body \in 0..BufferLen :
              LET length == MessageLength(first, body) IN
              IF ~Fits(length) \/ length = 0
              THEN ThreadAt(t, "blocked", "stop") /\ want' = 0
              ELSE ThreadAt(t, "blocked", "body") /\ want' = length
        BY <3>2 DEF ReadHeader
      <4>2. MessageLength(first, body) \in Nat
        BY ForwardingAssumption DEF MessageLength
      <4>3. \/ ThreadAt(t, "blocked", "stop")
            \/ ThreadAt(t, "blocked", "body") /\ want' <= BufferLen
        BY <4>1, <4>2, WantedCounts
      <4>4. QED
        BY <4>3 DEF ThreadAt, TypeOK
    <3>3. CASE ReadBody(t)
      BY <3>3 DEF ReadBody, ThreadAt, TypeOK
    <3>4. QED
      BY <1>3, <3>1, <3>2, <3>3
  <2>3. ThreadLeft(t)' < ThreadLeft(t)
    <3>1. CASE pc'[t] = pc[t] /\ pc[t] \in Reading /\ want' < want
      <4>1. ToRead(t) = want /\ ToRead(t)' = want' /\ PlaceLeft(t)' = PlaceLeft(t)
        BY <2>1, <3>1 DEF ToRead, PlaceLeft
      <4>2. QED
        BY <3>1, <4>1, LeftCounts DEF ThreadLeft
    <3>2. CASE \/ pc[t] = "blocked" /\ pc'[t] = "stop"
               \/ pc[t] = "body" /\ pc'[t] = "got"
      <4>1. ToRead(t) = want /\ ToRead(t)' = 0
        BY <2>1, <3>2 DEF ToRead, Reading
      <4>2. PlaceLeft(t)' < PlaceLeft(t)
        <5>1. PlaceLeft(t) \in {7, 8 + BufferLen} /\ PlaceLeft(t)' \in {5, 6}
          BY <3>2 DEF PlaceLeft
        <5>2. QED
          BY <5>1, Lengths
      <4>3. QED
        BY <1>0, <4>1, <4>2, LeftCounts DEF ThreadLeft
    <3>3. CASE pc[t] = "blocked" /\ pc'[t] = "body" /\ want' <= BufferLen
      <4>1. ToRead(t) = want /\ ToRead(t)' = want'
        BY <2>1, <3>3 DEF ToRead, Reading
      <4>2. PlaceLeft(t) = 8 + BufferLen /\ PlaceLeft(t)' = 7
        BY <3>3 DEF PlaceLeft
      <4>3. QED
        <5>1. ThreadLeft(t) = (8 + BufferLen) + want /\ ThreadLeft(t)' = 7 + want'
          BY <4>1, <4>2 DEF ThreadLeft
        <5>2. want' <= BufferLen
          BY <3>3
        <5>3. ASSUME NEW m \in Nat, NEW n \in Nat, n <= BufferLen
              PROVE  7 + n < (8 + BufferLen) + m
          BY <5>3, Lengths
        <5>4. QED
          BY <1>0, <5>1, <5>2, <5>3
    <3>4. QED
      BY <2>2, <3>1, <3>2, <3>3
  <2>4. \A u \in Threads \ {t} : ThreadLeft(u)' = ThreadLeft(u)
    BY <2>1, <2>2 DEF ThreadLeft, PlaceLeft, ToRead
  <2>5. QED
    BY <2>3, <2>4, LeftCounts DEF Nears
<1>4. QED
  BY <1>1, <1>2, <1>3 DEF Receives

\* A step from one place to another without a read.
Moves(t) ==
    \/ Test(t) \/ TestRead(t) \/ EnterWrite(t) \/ WriteReturns(t)
    \/ ReadFails(t) \/ StopForwarding(t)

LEMMA PlaceNears ==
    ASSUME TypeOK, TypeOK', should_exit, NEW t \in Threads,
           Moves(t)
    PROVE  Nears(t)
<1>1. /\ \A u \in Threads \ {t} : pc'[u] = pc[u]
      /\ want' = want
      /\ \/ pc[t] \in {"test", "got"} \cup Reading /\ pc'[t] = "stop"
         \/ pc[t] = "write" /\ pc'[t] = "writing"
         \/ pc[t] = "writing" /\ pc'[t] = "test"
         \/ pc[t] = "stop" /\ pc'[t] = "look usb_tcp"
  <2>1. CASE Test(t) \/ TestRead(t) \/ ReadFails(t)
    BY <2>1 DEF Test, TestRead, ReadFails, ThreadAt, JustMoves, framing, TypeOK
  <2>2. CASE EnterWrite(t) \/ WriteReturns(t)
    BY <2>2 DEF EnterWrite, WriteReturns, ThreadAt, JustMoves, framing, TypeOK
  <2>3. CASE StopForwarding(t)
    BY <2>3 DEF StopForwarding, ThreadAt, framing, TypeOK
  <2>4. QED
    BY <2>1, <2>2, <2>3 DEF Moves
<1>2. \/ PlaceLeft(t) \in {6, 7, 8 + BufferLen} /\ PlaceLeft(t)' = 5
      \/ PlaceLeft(t) = 8 /\ PlaceLeft(t)' = 7
      \/ PlaceLeft(t) = 7 /\ PlaceLeft(t)' = 6
      \/ PlaceLeft(t) = 5 /\ PlaceLeft(t)' = 4
  BY <1>1 DEF PlaceLeft, Reading
<1>3. PlaceLeft(t)' < PlaceLeft(t)
  BY <1>2, Lengths
<1>4. pc'[t] \notin Reading
  BY <1>1 DEF Reading
<1>5. QED
  BY <1>1, <1>3, <1>4, MoveNears

\* Looking for the threads to signal, and signalling one, which may interrupt it.
Looks(t) ==
    \/ Look(t, "usb_tcp", "look usb_tcp", "kill usb_tcp", "look tcp_usb")
    \/ Look(t, "tcp_usb", "look tcp_usb", "kill tcp_usb", "ended")
Kills(t) ==
    \/ Kill(t, "usb_tcp", "kill usb_tcp", "look tcp_usb")
    \/ Kill(t, "tcp_usb", "kill tcp_usb", "ended")

LEMMA LookNears ==
    ASSUME TypeOK, TypeOK', NEW t \in Threads, Looks(t)
    PROVE  Nears(t)
<1>1. /\ \A u \in Threads \ {t} : pc'[u] = pc[u]
      /\ want' = want
      /\ \/ pc[t] = "look usb_tcp" /\ pc'[t] \in {"kill usb_tcp", "look tcp_usb"}
         \/ pc[t] = "look tcp_usb" /\ pc'[t] \in {"kill tcp_usb", "ended"}
  BY DEF Looks, Look, ThreadAt, JustMoves, framing, TypeOK
<1>2. \/ PlaceLeft(t) = 4 /\ PlaceLeft(t)' \in {2, 3}
      \/ PlaceLeft(t) = 2 /\ PlaceLeft(t)' \in {0, 1}
  BY <1>1 DEF PlaceLeft
<1>3. PlaceLeft(t)' < PlaceLeft(t)
  BY <1>2, LeftCounts
<1>4. pc'[t] \notin Reading
  BY <1>1 DEF Reading
<1>5. QED
  BY <1>1, <1>3, <1>4, MoveNears

LEMMA KillNears ==
    ASSUME TypeOK, TypeOK', NEW t \in Threads, fate' = "running", fate = "running", Kills(t)
    PROVE  Nears(t)
<1>1. /\ want' = want
      /\ \/ pc[t] = "kill usb_tcp" /\ pc'[t] = "look tcp_usb"
         \/ pc[t] = "kill tcp_usb" /\ pc'[t] = "ended"
      /\ \A u \in Threads \ {t} :
           pc'[u] = pc[u] \/ (pc[u] \in Reading \cup {"writing"} /\ pc'[u] = "stop")
  BY DEF Kills, Kill, Interrupt, framing, TypeOK
<1>2. ToRead(t) = 0 /\ ToRead(t)' = 0
  BY <1>1 DEF ToRead, Reading
<1>3. \/ PlaceLeft(t) = 3 /\ PlaceLeft(t)' = 2
      \/ PlaceLeft(t) = 1 /\ PlaceLeft(t)' = 0
  BY <1>1 DEF PlaceLeft
<1>4. ThreadLeft(t)' < ThreadLeft(t)
  <2>1. \/ ThreadLeft(t) = 3 /\ ThreadLeft(t)' = 2
        \/ ThreadLeft(t) = 1 /\ ThreadLeft(t)' = 0
    BY <1>2, <1>3 DEF ThreadLeft
  <2>2. QED
    BY <2>1
<1>5. ASSUME NEW u \in Threads \ {t} PROVE ThreadLeft(u)' <= ThreadLeft(u)
  <2>1. CASE pc'[u] = pc[u]
    <3>1. ThreadLeft(u)' = ThreadLeft(u)
      BY <1>1, <2>1 DEF ThreadLeft, PlaceLeft, ToRead
    <3>2. ThreadLeft(u) \in Nat
      BY LeftCounts
    <3>3. QED
      BY <3>1, <3>2
  <2>2. CASE pc[u] \in Reading \cup {"writing"} /\ pc'[u] = "stop"
    <3>1. PlaceLeft(u) \in {7, 8 + BufferLen} /\ PlaceLeft(u)' = 5
      BY <2>2 DEF PlaceLeft, Reading
    <3>2. ToRead(u)' = 0 /\ ToRead(u) \in Nat
      BY <2>2, LeftCounts DEF ToRead, Reading
    <3>3. QED
      <4>1. PlaceLeft(u)' < PlaceLeft(u)
        BY <3>1, Lengths
      <4>2. QED
        BY <3>2, <4>1, LeftCounts DEF ThreadLeft
  <2>3. QED
    BY <1>1, <2>1, <2>2
<1>6. QED
  BY <1>4, <1>5 DEF Nears

LEMMA ThreadNears ==
    ASSUME TypeOK, TypeOK', should_exit, NEW t \in Threads, ThreadStep(t), fate' = "running"
    PROVE  Nears(t)
<1>0. fate = "running"
  BY DEF ThreadStep
<1>1. CASE Read(t) \/ Receives(t)
  BY <1>1, ReadNears
<1>2. CASE Moves(t)
  BY <1>2, PlaceNears
<1>3. CASE WriteFails(t)
  <2>1. /\ pc[t] = "writing" /\ pc'[t] = "stop" /\ want' = want
        /\ \A u \in Threads \ {t} : pc'[u] = pc[u]
    BY <1>3 DEF WriteFails, ThreadAt, framing, TypeOK
  <2>2. PlaceLeft(t) = 7 /\ PlaceLeft(t)' = 5
    BY <2>1 DEF PlaceLeft
  <2>3. PlaceLeft(t)' < PlaceLeft(t) /\ pc'[t] \notin Reading
    BY <2>1, <2>2 DEF Reading
  <2>4. QED
    BY <2>1, <2>3, MoveNears
<1>4. CASE Looks(t)
  BY <1>4, LookNears
<1>5. CASE Kills(t)
  BY <1>0, <1>5, KillNears
<1>6. QED
  BY <1>1, <1>2, <1>3, <1>4, <1>5 DEF ThreadStep, Proceeds, Moves, Looks, Kills

\* The owner goes on to its next step; it starts a thread that is not there yet.
LEMMA OwnerNears ==
    ASSUME IInv, IInv', ExitInv, OwnerStep
    PROVE  /\ OwnerLeft' < OwnerLeft
           /\ \A t \in Threads : ThreadLeft(t)' <= ThreadLeft(t)
<1>0. TypeOK /\ TypeOK'
  BY DEF IInv
<1>1. OwnerLeft' < OwnerLeft
  <2>1. CASE Start("usb_tcp", "start usb_tcp", "set usb_tcp")
    <3>1. OwnerLeft = 11 /\ OwnerLeft' = 10
      BY <2>1 DEF Start, At, OwnerLeft
    <3>2. QED
      BY <3>1
  <2>2. CASE SetMember("usb_tcp", "set usb_tcp", "start tcp_usb")
    <3>1. OwnerLeft = 10 /\ OwnerLeft' = 9
      BY <2>2 DEF SetMember, At, OwnerLeft
    <3>2. QED
      BY <3>1
  <2>3. CASE Start("tcp_usb", "start tcp_usb", "set tcp_usb")
    <3>1. OwnerLeft = 9 /\ OwnerLeft' = 8
      BY <2>3 DEF Start, At, OwnerLeft
    <3>2. QED
      BY <3>1
  <2>4. CASE SetMember("tcp_usb", "set tcp_usb", "join usb_tcp")
    <3>1. OwnerLeft = 8 /\ OwnerLeft' = 7
      BY <2>4 DEF SetMember, At, OwnerLeft
    <3>2. QED
      BY <3>1
  <2>5. CASE Join("usb_tcp", "join usb_tcp", "reset usb_tcp")
    <3>1. OwnerLeft = 7 /\ OwnerLeft' = 6
      BY <2>5 DEF Join, At, OwnerLeft
    <3>2. QED
      BY <3>1
  <2>6. CASE Reset("usb_tcp", "reset usb_tcp", "join tcp_usb")
    <3>1. OwnerLeft = 6 /\ OwnerLeft' = 5
      BY <2>6 DEF Reset, At, OwnerLeft
    <3>2. QED
      BY <3>1
  <2>7. CASE Join("tcp_usb", "join tcp_usb", "reset tcp_usb")
    <3>1. OwnerLeft = 5 /\ OwnerLeft' = 4
      BY <2>7 DEF Join, At, OwnerLeft
    <3>2. QED
      BY <3>1
  <2>8. CASE Reset("tcp_usb", "reset tcp_usb", "restore")
    <3>1. OwnerLeft = 4 /\ OwnerLeft' = 3
      BY <2>8 DEF Reset, At, OwnerLeft
    <3>2. QED
      BY <3>1
  <2>9. CASE Restore
    <3>1. OwnerLeft = 3 /\ OwnerLeft' = 2
      BY <2>9 DEF Restore, At, OwnerLeft
    <3>2. QED
      BY <3>1
  <2>10. CASE Close("usb", "close usb", "close tcp")
    <3>1. OwnerLeft = 2 /\ OwnerLeft' = 1
      BY <2>10 DEF Close, At, OwnerLeft
    <3>2. QED
      BY <3>1
  <2>11. CASE Close("tcp", "close tcp", "returned")
    <3>1. OwnerLeft = 1 /\ OwnerLeft' = 0
      BY <2>11 DEF Close, At, OwnerLeft
    <3>2. QED
      BY <3>1
  <2>12. QED
    BY <2>1, <2>2, <2>3, <2>4, <2>5, <2>6, <2>7, <2>8, <2>9, <2>10, <2>11 DEF OwnerStep
<1>3. ASSUME NEW t \in Threads PROVE ThreadLeft(t)' <= ThreadLeft(t)
  <2>1. want' = want /\ (pc'[t] = pc[t] \/ (pc[t] = "unborn" /\ pc'[t] = "test"))
    BY DEF OwnerStep, Start, SetMember, Join, Reset, Restore, Close, At, RestUnchanged,
           framing, IInv, TypeOK, JoinInv, BeforeTcpStart, ExitInv, Threads
  <2>2. CASE pc'[t] = pc[t]
    <3>1. ThreadLeft(t)' = ThreadLeft(t)
      BY <2>1, <2>2 DEF ThreadLeft, PlaceLeft, ToRead
    <3>2. QED
      BY <1>0, <3>1, LeftCounts
  <2>3. CASE pc[t] = "unborn" /\ pc'[t] = "test"
    <3>1. PlaceLeft(t) = 7 /\ PlaceLeft(t)' = 6 /\ ToRead(t) = 0 /\ ToRead(t)' = 0
      BY <2>3 DEF PlaceLeft, ToRead, Reading
    <3>2. QED
      BY <3>1 DEF ThreadLeft
  <2>4. QED
    BY <2>1, <2>2, <2>3
<1>4. QED
  BY <1>1, <1>3

\* What every step of a session that is told to end does: should_exit stays set, a
\* step of the owner or of a thread makes the steps left fewer, and a peer that goes
\* adds none.
EndsNearer ==
    should_exit =>
        /\ should_exit' /\ SessionLeft \in Nat
        /\ OwnerStep \/ (\E t \in Threads : ThreadStep(t)) =>
               SessionLeft' < SessionLeft \/ fate' # "running"
        /\ PeerGoes => SessionLeft' = SessionLeft

\* Once one direction has set should_exit, in whatever place of its loop the signal
\* finds the other direction, the session is the nearer to its end the more its
\* threads do: with threads that run it can only end, or wait for the accessory
\* (proxyHandler.cpp:106-155, 183-220).
THEOREM SessionNearsEnd == Spec => [][EndsNearer]_vars
<1> DEFINE U == ThreadLeft("usb_tcp")
           T == ThreadLeft("tcp_usb")
<1>1. ASSUME IInv, ExitInv, Next, should_exit PROVE EndsNearer
  <2>1. should_exit' /\ IInv'
    BY <1>1, ExitStep, IInvKept
  <2>2. TypeOK /\ TypeOK' /\ "usb_tcp" \in Threads /\ "tcp_usb" \in Threads
    BY <1>1, <2>1 DEF IInv, Threads
  <2>3. /\ OwnerLeft \in Nat /\ U \in Nat /\ T \in Nat /\ SessionLeft \in Nat
        /\ OwnerLeft' \in Nat /\ U' \in Nat /\ T' \in Nat
    BY <2>2, LeftCounts
  <2>4. ASSUME NEW a \in Nat, NEW b \in Nat, NEW c \in Nat,
               NEW x \in Nat, NEW y \in Nat, NEW z \in Nat,
               x <= a, y <= b, z <= c, x < a \/ y < b \/ z < c
        PROVE  x + y + z < a + b + c
    BY <2>4
  <2>5. /\ OwnerLeft' <= OwnerLeft /\ U' <= U /\ T' <= T
        /\ OwnerLeft' < OwnerLeft \/ U' < U \/ T' < T
        => SessionLeft' < SessionLeft
    BY <2>3, <2>4 DEF SessionLeft
  <2>6. CASE OwnerStep
    <3>1. OwnerLeft' < OwnerLeft /\ U' <= U /\ T' <= T
      BY <1>1, <2>1, <2>2, <2>6, OwnerNears
    <3>2. OwnerLeft' <= OwnerLeft
      BY <2>3, <3>1
    <3>3. ~PeerGoes
      BY <2>6 DEF PeerGoes, OwnerStep, Start, SetMember, Join, Reset, Restore, Close, At
    <3>4. QED
      BY <2>1, <2>3, <2>5, <3>1, <3>2, <3>3 DEF EndsNearer
  <2>7. CASE \E t \in Threads : ThreadStep(t)
    <3>1. PICK t \in Threads : ThreadStep(t)
      BY <2>7
    <3>2. owner' = owner /\ phone' = phone /\ host' = host
      BY <1>1, <3>1, OthersStay DEF session
    <3>3. ~PeerGoes
      BY <3>2 DEF PeerGoes
    <3>4. OwnerLeft' <= OwnerLeft
      BY <2>3, <3>2 DEF OwnerLeft
    <3>5. CASE fate' = "running"
      <4>1. Nears(t)
        BY <1>1, <2>2, <3>1, <3>5, ThreadNears
      <4>2. U' <= U /\ T' <= T /\ (U' < U \/ T' < T)
        BY <2>2, <2>3, <4>1 DEF Nears, Threads
      <4>3. QED
        BY <2>1, <2>3, <2>5, <3>3, <3>4, <4>2 DEF EndsNearer
    <3>6. CASE fate' # "running"
      BY <2>1, <2>3, <3>3, <3>6 DEF EndsNearer
    <3>7. QED
      BY <3>5, <3>6
  <2>8. CASE ~OwnerStep /\ ~(\E t \in Threads : ThreadStep(t))
    <3>1. PeerGoes => OwnerLeft' = OwnerLeft /\ U' = U /\ T' = T
      BY DEF PeerGoes, framing, OwnerLeft, ThreadLeft, PlaceLeft, ToRead
    <3>2. PeerGoes => SessionLeft' = SessionLeft
      BY <3>1 DEF SessionLeft
    <3>3. QED
      BY <2>1, <2>3, <2>8, <3>2 DEF EndsNearer
  <2>9. QED
    BY <2>6, <2>7, <2>8
<1>2. IInv /\ ExitInv /\ [Next]_vars => [EndsNearer]_vars
  BY <1>1 DEF EndsNearer
<1>3. QED
  BY <1>2, ExitAlways, PTL DEF Spec
-----------------------------------------------------------------------------
\* The calls the code sets no limit to: the read of an accessory whose host is there,
\* and a write to a peer that is there. In every other place of its loop a thread has
\* a step that waits for nobody (a read of the phone times out).
Waits(t) ==
    \/ t = "usb_tcp" /\ pc[t] = "blocked" /\ host
    \/ pc[t] = "writing" /\ Reachable(Sink(t))
Stays(t) == pc[t] \in {"unborn", "ended"} \/ Waits(t)

\* The owner waits in a join.
Joins(t) ==
    \/ owner = "join usb_tcp" /\ t = "usb_tcp"
    \/ owner = "join tcp_usb" /\ t = "tcp_usb"
OwnerStays == \E t \in Threads : Joins(t) /\ pc[t] # "ended"

\* Nobody in the session can go on by itself.
Stuck == OwnerStays /\ \A t \in Threads : Stays(t)

OnlyPeersAreWaitedFor ==
    Stuck =>
        \A t \in Threads :
            IF Joins(t) \/ ~should_exit THEN Waits(t) ELSE pc[t] = "ended"

\* A thread the owner joins has been started.
BornInv ==
    /\ owner # "start usb_tcp" => pc["usb_tcp"] # "unborn"
    /\ owner \notin BeforeTcpStart => pc["tcp_usb"] # "unborn"

\* The direction that set should_exit goes on to its end.
AskedInv == should_exit => \E t \in Threads : pc[t] \in DonePlaces

LEMMA BornStep ==
    ASSUME IInv, ExitInv, BornInv, [Next]_vars
    PROVE  BornInv'
<1>1. CASE OwnerStep
  BY <1>1
  DEF OwnerStep, Start, SetMember, Join, Reset, Restore, Close, At, BornInv, BeforeTcpStart,
      IInv, TypeOK, Threads
<1>2. CASE \E t \in Threads : ThreadStep(t)
  <2>1. PICK t \in Threads : ThreadStep(t)
    BY <1>2
  <2>2. \A u \in Threads : pc[u] # "unborn" => pc'[u] # "unborn"
    BY <2>1, OthersStay
  <2>3. owner' = owner
    BY <2>1, OthersStay DEF session
  <2>4. QED
    BY <2>2, <2>3 DEF BornInv, Threads
<1>3. CASE PeerGoes
  BY <1>3 DEF PeerGoes, BornInv
<1>4. CASE UNCHANGED vars
  BY <1>4 DEF vars, session, BornInv
<1>5. QED
  BY <1>1, <1>2, <1>3, <1>4 DEF Next, Over

LEMMA AskedStep ==
    ASSUME IInv, ExitInv, AskedInv, [Next]_vars
    PROVE  AskedInv'
<1>1. CASE OwnerStep
  <2>1. /\ should_exit' = should_exit
        /\ \A t \in Threads : pc'[t] = pc[t] \/ pc[t] = "unborn"
    BY <1>1
    DEF OwnerStep, Start, SetMember, Join, Reset, Restore, Close, At, RestUnchanged, IInv,
        TypeOK, JoinInv, BeforeTcpStart, ExitInv, Threads
  <2>2. QED
    BY <2>1 DEF AskedInv, DonePlaces
<1>2. CASE \E t \in Threads : ThreadStep(t)
  <2>1. PICK t \in Threads : ThreadStep(t)
    BY <1>2
  <2>2. /\ \A u \in Threads : pc[u] \in DonePlaces => pc'[u] \in DonePlaces
        /\ should_exit' = should_exit \/ pc'[t] \in DonePlaces
    BY <2>1, OthersStay, AskingStays DEF DonePlaces, Reading
  <2>3. QED
    BY <2>2 DEF AskedInv
<1>3. CASE PeerGoes
  BY <1>3 DEF PeerGoes, AskedInv
<1>4. CASE UNCHANGED vars
  BY <1>4 DEF vars, AskedInv
<1>5. QED
  BY <1>1, <1>2, <1>3, <1>4 DEF Next, Over

\* The threads and the owner never wait for each other. When nobody in a session can
\* go on, the thread the owner joins is in one of three calls whose peer is there: the
\* read of the accessory, or a write to either peer (proxyHandler.cpp:98, 120). Once
\* should_exit is set the other thread has ended, so that both never hang: one call
\* that a signal missed is all a session that was told to end can hang on; and the
\* direction that reads the phone hangs on nothing but its write (proxyHandler.cpp:
\* 106-155, 183-212).
THEOREM HangsInOneCall == Spec => []OnlyPeersAreWaitedFor
<1>1. Init => BornInv /\ AskedInv
  BY DEF Init, BornInv, AskedInv, BeforeTcpStart
<1>2. IInv /\ ExitInv /\ BornInv /\ AskedInv /\ [Next]_vars => BornInv' /\ AskedInv'
  BY BornStep, AskedStep
<1>3. IInv /\ ExitInv /\ BornInv /\ AskedInv => OnlyPeersAreWaitedFor
  <2> SUFFICES ASSUME IInv, ExitInv, BornInv, AskedInv, Stuck, NEW t \in Threads
               PROVE  IF Joins(t) \/ ~should_exit THEN Waits(t) ELSE pc[t] = "ended"
    BY DEF OnlyPeersAreWaitedFor
  <2>1. PICK j \in Threads : Joins(j) /\ pc[j] # "ended"
    BY DEF Stuck, OwnerStays
  <2>2. \A u \in Threads : pc[u] # "unborn" /\ (Joins(u) => u = j)
    BY <2>1 DEF BornInv, Joins, BeforeTcpStart, Threads
  <2>3. \A u \in Threads : pc[u] = "ended" \/ Waits(u)
    BY <2>2 DEF Stuck, Stays
  <2>4. CASE Joins(t)
    BY <2>1, <2>2, <2>3, <2>4
  <2>5. CASE ~should_exit
    BY <2>3, <2>5 DEF ExitInv, DonePlaces
  <2>6. CASE ~Joins(t) /\ should_exit
    <3>1. PICK u \in Threads : pc[u] \in DonePlaces
      BY <2>6 DEF AskedInv
    <3>2. pc[u] = "ended"
      BY <2>3, <3>1 DEF Waits, DonePlaces
    <3>3. u # j /\ t # j
      BY <2>1, <2>6, <3>2
    <3>4. u = t
      BY <3>3 DEF Threads
    <3>5. QED
      BY <2>6, <3>2, <3>4
  <2>7. QED
    BY <2>4, <2>5, <2>6
<1>4. QED
  BY <1>1, <1>2, <1>3, ExitAlways, PTL DEF Spec
=============================================================================
