---------------------------- MODULE LauncherProofs ----------------------------
(***************************************************************************)
(* Theorems about Launcher, for any number of connections, descriptors and *)
(* messages.                                                               *)
(***************************************************************************)
EXTENDS Launcher, FiniteSetTheorems, TLAPS

Has(s, m) == \E i \in DOMAIN s : s[i] = m
Sent(l, m) == Has(wire[l], m)

\* The threads that run.
Running == {l \in Links : launcher[l] # "none"}

\* No thread without a phone that has come, no half message before it goes.
PhoneInv(l) ==
    /\ phone[l] = "away" => launcher[l] = "none"
    /\ Here(l) => Len(wire[l]) <= MaxWire /\ ~Sent(l, "cut")

\* Who is told the credentials, or is about to be, has asked.
AskedInv(l) ==
    Here(l) /\ (Sent(l, "InfoRequest") \/ launcher[l] = "reply" \/ "info" \in told[l]) =>
        phone[l] \in {"asked", "started"}

\* How far a phone that follows the protocol is, by the state of its thread.
PoliteInv(l) ==
    polite[l] /\ Here(l) =>
        /\ outcome[l] # "aborted"
        /\ launcher[l] = "hello" => told[l] = {}
        /\ launcher[l] \in {"hello", "first", "reply"} => "info" \notin told[l]
        /\ phone[l] = "new" => wire[l] = <<>> /\ launcher[l] # "drain"
        /\ phone[l] = "asked" /\ launcher[l] = "first" => wire[l] = <<"InfoRequest">>
        /\ phone[l] = "asked" /\ launcher[l] = "reply" => wire[l] = <<>>
        /\ launcher[l] = "hello" => phone[l] = "new"
        /\ phone[l] = "started" => "info" \in told[l]

LinkInv(l) == PhoneInv(l) /\ AskedInv(l) /\ PoliteInv(l)

IInv == TypeOK /\ DescriptorsFollowThreads /\ \A l \in Links : LinkInv(l)

-----------------------------------------------------------------------------
\* A message more, and a message less.
LEMMA HasAppend ==
    ASSUME NEW s \in Seq(Messages), NEW x \in Messages
    PROVE  /\ Append(s, x) \in Seq(Messages) /\ Len(Append(s, x)) = Len(s) + 1
           /\ \A m : Has(Append(s, x), m) <=> Has(s, m) \/ m = x
<1> DEFINE t == Append(s, x)
<1>1. /\ t \in Seq(Messages) /\ Len(t) = Len(s) + 1 /\ Len(s) \in Nat
      /\ DOMAIN s = 1..Len(s) /\ DOMAIN t = 1..(Len(s) + 1)
      /\ \A i \in 1..Len(s) : t[i] = s[i]
      /\ t[Len(s) + 1] = x
  OBVIOUS
<1>2. /\ \A i \in DOMAIN t : i \in DOMAIN s \/ i = Len(s) + 1
      /\ \A i \in DOMAIN s : i \in DOMAIN t
      /\ Len(s) + 1 \in DOMAIN t
  BY <1>1
<1>3. \A m : Has(t, m) <=> Has(s, m) \/ m = x
  BY <1>1, <1>2 DEF Has
<1>4. QED
  BY <1>1, <1>3

LEMMA HasTail ==
    ASSUME NEW s \in Seq(Messages), s # <<>>
    PROVE  /\ Tail(s) \in Seq(Messages) /\ Len(Tail(s)) = Len(s) - 1 /\ Len(s) \in Nat
           /\ Head(s) \in Messages /\ Has(s, Head(s))
           /\ \A m : Has(Tail(s), m) => Has(s, m)
<1>1. /\ Tail(s) \in Seq(Messages) /\ Len(Tail(s)) = Len(s) - 1
      /\ Len(s) \in Nat /\ Len(s) >= 1
      /\ DOMAIN s = 1..Len(s) /\ DOMAIN Tail(s) = 1..(Len(s) - 1)
      /\ \A i \in 1..(Len(s) - 1) : Tail(s)[i] = s[i + 1]
      /\ Head(s) = s[1] /\ Head(s) \in Messages
  OBVIOUS
<1>2. 1 \in DOMAIN s /\ (\A i \in DOMAIN Tail(s) : i + 1 \in DOMAIN s)
  BY <1>1
<1>3. Has(s, Head(s))
  BY <1>1, <1>2 DEF Has
<1>4. \A m : Has(Tail(s), m) => Has(s, m)
  BY <1>1, <1>2 DEF Has
<1>5. QED
  BY <1>1, <1>3, <1>4

\* The first of the waiting messages, and the others, of a link.
LEMMA WireTail ==
    ASSUME TypeOK, NEW l \in Links, wire[l] # <<>>
    PROVE  /\ Tail(wire[l]) \in Seq(Messages)
           /\ \A n \in Nat : Len(wire[l]) <= n => Len(Tail(wire[l])) <= n
           /\ Head(wire[l]) \in Messages /\ Sent(l, Head(wire[l]))
           /\ \A m : Has(Tail(wire[l]), m) => Sent(l, m)
<1>1. wire[l] \in Seq(Messages)
  BY DEF TypeOK
<1>2. QED
  BY <1>1, HasTail DEF Sent

\* A step of one link disturbs no other.
Same(k) ==
    /\ launcher'[k] = launcher[k] /\ phone'[k] = phone[k] /\ polite'[k] = polite[k]
    /\ told'[k] = told[k] /\ wire'[k] = wire[k] /\ outcome'[k] = outcome[k]

LEMMA OneLink ==
    ASSUME IInv, NEW l \in Links, \A k \in Links \ {l} : Same(k),
           TypeOK', DescriptorsFollowThreads', LinkInv(l)'
    PROVE  IInv'
<1>1. ASSUME NEW k \in Links, k # l PROVE LinkInv(k)'
  <2>1. Same(k) /\ LinkInv(k)
    BY <1>1 DEF IInv
  <2>2. (Here(k)' <=> Here(k)) /\ (\A m : Sent(k, m)' <=> Sent(k, m))
    BY <2>1 DEF Same, Here, Sent, Has
  <2>3. PhoneInv(k)' /\ AskedInv(k)'
    BY <2>1, <2>2 DEF Same, LinkInv, PhoneInv, AskedInv
  <2>4. PoliteInv(k)'
    BY <2>1, <2>2 DEF Same, LinkInv, PoliteInv
  <2>5. QED
    BY <2>3, <2>4 DEF LinkInv
<1>2. QED
  BY <1>1 DEF IInv

\* Threads and descriptors: none, one more, one less.
LEMMA RunningFinite == IsFiniteSet(Running) /\ Cardinality(Running) \in Nat
<1>1. IsFiniteSet(Links) /\ Running \subseteq Links
  BY LauncherAssumption DEF Running
<1>2. QED
  BY <1>1, FS_Subset, FS_CardinalityType

LEMMA CountSame ==
    ASSUME DescriptorsFollowThreads, fds' = fds,
           \A k \in Links : launcher'[k] # "none" <=> launcher[k] # "none"
    PROVE  DescriptorsFollowThreads'
BY DEF DescriptorsFollowThreads

LEMMA CountUp ==
    ASSUME DescriptorsFollowThreads, fds' = fds + 1, NEW l \in Links,
           launcher[l] = "none", launcher'[l] # "none",
           \A k \in Links \ {l} : launcher'[k] = launcher[k]
    PROVE  DescriptorsFollowThreads'
<1>1. Running' = Running \cup {l} /\ l \notin Running
  BY DEF Running
<1>2. Cardinality(Running') = Cardinality(Running) + 1
  BY <1>1, RunningFinite, FS_AddElement
<1>3. QED
  BY <1>2 DEF DescriptorsFollowThreads, Running

LEMMA CountDown ==
    ASSUME DescriptorsFollowThreads, fds' = fds - 1, NEW l \in Links,
           launcher[l] # "none", launcher'[l] = "none",
           \A k \in Links \ {l} : launcher'[k] = launcher[k]
    PROVE  DescriptorsFollowThreads' /\ fds' \in Nat
<1>1. Running' = Running \ {l} /\ l \in Running
  BY DEF Running
<1>2. Cardinality(Running') = Cardinality(Running) - 1 /\ Cardinality(Running') \in Nat
  <2>1. IsFiniteSet(Running')
    BY <1>1, RunningFinite, FS_Subset
  <2>2. QED
    BY <1>1, <2>1, RunningFinite, FS_RemoveElement, FS_CardinalityType
<1>3. QED
  BY <1>2 DEF DescriptorsFollowThreads, Running

-----------------------------------------------------------------------------
\* The steps of a thread.
LEMMA ConnectionKeeps ==
    ASSUME IInv, NEW l \in Links, NewConnection(l)
    PROVE  IInv'
<1> USE DEF IInv
<1>1. PICK p \in BOOLEAN : polite' = [polite EXCEPT ![l] = p]
  BY DEF NewConnection
<1>2. /\ phone' = [phone EXCEPT ![l] = "new"] /\ told' = [told EXCEPT ![l] = {}]
      /\ wire' = [wire EXCEPT ![l] = <<>>] /\ outcome' = [outcome EXCEPT ![l] = "none"]
  BY DEF NewConnection
<1>3. launcher[l] = "none"
  BY DEF NewConnection, LinkInv, PhoneInv
<1>4. /\ launcher' \in {launcher, [launcher EXCEPT ![l] = "hello"]}
      /\ fds' = fds \/ (fds < FdFree /\ fds' = fds + 1)
  BY DEF NewConnection
<1>5. /\ phone'[l] = "new" /\ told'[l] = {} /\ wire'[l] = <<>> /\ outcome'[l] = "none"
      /\ launcher'[l] \in {"none", "hello"}
      /\ \A k \in Links \ {l} : Same(k)
  BY <1>1, <1>2, <1>3, <1>4 DEF TypeOK, Same
<1>6. TypeOK'
  <2>1. fds' \in 0..FdFree
    BY <1>4, LauncherAssumption DEF TypeOK
  <2>2. wire' \in [Links -> Seq(Messages)] /\ (\A k \in Links : Len(wire'[k]) <= MaxWire + 1)
    BY <1>2, LauncherAssumption DEF TypeOK
  <2>3. QED
    BY <1>1, <1>2, <1>4, <2>1, <2>2 DEF TypeOK
<1>7. DescriptorsFollowThreads'
  <2>1. CASE fds < FdFree
    <3>1. fds' = fds + 1 /\ launcher' = [launcher EXCEPT ![l] = "hello"]
      BY <2>1 DEF NewConnection
    <3>2. launcher'[l] # "none"
      BY <3>1 DEF TypeOK
    <3>3. QED
      BY <1>3, <1>5, <3>1, <3>2, CountUp DEF Same
  <2>2. CASE ~(fds < FdFree)
    BY <2>2, CountSame DEF NewConnection
  <2>3. QED
    BY <2>1, <2>2
<1>8. LinkInv(l)'
  <2>1. \A m : ~Sent(l, m)'
    BY <1>5 DEF Sent, Has
  <2>2. Len(wire'[l]) <= MaxWire
    BY <1>5, LauncherAssumption
  <2>3. QED
    BY <1>5, <2>1, <2>2 DEF LinkInv, PhoneInv, AskedInv, PoliteInv, Here
<1>9. QED
  BY <1>5, <1>6, <1>7, <1>8, OneLink

LEMMA SendsKeeps ==
    ASSUME IInv, NEW l \in Links, SendStart(l) \/ SendInfo(l)
    PROVE  IInv'
<1> USE DEF IInv
<1>1. PICK next \in {"first", "drain"}, m \in {"start", "info"} :
        /\ launcher' = [launcher EXCEPT ![l] = next]
        /\ told' = [told EXCEPT ![l] = IF Here(l) THEN @ \cup {m} ELSE @]
        /\ \/ launcher[l] = "hello" /\ next = "first" /\ m = "start"
           \/ launcher[l] = "reply" /\ next = "drain" /\ m = "info"
  BY DEF SendStart, SendInfo, Sends
<1>2. fds' = fds /\ phone' = phone /\ polite' = polite /\ wire' = wire /\ outcome' = outcome
  BY DEF SendStart, SendInfo, Sends, phoneVars
<1>3. /\ launcher'[l] = next /\ told'[l] \in {told[l], told[l] \cup {m}}
      /\ \A k \in Links \ {l} : Same(k)
  BY <1>1, <1>2 DEF TypeOK, Same
<1>4. TypeOK'
  BY <1>1, <1>2 DEF TypeOK
<1>5. DescriptorsFollowThreads'
  BY <1>1, <1>2, <1>3, CountSame DEF Same
<1>6. LinkInv(l)'
  <2>1. (Here(l)' <=> Here(l)) /\ (\A n : Sent(l, n)' <=> Sent(l, n))
    BY <1>2 DEF Here, Sent
  <2>2. LinkInv(l)
    OBVIOUS
  <2>3. PhoneInv(l)' /\ AskedInv(l)'
    BY <1>1, <1>2, <1>3, <2>1, <2>2 DEF LinkInv, PhoneInv, AskedInv
  <2>4. PoliteInv(l)'
    <3>1. launcher[l] = "reply" /\ Here(l) => phone[l] # "new"
      BY <2>2 DEF LinkInv, AskedInv
    <3>2. QED
      BY <1>1, <1>2, <1>3, <2>1, <2>2, <3>1 DEF LinkInv, PoliteInv
  <2>5. QED
    BY <2>3, <2>4 DEF LinkInv
<1>7. QED
  BY <1>3, <1>4, <1>5, <1>6, OneLink

\* What a read leaves to be read.
LEMMA ReadLeaves ==
    ASSUME TypeOK, NEW l \in Links, wire[l] # <<>>, wire' = [wire EXCEPT ![l] = Tail(@)]
    PROVE  /\ wire' \in [Links -> Seq(Messages)]
           /\ \A k \in Links : Len(wire'[k]) <= MaxWire + 1
           /\ \A k \in Links \ {l} : wire'[k] = wire[k]
           /\ wire'[l] = Tail(wire[l])
           /\ Len(wire[l]) <= MaxWire => Len(wire'[l]) <= MaxWire
           /\ \A m : Sent(l, m)' => Sent(l, m)
<1>1. wire'[l] = Tail(wire[l]) /\ (\A k \in Links \ {l} : wire'[k] = wire[k])
  BY DEF TypeOK
<1>2. /\ Tail(wire[l]) \in Seq(Messages)
      /\ \A n \in Nat : Len(wire[l]) <= n => Len(Tail(wire[l])) <= n
      /\ \A m : Has(Tail(wire[l]), m) => Sent(l, m)
  BY WireTail
<1>3. MaxWire \in Nat /\ MaxWire + 1 \in Nat
  BY LauncherAssumption
<1>4. /\ Len(wire'[l]) <= MaxWire + 1
      /\ Len(wire[l]) <= MaxWire => Len(wire'[l]) <= MaxWire
  BY <1>1, <1>2, <1>3 DEF TypeOK
<1>5. \A m : Sent(l, m)' => Sent(l, m)
  BY <1>1, <1>2 DEF Sent
<1>6. \A k \in Links : Len(wire'[k]) <= MaxWire + 1
  BY <1>1, <1>4 DEF TypeOK
<1>7. wire' \in [Links -> Seq(Messages)]
  BY <1>2 DEF TypeOK
<1>8. QED
  BY <1>1, <1>4, <1>5, <1>6, <1>7

\* The end of the connection, or of a message, is read only from a phone that went.
LEMMA InvalidMeansGone ==
    ASSUME IInv, NEW l \in Links, ReadInvalid(l)
    PROVE  ~Here(l)
<1>1. wire[l] # <<>> /\ Head(wire[l]) = "cut" => Sent(l, "cut")
  BY WireTail DEF IInv
<1>2. QED
  BY <1>1 DEF ReadInvalid, IInv, LinkInv, PhoneInv

\* ReadFirst and Drain: a message is read, or the end; the thread waits on, has
\* its request, or takes its end.
LEMMA ReadsKeep ==
    ASSUME IInv, NEW l \in Links, ReadFirst(l) \/ Drain(l)
    PROVE  IInv'
<1> USE DEF IInv
<1>1. /\ fds' = fds /\ phone' = phone /\ polite' = polite /\ told' = told
      /\ launcher[l] \in {"first", "drain"}
  BY DEF ReadFirst, Drain, phoneVars
<1>2. /\ launcher' \in {launcher, [launcher EXCEPT ![l] = "close"], [launcher EXCEPT ![l] = "reply"]}
      /\ outcome' \in {outcome, [outcome EXCEPT ![l] = "aborted"], [outcome EXCEPT ![l] = "completed"]}
  BY DEF ReadFirst, Drain, Ends
<1>3. \/ wire' = wire /\ ~Here(l)
      \/ wire[l] # <<>> /\ wire' = [wire EXCEPT ![l] = Tail(@)]
  <2>1. ReadInvalid(l) \/ (\E m \in Messages : ReadMessage(l, m))
    BY DEF ReadFirst, Drain, Messages
  <2>2. QED
    BY <2>1 DEF ReadInvalid, ReadMessage
<1>4. /\ wire' \in [Links -> Seq(Messages)]
      /\ \A k \in Links : Len(wire'[k]) <= MaxWire + 1
      /\ \A k \in Links \ {l} : wire'[k] = wire[k]
      /\ Here(l) => wire[l] # <<>> /\ wire'[l] = Tail(wire[l])
      /\ Len(wire[l]) <= MaxWire => Len(wire'[l]) <= MaxWire
      /\ \A m : Sent(l, m)' => Sent(l, m)
  <2>1. CASE wire' = wire /\ ~Here(l)
    BY <2>1 DEF TypeOK, Sent
  <2>2. CASE wire[l] # <<>> /\ wire' = [wire EXCEPT ![l] = Tail(@)]
    BY <2>2, ReadLeaves
  <2>3. QED
    BY <1>3, <2>1, <2>2
<1>5. /\ \A k \in Links \ {l} : Same(k)
      /\ launcher'[l] \in {launcher[l], "close", "reply"}
  BY <1>1, <1>2, <1>4 DEF Same, TypeOK
<1>6. TypeOK'
  BY <1>1, <1>2, <1>4 DEF TypeOK
<1>7. DescriptorsFollowThreads'
  BY <1>1, <1>5, CountSame DEF Same
<1>8. Here(l)' <=> Here(l)
  BY <1>1 DEF Here
<1>9. PhoneInv(l)'
  BY <1>1, <1>4, <1>8 DEF LinkInv, PhoneInv, Here
<1>10. AskedInv(l)'
  <2>1. launcher'[l] = "reply" => (Here(l) => Sent(l, "InfoRequest"))
    <3>1. ASSUME launcher'[l] = "reply", Here(l) PROVE ReadMessage(l, "InfoRequest")
      <4>1. ReadFirst(l)
        BY <3>1, <1>1 DEF Drain, Ends, TypeOK
      <4>2. ~(launcher' = [launcher EXCEPT ![l] = "close"])
        BY <3>1 DEF TypeOK
      <4>3. QED
        BY <4>1, <4>2 DEF ReadFirst, Ends
    <3>2. QED
      BY <3>1, WireTail DEF ReadMessage
  <2>2. QED
    BY <1>1, <1>4, <1>8, <2>1 DEF LinkInv, AskedInv
<1>11. PoliteInv(l)'
  <2> SUFFICES ASSUME polite[l], Here(l) PROVE PoliteInv(l)'
    BY <1>1, <1>8 DEF PoliteInv
  <2>1. ~ReadInvalid(l)
    BY InvalidMeansGone
  <2>2. wire[l] # <<>> /\ wire'[l] = Tail(wire[l]) /\ phone[l] # "new"
    BY <1>4 DEF LinkInv, PoliteInv
  <2>3. CASE ReadFirst(l)
    <3>1. launcher[l] = "first" /\ "info" \notin told[l]
      BY <2>3 DEF ReadFirst, LinkInv, PoliteInv
    <3>2. phone[l] = "asked" /\ wire[l] = <<"InfoRequest">>
      BY <2>2, <3>1 DEF LinkInv, PoliteInv, Here
    <3>3. Head(wire[l]) = "InfoRequest" /\ wire'[l] = <<>>
      BY <2>2, <3>2
    <3>4. launcher' = [launcher EXCEPT ![l] = "reply"] /\ outcome' = outcome
      BY <2>1, <2>3, <3>3 DEF ReadFirst, ReadMessage
    <3>5. launcher'[l] = "reply"
      BY <3>4 DEF TypeOK
    <3>6. QED
      BY <1>1, <3>1, <3>2, <3>3, <3>4, <3>5 DEF LinkInv, PoliteInv
  <2>4. CASE Drain(l)
    <3>1. launcher[l] = "drain" /\ launcher'[l] \in {"drain", "close"} /\ outcome'[l] # "aborted"
      BY <2>1, <2>4 DEF Drain, Ends, TypeOK, LinkInv, PoliteInv
    <3>2. QED
      BY <1>1, <2>2, <3>1 DEF LinkInv, PoliteInv
  <2>5. QED
    BY <2>3, <2>4
<1>12. LinkInv(l)'
  BY <1>9, <1>10, <1>11 DEF LinkInv
<1>13. QED
  BY <1>5, <1>6, <1>7, <1>12, OneLink

LEMMA CloseKeeps ==
    ASSUME IInv, NEW l \in Links, Close(l)
    PROVE  IInv'
<1> USE DEF IInv
<1>1. /\ launcher[l] = "close" /\ launcher' = [launcher EXCEPT ![l] = "none"] /\ fds' = fds - 1
      /\ phone' = phone /\ polite' = polite /\ told' = told /\ wire' = wire /\ outcome' = outcome
  BY DEF Close, phoneVars
<1>2. launcher'[l] = "none" /\ (\A k \in Links \ {l} : Same(k))
  BY <1>1 DEF TypeOK, Same
<1>3. DescriptorsFollowThreads' /\ fds' \in Nat
  BY <1>1, <1>2, CountDown DEF Same
<1>4. TypeOK'
  <2>1. fds' \in 0..FdFree
    BY <1>1, <1>3, LauncherAssumption DEF TypeOK
  <2>2. QED
    BY <1>1, <2>1 DEF TypeOK
<1>5. LinkInv(l)'
  <2>1. (Here(l)' <=> Here(l)) /\ (\A n : Sent(l, n)' <=> Sent(l, n))
    BY <1>1 DEF Here, Sent
  <2>2. QED
    BY <1>1, <1>2, <2>1 DEF LinkInv, PhoneInv, AskedInv, PoliteInv
<1>6. QED
  BY <1>2, <1>3, <1>4, <1>5, OneLink

-----------------------------------------------------------------------------
\* The steps of a phone.

\* What one more message changes.
LEMMA WireAppend ==
    ASSUME TypeOK, NEW l \in Links, NEW m \in Messages, Len(wire[l]) <= MaxWire,
           wire' = [wire EXCEPT ![l] = Append(@, m)]
    PROVE  /\ wire' \in [Links -> Seq(Messages)]
           /\ \A k \in Links : Len(wire'[k]) <= MaxWire + 1
           /\ \A k \in Links \ {l} : wire'[k] = wire[k]
           /\ wire'[l] = Append(wire[l], m)
           /\ Len(wire[l]) < MaxWire => Len(wire'[l]) <= MaxWire
           /\ \A x : Sent(l, x)' <=> Sent(l, x) \/ x = m
<1>1. wire'[l] = Append(wire[l], m) /\ (\A k \in Links \ {l} : wire'[k] = wire[k])
  BY DEF TypeOK
<1>2. wire[l] \in Seq(Messages)
  BY DEF TypeOK
<1>3. /\ Append(wire[l], m) \in Seq(Messages) /\ Len(Append(wire[l], m)) = Len(wire[l]) + 1
      /\ \A x : Has(Append(wire[l], m), x) <=> Has(wire[l], x) \/ x = m
  BY <1>2, HasAppend
<1>4. MaxWire \in Nat /\ Len(wire[l]) \in Nat
  BY <1>2, LauncherAssumption
<1>5. /\ Len(wire'[l]) <= MaxWire + 1
      /\ Len(wire[l]) < MaxWire => Len(wire'[l]) <= MaxWire
  BY <1>1, <1>3, <1>4
<1>6. \A k \in Links : Len(wire'[k]) <= MaxWire + 1
  BY <1>1, <1>5 DEF TypeOK
<1>7. wire' \in [Links -> Seq(Messages)]
  BY <1>3 DEF TypeOK
<1>8. \A x : Sent(l, x)' <=> Sent(l, x) \/ x = m
  BY <1>1, <1>3 DEF Sent
<1>9. QED
  BY <1>1, <1>5, <1>6, <1>7, <1>8

\* A phone says something, and is further on or not.
LEMMA SaysKeeps ==
    ASSUME IInv, NEW l \in Links, NEW m \in Messages \ {"cut"}, Puts(l, m),
           NEW p, phone' = [phone EXCEPT ![l] = p], p \in {"new", "asked", "started"},
           m = "InfoRequest" \/ phone[l] # "new" => p # "new",
           UNCHANGED <<launcher, fds, polite, told, outcome>>,
           PoliteInv(l)'
    PROVE  IInv'
<1> USE DEF IInv
<1>1. /\ Here(l) /\ Len(wire[l]) < MaxWire /\ wire' = [wire EXCEPT ![l] = Append(@, m)]
      /\ launcher' = launcher /\ fds' = fds /\ polite' = polite
      /\ told' = told /\ outcome' = outcome
  BY DEF Puts
<1>2. Len(wire[l]) <= MaxWire
  BY <1>1, LauncherAssumption DEF LinkInv, PhoneInv
<1>3. /\ wire' \in [Links -> Seq(Messages)]
      /\ \A k \in Links : Len(wire'[k]) <= MaxWire + 1
      /\ \A k \in Links \ {l} : wire'[k] = wire[k]
      /\ Len(wire'[l]) <= MaxWire
      /\ \A x : Sent(l, x)' <=> Sent(l, x) \/ x = m
  BY <1>1, <1>2, WireAppend
<1>4. phone'[l] = p /\ (\A k \in Links \ {l} : Same(k))
  BY <1>1, <1>3 DEF TypeOK, Same
<1>5. TypeOK'
  BY <1>1, <1>3 DEF TypeOK
<1>6. DescriptorsFollowThreads'
  BY <1>1, CountSame
<1>7. PhoneInv(l)'
  <2>1. ~Sent(l, "cut")'
    BY <1>1, <1>3 DEF LinkInv, PhoneInv
  <2>2. QED
    BY <1>3, <1>4, <2>1 DEF PhoneInv
<1>8. AskedInv(l)'
  BY <1>1, <1>3, <1>4 DEF LinkInv, AskedInv, Here
<1>9. LinkInv(l)'
  BY <1>7, <1>8 DEF LinkInv
<1>10. QED
  BY <1>4, <1>5, <1>6, <1>9, OneLink

LEMMA PoliteSays ==
    ASSUME IInv, NEW l \in Links, Ask(l) \/ Report(l) \/ StartSession(l)
    PROVE  IInv'
<1> USE DEF IInv
<1>1. /\ polite[l] /\ Here(l) /\ PoliteInv(l) /\ AskedInv(l)
      /\ launcher' = launcher /\ fds' = fds /\ polite' = polite
      /\ told' = told /\ outcome' = outcome
  BY DEF Ask, Report, StartSession, Puts, phoneVars, LinkInv
<1>2. CASE Ask(l)
  <2>1. /\ phone[l] = "new" /\ "start" \in told[l] /\ Puts(l, "InfoRequest")
        /\ phone' = [phone EXCEPT ![l] = "asked"]
    BY <1>2 DEF Ask
  <2>2. phone'[l] = "asked"
    BY <2>1 DEF TypeOK
  <2>3. wire'[l] = <<"InfoRequest">>
    <3>1. wire[l] = <<>> /\ wire'[l] = Append(wire[l], "InfoRequest")
      BY <1>1, <2>1 DEF PoliteInv, Puts, TypeOK
    <3>2. QED
      BY <3>1
  <2>4. launcher[l] \notin {"hello", "reply"}
    BY <1>1, <2>1 DEF PoliteInv, AskedInv
  <2>5. PoliteInv(l)'
    BY <1>1, <2>2, <2>3, <2>4 DEF PoliteInv
  <2>6. QED
    BY <1>1, <2>1, <2>5, SaysKeeps DEF Messages
<1>3. CASE Report(l) \/ StartSession(l)
  <2>1. PICK m \in {"other", "StartResponse"}, p \in {"asked", "started"} :
          Puts(l, m) /\ phone' = [phone EXCEPT ![l] = p]
    <3>1. CASE Report(l)
      <4>1. phone' = [phone EXCEPT ![l] = "asked"]
        BY <3>1 DEF Report, phoneVars, TypeOK
      <4>2. QED
        BY <3>1, <4>1 DEF Report
    <3>2. CASE StartSession(l)
      BY <3>2 DEF StartSession
    <3>3. QED
      BY <1>3, <3>1, <3>2
  <2>2. phone[l] = "asked" /\ "info" \in told[l] /\ phone'[l] = p
    BY <1>3, <2>1 DEF Report, StartSession, TypeOK
  <2>3. launcher[l] \notin {"hello", "first", "reply"}
    BY <1>1, <2>2 DEF PoliteInv
  <2>4. PoliteInv(l)'
    BY <1>1, <2>2, <2>3 DEF PoliteInv
  <2>5. QED
    BY <1>1, <2>1, <2>2, <2>4, SaysKeeps DEF Messages
<1>4. QED
  BY <1>2, <1>3

LEMMA BabbleKeeps ==
    ASSUME IInv, NEW l \in Links, Babble(l)
    PROVE  IInv'
<1>1. PICK m \in Messages \ {"cut"} :
        /\ Puts(l, m)
        /\ phone' = [phone EXCEPT ![l] = IF m = "InfoRequest" /\ @ = "new" THEN "asked" ELSE @]
  BY DEF Babble
<1> DEFINE p == IF m = "InfoRequest" /\ phone[l] = "new" THEN "asked" ELSE phone[l]
<1>2. /\ phone' = [phone EXCEPT ![l] = p] /\ p \in {"new", "asked", "started"}
      /\ m = "InfoRequest" \/ phone[l] # "new" => p # "new"
  BY <1>1 DEF Puts, Here
<1>3. UNCHANGED <<launcher, fds, polite, told, outcome>>
  BY DEF Babble
<1>4. PoliteInv(l)'
  BY <1>3 DEF Babble, PoliteInv
<1> HIDE DEF p
<1>5. QED
  BY <1>1, <1>2, <1>3, <1>4, SaysKeeps

LEMMA LeaveKeeps ==
    ASSUME IInv, NEW l \in Links, Leave(l)
    PROVE  IInv'
<1> USE DEF IInv
<1>1. /\ Here(l) /\ phone' = [phone EXCEPT ![l] = "gone"]
      /\ wire' = wire \/ wire' = [wire EXCEPT ![l] = Append(@, "cut")]
      /\ launcher' = launcher /\ fds' = fds /\ polite' = polite
      /\ told' = told /\ outcome' = outcome
  BY DEF Leave
<1>2. Len(wire[l]) <= MaxWire
  BY <1>1 DEF LinkInv, PhoneInv
<1>3. /\ wire' \in [Links -> Seq(Messages)]
      /\ \A k \in Links : Len(wire'[k]) <= MaxWire + 1
      /\ \A k \in Links \ {l} : wire'[k] = wire[k]
  <2>1. CASE wire' = wire
    BY <2>1 DEF TypeOK
  <2>2. CASE wire' = [wire EXCEPT ![l] = Append(@, "cut")]
    BY <1>2, <2>2, WireAppend DEF Messages
  <2>3. QED
    BY <1>1, <2>1, <2>2
<1>4. phone'[l] = "gone" /\ (\A k \in Links \ {l} : Same(k))
  BY <1>1, <1>3 DEF TypeOK, Same
<1>5. TypeOK'
  BY <1>1, <1>3 DEF TypeOK
<1>6. DescriptorsFollowThreads'
  BY <1>1, CountSame
<1>7. LinkInv(l)'
  BY <1>4 DEF LinkInv, PhoneInv, AskedInv, PoliteInv, Here
<1>8. QED
  BY <1>4, <1>5, <1>6, <1>7, OneLink

LEMMA ForgetKeeps ==
    ASSUME IInv, NEW l \in Links, Forget(l)
    PROVE  IInv'
<1> USE DEF IInv
<1>1. /\ launcher[l] = "none" /\ phone' = [phone EXCEPT ![l] = "away"]
      /\ launcher' = launcher /\ fds' = fds /\ polite' = polite
      /\ told' = told /\ wire' = wire /\ outcome' = outcome
  BY DEF Forget
<1>2. phone'[l] = "away" /\ (\A k \in Links \ {l} : Same(k))
  BY <1>1 DEF TypeOK, Same
<1>3. TypeOK'
  BY <1>1 DEF TypeOK
<1>4. DescriptorsFollowThreads'
  BY <1>1, CountSame
<1>5. LinkInv(l)'
  BY <1>1, <1>2 DEF LinkInv, PhoneInv, AskedInv, PoliteInv, Here
<1>6. QED
  BY <1>2, <1>3, <1>4, <1>5, OneLink

-----------------------------------------------------------------------------
\* The invariant holds at first, and every step keeps it.
LEMMA InitInv == Init => IInv
<1> SUFFICES ASSUME Init PROVE IInv
  OBVIOUS
<1>1. TypeOK
  BY LauncherAssumption DEF Init, TypeOK
<1>2. DescriptorsFollowThreads
  <2>1. {l \in Links : launcher[l] # "none"} = {}
    BY DEF Init
  <2>2. Cardinality({}) = 0
    BY FS_EmptySet
  <2>3. QED
    BY <2>1, <2>2 DEF Init, DescriptorsFollowThreads
<1>3. \A l \in Links : LinkInv(l)
  BY DEF Init, LinkInv, PhoneInv, AskedInv, PoliteInv, Here
<1>4. QED
  BY <1>1, <1>2, <1>3 DEF IInv

LEMMA StepKeeps == IInv /\ [Next]_vars => IInv'
<1> SUFFICES ASSUME IInv, [Next]_vars PROVE IInv'
  OBVIOUS
<1>1. CASE Next
  <2>1. PICK l \in Links : NewConnection(l) \/ LauncherStep(l) \/ PhoneStep(l)
    BY <1>1 DEF Next
  <2>2. QED
    BY <2>1, ConnectionKeeps, SendsKeeps, ReadsKeep, CloseKeeps, PoliteSays, BabbleKeeps,
       LeaveKeeps, ForgetKeeps DEF LauncherStep, PhoneStep
<1>2. CASE UNCHANGED vars
  <2>1. /\ launcher' = launcher /\ fds' = fds /\ phone' = phone /\ polite' = polite
        /\ told' = told /\ wire' = wire /\ outcome' = outcome
    BY <1>2 DEF vars
  <2>2. TypeOK' /\ DescriptorsFollowThreads'
    BY <2>1, CountSame DEF IInv, TypeOK
  <2>3. ASSUME NEW l \in Links PROVE LinkInv(l)'
    <3>1. (Here(l)' <=> Here(l)) /\ (\A m : Sent(l, m)' <=> Sent(l, m))
      BY <2>1 DEF Here, Sent
    <3>2. QED
      BY <2>1, <3>1 DEF IInv, LinkInv, PhoneInv, AskedInv, PoliteInv
  <2>4. QED
    BY <2>2, <2>3 DEF IInv
<1>3. QED
  BY <1>1, <1>2

\* The invariant of the launcher.
LEMMA Invariant == Spec => []IInv
BY InitInv, StepKeeps, PTL DEF Spec

-----------------------------------------------------------------------------
\* Every variable has its type: never more copies than there are descriptors
\* (bluetoothProfiles.cpp:202-220).
THEOREM TypeCorrect == Spec => []TypeOK
BY Invariant, PTL DEF IInv

\* No way through the handshake leaks a descriptor or closes one twice
\* (bluetoothProfiles.cpp:64-67, 87-89, 215-219).
THEOREM NoDescriptorLeaks == Spec => []DescriptorsFollowThreads
BY Invariant, PTL DEF IInv

\* A phone that follows the protocol is not given up (bluetoothProfiles.cpp:79-94).
THEOREM PoliteIsServed == Spec => []PoliteNotAborted
<1>1. IInv => PoliteNotAborted
  BY DEF IInv, LinkInv, PoliteInv, PoliteNotAborted
<1>2. QED
  BY <1>1, Invariant, PTL

\* The credentials go to no phone that has not asked (bluetoothProfiles.cpp:62-77).
THEOREM OnlyWhoAsked == Spec => []CredentialsAreAsked
<1>1. IInv => CredentialsAreAsked
  BY DEF IInv, LinkInv, AskedInv, CredentialsAreAsked
<1>2. QED
  BY <1>1, Invariant, PTL
-----------------------------------------------------------------------------
\* The temporal properties of Launcher, without the fairness: a thread whose phone
\* is gone has a number of steps left, and one whose phone is there and follows
\* the protocol waits for nothing the phone does not owe it.

\* The steps a thread has before it, and the messages it has not read.
StepsLeft(l) ==
    CASE launcher[l] = "hello" -> 5
      [] launcher[l] = "first" -> 4
      [] launcher[l] = "reply" -> 3
      [] launcher[l] = "drain" -> 2
      [] launcher[l] = "close" -> 1
      [] OTHER -> 0
ThreadLeft(l) == StepsLeft(l) + Len(wire[l])

LEMMA ThreadLeftCounts ==
    ASSUME TypeOK, NEW l \in Links
    PROVE  ThreadLeft(l) \in Nat /\ StepsLeft(l) \in Nat /\ Len(wire[l]) \in Nat
<1>1. wire[l] \in Seq(Messages)
  BY DEF TypeOK
<1>2. Len(wire[l]) \in Nat
  BY <1>1
<1>3. StepsLeft(l) \in Nat
  BY DEF StepsLeft
<1>4. QED
  BY <1>2, <1>3 DEF ThreadLeft

\* What a read takes from the wire, or finds at its end.
LEMMA ReadTakes ==
    ASSUME TypeOK, NEW l \in Links, ReadInvalid(l) \/ (\E m \in Messages : ReadMessage(l, m))
    PROVE  /\ Len(wire'[l]) \in Nat /\ Len(wire'[l]) <= Len(wire[l])
           /\ (\E m \in Messages : ReadMessage(l, m)) => Len(wire'[l]) < Len(wire[l])
<1>1. wire[l] \in Seq(Messages)
  BY DEF TypeOK
<1>2. CASE wire' = wire /\ wire[l] = <<>>
  BY <1>1, <1>2 DEF ReadMessage
<1>3. CASE wire[l] # <<>> /\ wire' = [wire EXCEPT ![l] = Tail(@)]
  <2>1. wire'[l] = Tail(wire[l])
    BY <1>3 DEF TypeOK
  <2>2. /\ Tail(wire[l]) \in Seq(Messages) /\ Len(wire[l]) \in Nat
        /\ Len(Tail(wire[l])) = Len(wire[l]) - 1
    BY <1>1, <1>3, HasTail
  <2>3. Len(Tail(wire[l])) \in Nat
    BY <2>2
  <2>4. QED
    BY <2>1, <2>2, <2>3
<1>4. QED
  BY <1>2, <1>3 DEF ReadInvalid, ReadMessage

\* Every step of a thread brings its end nearer, unless its phone says more.
LEMMA LauncherNears ==
    ASSUME TypeOK, NEW l \in Links, LauncherStep(l)
    PROVE  phone' = phone /\ ThreadLeft(l)' < ThreadLeft(l)
<1>0. Len(wire[l]) \in Nat
  BY ThreadLeftCounts
<1>1. CASE SendStart(l) \/ SendInfo(l)
  <2>1. phone' = phone /\ wire' = wire
    BY <1>1 DEF SendStart, SendInfo, Sends, phoneVars
  <2>2. \/ launcher[l] = "hello" /\ launcher'[l] = "first"
        \/ launcher[l] = "reply" /\ launcher'[l] = "drain"
    BY <1>1 DEF SendStart, SendInfo, Sends, TypeOK
  <2>3. StepsLeft(l)' < StepsLeft(l) /\ StepsLeft(l)' \in Nat /\ StepsLeft(l) \in Nat
    BY <2>2 DEF StepsLeft
  <2>4. QED
    BY <1>0, <2>1, <2>3 DEF ThreadLeft
<1>2. CASE ReadFirst(l) \/ Drain(l)
  <2>1. phone' = phone /\ launcher[l] \in {"first", "drain"}
    BY <1>2 DEF ReadFirst, Drain, phoneVars
  <2>2. ReadInvalid(l) \/ (\E m \in Messages : ReadMessage(l, m))
    BY <1>2 DEF ReadFirst, Drain, Messages
  <2>3. /\ Len(wire'[l]) \in Nat /\ Len(wire'[l]) <= Len(wire[l])
        /\ (\E m \in Messages : ReadMessage(l, m)) => Len(wire'[l]) < Len(wire[l])
    BY <2>2, ReadTakes
  <2>4. \/ launcher'[l] = "close"
        \/ launcher[l] = "first" /\ launcher'[l] = "reply"
        \/ launcher[l] = "drain" /\ launcher'[l] = "drain" /\ Len(wire'[l]) < Len(wire[l])
    <3>1. CASE ReadFirst(l)
      BY <3>1 DEF ReadFirst, Ends, TypeOK
    <3>2. CASE Drain(l) /\ launcher' = [launcher EXCEPT ![l] = "close"]
      BY <3>2 DEF TypeOK
    <3>3. CASE Drain(l) /\ (\E m \in Messages : ReadMessage(l, m)) /\ launcher' = launcher
      BY <2>3, <3>3 DEF Drain
    <3>4. QED
      BY <1>2, <3>1, <3>2, <3>3 DEF Drain, Ends
  <2>5. \/ StepsLeft(l)' < StepsLeft(l)
        \/ StepsLeft(l)' = StepsLeft(l) /\ Len(wire'[l]) < Len(wire[l])
    BY <2>1, <2>4 DEF StepsLeft
  <2>6. StepsLeft(l)' \in Nat /\ StepsLeft(l) \in Nat
    BY DEF StepsLeft
  <2>7. QED
    BY <1>0, <2>1, <2>3, <2>5, <2>6 DEF ThreadLeft
<1>3. CASE Close(l)
  <2>1. /\ phone' = phone /\ wire' = wire
        /\ launcher[l] = "close" /\ launcher'[l] = "none"
    BY <1>3 DEF Close, phoneVars, TypeOK
  <2>2. StepsLeft(l)' = 0 /\ StepsLeft(l) = 1
    BY <2>1 DEF StepsLeft
  <2>3. QED
    BY <1>0, <2>1, <2>2 DEF ThreadLeft
<1>4. QED
  BY <1>1, <1>2, <1>3 DEF LauncherStep

\* A step of another link, or none.
LEMMA OtherLink ==
    ASSUME TypeOK, NEW l \in Links, NEW k \in Links \ {l},
           NewConnection(k) \/ LauncherStep(k) \/ PhoneStep(k)
    PROVE  /\ phone'[l] = phone[l] /\ launcher'[l] = launcher[l] /\ wire'[l] = wire[l]
           /\ polite'[l] = polite[l] /\ told'[l] = told[l]
<1>1. CASE NewConnection(k)
  BY <1>1 DEF NewConnection, TypeOK
<1>2. CASE LauncherStep(k)
  BY <1>2
  DEF LauncherStep, SendStart, SendInfo, Sends, ReadFirst, Drain, Close, ReadInvalid,
      ReadMessage, Ends, phoneVars, TypeOK
<1>3. CASE PhoneStep(k)
  BY <1>3
  DEF PhoneStep, Ask, Report, StartSession, Babble, Leave, Forget, Puts, phoneVars, TypeOK
<1>4. QED
  BY <1>1, <1>2, <1>3

\* Once the phone is gone the thread has a number of steps left, each of its steps
\* makes it smaller, and nobody makes it greater or lets the phone come back: with
\* a thread that runs this is ThreadsEndWithPhone (bluetoothProfiles.cpp:154-191).
THEOREM GoneNearsEnd ==
    Spec => [][\A l \in Links :
                 phone[l] = "gone" /\ launcher[l] # "none" =>
                     /\ phone'[l] = "gone" /\ ThreadLeft(l) \in Nat
                     /\ LauncherStep(l) => ThreadLeft(l)' < ThreadLeft(l)
                     /\ ~LauncherStep(l) => ThreadLeft(l)' = ThreadLeft(l)]_vars
<1>1. ASSUME TypeOK, Next, NEW l \in Links, phone[l] = "gone", launcher[l] # "none"
      PROVE  /\ phone'[l] = "gone" /\ ThreadLeft(l) \in Nat
             /\ LauncherStep(l) => ThreadLeft(l)' < ThreadLeft(l)
             /\ ~LauncherStep(l) => ThreadLeft(l)' = ThreadLeft(l)
  <2>1. ThreadLeft(l) \in Nat
    BY <1>1, ThreadLeftCounts
  <2>2. CASE LauncherStep(l)
    BY <1>1, <2>1, <2>2, LauncherNears
  <2>3. CASE ~LauncherStep(l)
    <3>1. ~NewConnection(l) /\ ~PhoneStep(l)
      BY <1>1
      DEF NewConnection, PhoneStep, Ask, Report, StartSession, Babble, Puts, Leave, Forget, Here
    <3>2. PICK k \in Links \ {l} : NewConnection(k) \/ LauncherStep(k) \/ PhoneStep(k)
      BY <1>1, <2>3, <3>1 DEF Next
    <3>3. phone'[l] = phone[l] /\ launcher'[l] = launcher[l] /\ wire'[l] = wire[l]
      BY <1>1, <3>2, OtherLink
    <3>4. QED
      BY <1>1, <2>1, <2>3, <3>3 DEF ThreadLeft, StepsLeft
  <2>4. QED
    BY <2>2, <2>3
<1>2. IInv => TypeOK
  BY DEF IInv
<1>3. TypeOK /\ [Next]_vars =>
        [\A l \in Links :
           phone[l] = "gone" /\ launcher[l] # "none" =>
               /\ phone'[l] = "gone" /\ ThreadLeft(l) \in Nat
               /\ LauncherStep(l) => ThreadLeft(l)' < ThreadLeft(l)
               /\ ~LauncherStep(l) => ThreadLeft(l)' = ThreadLeft(l)]_vars
  BY <1>1
<1>4. QED
  BY <1>2, <1>3, Invariant, PTL DEF Spec
-----------------------------------------------------------------------------
\* What a phone that follows the protocol owes its thread: it has what it waited
\* for, and has not spoken yet.
Owes(l) ==
    \/ phone[l] = "new" /\ "start" \in told[l]
    \/ phone[l] = "asked" /\ "info" \in told[l]

\* A thread blocked in a read.
Waits(l) == launcher[l] \in {"first", "drain"} /\ wire[l] = <<>>

NobodyWaits == \A l \in Links : polite[l] /\ Here(l) /\ Waits(l) => Owes(l)

\* What has been said to such a phone by the time its thread reads, and what the
\* phone has said last.
WaitInv(l) ==
    polite[l] /\ Here(l) =>
        /\ launcher[l] \in {"first", "reply", "drain"} => "start" \in told[l]
        /\ launcher[l] = "drain" => "info" \in told[l]
        /\ launcher[l] = "drain" /\ phone[l] = "started" => Sent(l, "StartResponse")

AllWaitInv == \A l \in Links : WaitInv(l)

\* Only the first message is taken.
LEMMA TailKeeps ==
    ASSUME NEW s \in Seq(Messages), s # <<>>, NEW m, Has(s, m), Head(s) # m
    PROVE  Has(Tail(s), m)
<1>1. /\ Len(s) \in Nat /\ DOMAIN s = 1..Len(s) /\ DOMAIN Tail(s) = 1..(Len(s) - 1)
      /\ \A i \in 1..(Len(s) - 1) : Tail(s)[i] = s[i + 1]
      /\ Head(s) = s[1]
  OBVIOUS
<1>2. PICK i \in DOMAIN s : s[i] = m
  BY DEF Has
<1>3. i # 1 /\ i \in 1..Len(s)
  BY <1>1, <1>2
<1>4. i - 1 \in 1..(Len(s) - 1) /\ (i - 1) + 1 = i
  BY <1>1, <1>3
<1>5. Tail(s)[i - 1] = m
  BY <1>1, <1>2, <1>4
<1>6. QED
  BY <1>1, <1>4, <1>5 DEF Has

\* A step of the link keeps WaitInv: its thread's, and its phone's.
LEMMA LauncherWaits ==
    ASSUME IInv, NEW l \in Links, WaitInv(l), LauncherStep(l)
    PROVE  WaitInv(l)'
<1> SUFFICES ASSUME polite'[l], Here(l)' PROVE WaitInv(l)'
  BY DEF WaitInv
<1>1. /\ phone' = phone /\ polite' = polite /\ polite[l] /\ Here(l)
  BY DEF LauncherStep, SendStart, SendInfo, Sends, ReadFirst, Drain, Close, phoneVars, Here
<1>2. TypeOK /\ PoliteInv(l)
  BY DEF IInv, LinkInv
<1>3. CASE SendStart(l) \/ SendInfo(l)
  <2>1. PICK next \in {"first", "drain"}, m \in {"start", "info"} :
          /\ launcher'[l] = next /\ told'[l] = told[l] \cup {m}
          /\ \/ launcher[l] = "hello" /\ next = "first" /\ m = "start"
             \/ launcher[l] = "reply" /\ next = "drain" /\ m = "info"
    BY <1>1, <1>2, <1>3 DEF SendStart, SendInfo, Sends, TypeOK
  <2>2. launcher[l] = "reply" => phone[l] # "started"
    BY <1>1, <1>2 DEF PoliteInv
  <2>3. QED
    BY <1>1, <2>1, <2>2 DEF WaitInv
<1>4. CASE ReadFirst(l)
  <2>1. told' = told /\ launcher[l] = "first" /\ launcher'[l] \in {"close", "reply"}
    BY <1>2, <1>4 DEF ReadFirst, Ends, TypeOK
  <2>2. QED
    BY <1>1, <2>1 DEF WaitInv
<1>5. CASE Drain(l)
  <2>1. told' = told /\ launcher[l] = "drain"
    BY <1>5 DEF Drain
  <2>2. CASE launcher'[l] = "close"
    BY <1>1, <2>1, <2>2 DEF WaitInv
  <2>3. CASE launcher'[l] # "close"
    <3>1. PICK m \in Messages \ {"StartResponse"} : ReadMessage(l, m) /\ launcher' = launcher
      BY <1>2, <1>5, <2>3 DEF Drain, Ends, TypeOK
    <3>2. wire[l] # <<>> /\ Head(wire[l]) # "StartResponse" /\ wire'[l] = Tail(wire[l])
      BY <1>2, <3>1 DEF ReadMessage, TypeOK
    <3>3. Sent(l, "StartResponse") => Sent(l, "StartResponse")'
      BY <1>2, <3>2, TailKeeps DEF Sent, TypeOK
    <3>4. QED
      BY <1>1, <2>1, <3>1, <3>3 DEF WaitInv
  <2>4. QED
    BY <2>2, <2>3
<1>6. CASE Close(l)
  BY <1>2, <1>6 DEF Close, WaitInv, TypeOK
<1>7. QED
  BY <1>3, <1>4, <1>5, <1>6 DEF LauncherStep

LEMMA PhoneWaits ==
    ASSUME IInv, NEW l \in Links, WaitInv(l), PhoneStep(l)
    PROVE  WaitInv(l)'
<1> SUFFICES ASSUME polite'[l], Here(l)' PROVE WaitInv(l)'
  BY DEF WaitInv
<1>1. TypeOK
  BY DEF IInv
<1>2. launcher' = launcher /\ told' = told /\ polite' = polite
  BY DEF PhoneStep, Ask, Report, StartSession, Babble, Leave, Forget, phoneVars
<1>3. PICK m \in Messages : \/ Ask(l) /\ m = "InfoRequest"
                            \/ Report(l) /\ m = "other"
                            \/ StartSession(l) /\ m = "StartResponse"
  <2>1. ~Leave(l) /\ ~Forget(l)
    BY <1>1 DEF Leave, Forget, Here, TypeOK
  <2>2. ~Babble(l)
    BY <1>2 DEF Babble
  <2>3. QED
    BY <2>1, <2>2 DEF PhoneStep, Messages
<1>4. Puts(l, m) /\ Here(l)
  BY <1>3 DEF Ask, Report, StartSession, Puts
<1>5. \A x : Sent(l, x)' <=> Sent(l, x) \/ x = m
  BY <1>1, <1>4, WireAppend DEF Puts, IInv, LinkInv, PhoneInv
<1>6. phone'[l] = "started" => phone[l] = "started" \/ m = "StartResponse"
  BY <1>1, <1>3 DEF Ask, Report, StartSession, phoneVars, TypeOK
<1>7. QED
  BY <1>2, <1>4, <1>5, <1>6 DEF WaitInv

LEMMA WaitStep ==
    ASSUME IInv, AllWaitInv, [Next]_vars
    PROVE  AllWaitInv'
<1> SUFFICES ASSUME NEW l \in Links PROVE WaitInv(l)'
  BY DEF AllWaitInv
<1> USE DEF AllWaitInv
<1>0. TypeOK
  BY DEF IInv
<1>1. CASE LauncherStep(l)
  BY <1>1, LauncherWaits
<1>2. CASE PhoneStep(l)
  BY <1>2, PhoneWaits
<1>3. CASE NewConnection(l)
  <2>1. launcher[l] = "none"
    BY <1>3 DEF NewConnection, IInv, LinkInv, PhoneInv
  <2>2. launcher'[l] \in {"none", "hello"}
    BY <1>0, <1>3, <2>1 DEF NewConnection, TypeOK
  <2>3. QED
    BY <2>2 DEF WaitInv
<1>4. CASE \E k \in Links \ {l} : NewConnection(k) \/ LauncherStep(k) \/ PhoneStep(k)
  <2>1. phone'[l] = phone[l] /\ launcher'[l] = launcher[l] /\ wire'[l] = wire[l]
        /\ polite'[l] = polite[l] /\ told'[l] = told[l]
    BY <1>0, <1>4, OtherLink
  <2>2. QED
    BY <2>1 DEF WaitInv, Here, Sent
<1>5. CASE UNCHANGED vars
  BY <1>5 DEF vars, WaitInv, Here, Sent
<1>6. QED
  BY <1>1, <1>2, <1>3, <1>4, <1>5 DEF Next

\* Whenever the thread of a phone that is there and follows the protocol is blocked
\* in a read, it is the phone's turn: it has been told what it needs to go on and
\* has not answered. The two never wait for each other, with any number of reports
\* under way (bluetoothProfiles.cpp:48-94).
THEOREM NeverBothWait == Spec => []NobodyWaits
<1>1. Init => AllWaitInv
  BY DEF Init, WaitInv, AllWaitInv
<1>2. IInv /\ AllWaitInv /\ [Next]_vars => AllWaitInv'
  BY WaitStep
<1>3. IInv /\ AllWaitInv => NobodyWaits
  <2> SUFFICES ASSUME IInv, NEW l \in Links, WaitInv(l), polite[l], Here(l), Waits(l)
               PROVE  Owes(l)
    BY DEF NobodyWaits, AllWaitInv
  <2>1. PoliteInv(l) /\ ~Sent(l, "StartResponse")
    BY DEF Waits, Sent, Has, IInv, LinkInv
  <2>2. wire[l] # <<"InfoRequest">>
    BY DEF Waits
  <2>3. QED
    BY <2>1, <2>2 DEF PoliteInv, WaitInv, Waits, Owes, Here
<1>4. QED
  BY <1>1, <1>2, <1>3, Invariant, PTL DEF Spec
==============================================================================
