------------------------------ MODULE UsbProofs ------------------------------
(***************************************************************************)
(* Theorems about UsbManager for any length of list and queue: the types   *)
(* (with them, the iterator stays in the list), the one live handler, the  *)
(* safety part of what callers are promised and, if no START outlives its  *)
(* gadget, what a call that returns true means.                            *)
(***************************************************************************)
EXTENDS UsbManager, SequenceTheorems, TLAPS

Handlers == {"live", "stale"}
Live(i) == handlers[i] = "live"

\* An answered promise is one whose handler is about to be erased.
AnswersOnce ==
    (answered /\ \E i \in DOMAIN handlers : Live(i)) => mon = "erase" /\ Live(pos)

\* The types, in parts.
Scalars ==
    /\ bound \in {"none", "default", "accessory"}
    /\ user \in {"idle", "enable", "wait", "over"}
    /\ answered \in BOOLEAN
    /\ mon \in {"read", "loop", "drop", "raise", "set", "erase"}
    /\ event \in Events
QueueTyped == queue \in Seq(Events) /\ Len(queue) <= MaxQueue
ListTyped ==
    /\ handlers \in Seq(Handlers) /\ Len(handlers) <= MaxHandlers
    /\ pos \in 1..(Len(handlers) + 1)
    /\ mon \in {"drop", "raise", "set", "erase"} => pos <= Len(handlers)

ListInv == TypeOK /\ OneLiveHandler /\ AnswersOnce

\* What the gadgets are while a START is left, before the call enables one, in a
\* handler that holds the promise, and once that promise is answered.
StartNeedsGadget == StartLeft => bound # "none" \/ mon = "raise"
NotYetDefault == user \in {"idle", "enable"} => bound # "default"
HolderSwitches ==
    InHandler /\ Live(pos) =>
      /\ user = "wait" \/ bound = "accessory"
      /\ mon = "raise" => bound # "default"
      /\ mon = "set" => bound = "accessory"
AnswerIsTrue == user \in {"enable", "wait"} /\ answered => bound = "accessory"

GadgetInv == StartNeedsGadget /\ NotYetDefault /\ HolderSwitches /\ AnswerIsTrue

-----------------------------------------------------------------------------
\* What erase leaves: the nodes before the erased one, and those after it.
LEMMA ErasedFacts ==
    ASSUME NEW list \in Seq(Handlers), NEW i \in 1..Len(list)
    PROVE  /\ Erased(list, i) \in Seq(Handlers)
           /\ Len(Erased(list, i)) = Len(list) - 1
           /\ \A k \in 1..(Len(list) - 1) :
                Erased(list, i)[k] = list[IF k < i THEN k ELSE k + 1]
<1> DEFINE before == SubSeq(list, 1, i - 1)
           after == SubSeq(list, i + 1, Len(list))
<1>0. Len(list) \in Nat /\ \A k \in 1..Len(list) : list[k] \in Handlers
  OBVIOUS
<1>1. /\ before \in Seq(Handlers) /\ Len(before) = i - 1
      /\ \A k \in 1..(i - 1) : before[k] = list[k]
  <2>1. \A k \in 1..(i - 1) : list[k] \in Handlers
    BY <1>0
  <2>2. /\ before \in Seq(Handlers)
        /\ Len(before) = IF 1 <= i - 1 THEN (i - 1) - 1 + 1 ELSE 0
        /\ \A k \in 1..((i - 1) - 1 + 1) : before[k] = list[1 + k - 1]
    BY <1>0, <2>1, SubSeqProperties
  <2>3. QED
    BY <1>0, <2>2
<1>2. /\ after \in Seq(Handlers) /\ Len(after) = Len(list) - i
      /\ \A k \in 1..(Len(list) - i) : after[k] = list[i + k]
  <2>1. \A k \in (i + 1)..Len(list) : list[k] \in Handlers
    BY <1>0
  <2>2. /\ after \in Seq(Handlers)
        /\ Len(after) = IF i + 1 <= Len(list) THEN Len(list) - (i + 1) + 1 ELSE 0
        /\ \A k \in 1..(Len(list) - (i + 1) + 1) : after[k] = list[(i + 1) + k - 1]
    BY <1>0, <2>1, SubSeqProperties
  <2>3. QED
    BY <1>0, <2>2
<1> HIDE DEF before, after
<1>3. /\ before \o after \in Seq(Handlers)
      /\ Len(before \o after) = Len(before) + Len(after)
      /\ \A k \in 1..(Len(before) + Len(after)) :
           (before \o after)[k] = IF k <= Len(before) THEN before[k]
                                  ELSE after[k - Len(before)]
  BY <1>1, <1>2, ConcatProperties
<1>4. Erased(list, i) = before \o after
  BY DEF Erased, before, after
<1>5. Len(Erased(list, i)) = Len(list) - 1
  <2>1. Len(Erased(list, i)) = (i - 1) + (Len(list) - i)
    BY <1>1, <1>2, <1>3, <1>4
  <2>2. QED
    BY <1>0, <2>1
<1>6. ASSUME NEW k \in 1..(Len(list) - 1)
      PROVE  Erased(list, i)[k] = list[IF k < i THEN k ELSE k + 1]
  <2>1. Erased(list, i)[k] = IF k <= i - 1 THEN before[k] ELSE after[k - (i - 1)]
    BY <1>0, <1>1, <1>2, <1>3, <1>4
  <2>2. CASE k < i
    BY <1>0, <1>1, <2>1, <2>2
  <2>3. CASE k >= i
    <3>1. k - (i - 1) \in 1..(Len(list) - i) /\ i + (k - (i - 1)) = k + 1
      BY <1>0, <2>3
    <3>2. after[k - (i - 1)] = list[i + (k - (i - 1))]
      BY <1>2, <3>1
    <3>3. QED
      BY <2>1, <2>3, <3>1, <3>2
  <2>4. QED
    BY <1>0, <2>2, <2>3
<1>7. QED
  BY <1>3, <1>4, <1>5, <1>6

\* A handler added at the end leaves the others where they are.
LEMMA AppendFacts ==
    ASSUME NEW list \in Seq(Handlers), NEW h \in Handlers
    PROVE  /\ Append(list, h) \in Seq(Handlers)
           /\ Len(Append(list, h)) = Len(list) + 1
           /\ \A i \in 1..Len(list) : Append(list, h)[i] = list[i]
           /\ Append(list, h)[Len(list) + 1] = h
BY AppendProperties

\* The handlers of a call that ended: as many, none of them live.
LEMMA ExpireFacts ==
    ASSUME handlers \in Seq(Handlers), Expire
    PROVE  /\ handlers' \in Seq(Handlers)
           /\ Len(handlers') = Len(handlers)
           /\ \A i \in 1..Len(handlers) : handlers'[i] = "stale"
BY DEF Expire, Handlers

-----------------------------------------------------------------------------
LEMMA TypesAreParts ==
    /\ TypeOK <=> Scalars /\ QueueTyped /\ ListTyped
    /\ TypeOK' <=> Scalars' /\ QueueTyped' /\ ListTyped'
BY DEF TypeOK, Scalars, QueueTyped, ListTyped, InHandler, Handlers

\* The list is empty.
LEMMA InitList == Init => ListInv
<1> SUFFICES ASSUME Init PROVE ListInv
  OBVIOUS
<1>1. /\ Len(handlers) = 0 /\ DOMAIN handlers = {}
      /\ handlers \in Seq(Handlers) /\ queue \in Seq(Events) /\ Len(queue) = 0
  BY DEF Init
<1>2. TypeOK
  <2>1. Scalars
    BY DEF Init, Scalars, Events
  <2>2. QueueTyped
    BY <1>1, UsbAssumption DEF QueueTyped
  <2>3. ListTyped
    BY <1>1, UsbAssumption DEF Init, ListTyped
  <2>4. QED
    BY <2>1, <2>2, <2>3, TypesAreParts
<1>3. OneLiveHandler /\ AnswersOnce
  BY <1>1 DEF OneLiveHandler, AnswersOnce
<1>4. QED
  BY <1>2, <1>3 DEF ListInv

\* The part of the invariant that is about the list, kept by steps that leave
\* the list and the iterator alone.
LEMMA SameListKeeps ==
    ASSUME ListInv, TypeOK', UNCHANGED <<handlers, pos, answered>>,
           user \in {"enable", "wait"} => user' \in {"enable", "wait"},
           mon = "erase" => mon' = "erase"
    PROVE  ListInv'
BY DEF ListInv, OneLiveHandler, AnswersOnce, Live

\* Every other step is of one of these kinds.
LEMMA ListKept ==
    ASSUME ListInv, Next
    PROVE  ListInv'
<1> USE DEF ListInv, Live
<1>0. /\ handlers \in Seq(Handlers) /\ Len(handlers) \in Nat
      /\ DOMAIN handlers = 1..Len(handlers)
      /\ pos \in 1..(Len(handlers) + 1)
      /\ Scalars /\ QueueTyped /\ ListTyped
  BY TypesAreParts DEF ListTyped
<1>00. /\ Len(handlers) \in Nat /\ pos \in Nat /\ 1 <= pos /\ pos <= Len(handlers) + 1
       /\ mon = "erase" => pos <= Len(handlers)
  BY <1>0 DEF ListTyped
<1>1. ASSUME AddHandler PROVE ListInv'
  <2>1. CASE UNCHANGED handlers
    <3>0. pos' = pos
      BY <1>00, <1>1, <2>1 DEF AddHandler
    <3>1. TypeOK'
      BY <1>0, <1>1, <2>1, <3>0, TypesAreParts
      DEF AddHandler, Scalars, QueueTyped, ListTyped
    <3>2. ~\E i \in DOMAIN handlers : Live(i)
      BY <1>1 DEF AddHandler, OneLiveHandler
    <3>3. QED
      BY <2>1, <3>1, <3>2 DEF OneLiveHandler, AnswersOnce
  <2>2. CASE handlers' = Append(handlers, "live")
    <3>1. /\ handlers' \in Seq(Handlers) /\ Len(handlers') = Len(handlers) + 1
          /\ \A i \in 1..Len(handlers) : handlers'[i] = handlers[i]
          /\ DOMAIN handlers' = 1..(Len(handlers) + 1)
      BY <1>0, <2>2, AppendFacts DEF Handlers
    <3>2. TypeOK'
      <4>1. ListTyped'
        BY <1>0, <1>1, <3>1, UsbAssumption DEF AddHandler, ListTyped
      <4>2. QED
        BY <1>0, <1>1, <4>1, TypesAreParts DEF AddHandler, Scalars, QueueTyped
    <3>3. \A i \in 1..Len(handlers) : handlers'[i] # "live"
      BY <1>0, <1>1, <3>1 DEF AddHandler, OneLiveHandler
    <3>4. \A i \in DOMAIN handlers' : handlers'[i] = "live" => i = Len(handlers) + 1
      BY <1>0, <3>1, <3>3
    <3>5. QED
      BY <1>1, <3>2, <3>4 DEF AddHandler, OneLiveHandler, AnswersOnce
  <2>3. QED
    BY <1>1, <2>1, <2>2 DEF AddHandler
<1>2. ASSUME EnableDefault PROVE ListInv'
  BY <1>2, SameListKeeps DEF EnableDefault, Enable, TypeOK, InHandler
<1>3. ASSUME WaitReady \/ WaitTimeout PROVE ListInv'
  <2>1. /\ handlers' \in Seq(Handlers) /\ Len(handlers') = Len(handlers)
        /\ DOMAIN handlers' = 1..Len(handlers)
        /\ \A i \in 1..Len(handlers) : handlers'[i] = "stale"
    BY <1>0, <1>3, ExpireFacts DEF WaitReady, WaitTimeout
  <2>2. TypeOK'
    BY <1>0, <1>3, <2>1 DEF WaitReady, WaitTimeout, TypeOK, InHandler, Handlers
  <2>3. QED
    BY <2>1, <2>2 DEF OneLiveHandler, AnswersOnce
<1>4. ASSUME DisableAll PROVE ListInv'
  <2>1. ~\E i \in DOMAIN handlers : Live(i)
    BY <1>4 DEF DisableAll, OneLiveHandler
  <2>2. TypeOK' /\ handlers' = handlers
    BY <1>4 DEF DisableAll, TypeOK, InHandler
  <2>3. QED
    BY <2>1, <2>2 DEF OneLiveHandler, AnswersOnce
<1>5. ASSUME Uevent PROVE ListInv'
  <2>1. TypeOK'
    BY <1>5, UsbAssumption DEF Uevent, TypeOK, InHandler, Events
  <2>2. QED
    BY <1>5, <2>1, SameListKeeps DEF Uevent
<1>6. ASSUME MonRead PROVE ListInv'
  <2>1. TypeOK'
    <3>1. Head(queue) \in Events /\ QueueTyped'
      BY <1>0, <1>6, UsbAssumption DEF MonRead, QueueTyped
    <3>2. ListTyped'
      BY <1>0, <1>6 DEF MonRead, ListTyped
    <3>3. QED
      BY <1>0, <1>6, <3>1, <3>2, TypesAreParts DEF MonRead, Scalars
  <2>2. ~(answered /\ \E i \in DOMAIN handlers : Live(i))
    BY <1>6 DEF MonRead, AnswersOnce
  <2>3. QED
    BY <1>6, <2>1, <2>2 DEF MonRead, OneLiveHandler, AnswersOnce
<1>7. ASSUME MonLoop PROVE ListInv'
  <2>1. TypeOK'
    BY <1>0, <1>7 DEF MonLoop, TypeOK, InHandler
  <2>2. ~(answered /\ \E i \in DOMAIN handlers : Live(i))
    BY <1>7 DEF MonLoop, AnswersOnce
  <2>3. QED
    BY <1>7, <2>1, <2>2 DEF MonLoop, OneLiveHandler, AnswersOnce
<1>8. ASSUME MonDrop \/ MonRaise PROVE ListInv'
  <2>1. TypeOK'
    BY <1>8 DEF MonDrop, MonRaise, Disable, Enable, TypeOK, InHandler
  <2>2. QED
    BY <1>8, <2>1, SameListKeeps DEF MonDrop, MonRaise
<1>9. ASSUME MonSet PROVE ListInv'
  <2>1. TypeOK'
    BY <1>9 DEF MonSet, TypeOK, InHandler
  <2>2. ~(answered /\ \E i \in DOMAIN handlers : Live(i))
    BY <1>9 DEF MonSet, AnswersOnce
  <2>3. QED
    BY <1>9, <2>1, <2>2 DEF MonSet, OneLiveHandler, AnswersOnce
<1>10. ASSUME MonErase PROVE ListInv'
  <2>1. pos \in 1..Len(handlers)
    BY <1>00, <1>10 DEF MonErase
  <2>2. /\ handlers' \in Seq(Handlers) /\ Len(handlers') = Len(handlers) - 1
        /\ \A k \in 1..(Len(handlers) - 1) :
             handlers'[k] = handlers[IF k < pos THEN k ELSE k + 1]
    BY <1>0, <1>10, <2>1, ErasedFacts DEF MonErase
  <2>3. DOMAIN handlers' = 1..(Len(handlers) - 1)
    BY <1>0, <2>2
  <2>4. TypeOK'
    <3>1. Len(handlers) <= MaxHandlers /\ MaxHandlers \in Nat
      BY <1>0, UsbAssumption DEF ListTyped
    <3>2. Len(handlers') <= MaxHandlers
      BY <1>00, <2>2, <3>1
    <3>3. pos' \in 1..(Len(handlers') + 1)
      BY <1>00, <1>10, <2>1, <2>2 DEF MonErase
    <3>4. ListTyped'
      BY <1>10, <2>2, <3>2, <3>3 DEF MonErase, ListTyped
    <3>5. QED
      BY <1>0, <1>10, <3>4, TypesAreParts DEF MonErase, Scalars, QueueTyped
  <2>5. ASSUME NEW k \in DOMAIN handlers', handlers'[k] = "live"
        PROVE  /\ IF k < pos THEN k \in DOMAIN handlers /\ Live(k)
                             ELSE k + 1 \in DOMAIN handlers /\ Live(k + 1)
               /\ ~Live(pos)
    BY <1>0, <2>1, <2>2, <2>3, <2>5 DEF OneLiveHandler
  <2>6. OneLiveHandler'
    <3>1. ASSUME NEW i \in DOMAIN handlers', NEW j \in DOMAIN handlers',
                 handlers'[i] = "live", handlers'[j] = "live"
          PROVE  i = j
      <4> DEFINE was(k) == IF k < pos THEN k ELSE k + 1
      <4>1. was(i) = was(j)
        BY <2>5, <3>1 DEF OneLiveHandler
      <4>2. QED
        BY <1>0, <2>1, <2>3, <4>1
    <3>2. ASSUME NEW i \in DOMAIN handlers', handlers'[i] = "live"
          PROVE  user' \in {"enable", "wait"} /\ ~answered'
      BY <1>10, <2>5, <3>2 DEF MonErase, OneLiveHandler, AnswersOnce
    <3>3. QED
      BY <3>1, <3>2 DEF OneLiveHandler
  <2>7. AnswersOnce'
    BY <1>10, <2>5 DEF MonErase, OneLiveHandler, AnswersOnce
  <2>8. QED
    BY <2>4, <2>6, <2>7
<1>11. QED
  BY <1>1, <1>2, <1>3, <1>4, <1>5, <1>6, <1>7, <1>8, <1>9, <1>10 DEF Next, Monitor

LEMMA AlwaysListInv == Spec => []ListInv
<1>1. ListInv /\ [Next]_vars => ListInv'
  <2>1. ListInv /\ UNCHANGED vars => ListInv'
    BY DEF vars, ListInv, TypeOK, OneLiveHandler, AnswersOnce, Live, InHandler
  <2>2. QED
    BY <2>1, ListKept
<1>2. QED
  BY InitList, <1>1, PTL DEF Spec

-----------------------------------------------------------------------------
\* A START left is one that was left before, or a new one of a bound gadget.
LEMMA StartsKept ==
    ASSUME ListInv, Next, StartLeft'
    PROVE  StartLeft \/ mon = "raise" \/ (Uevent /\ bound # "none")
<1> USE DEF StartLeft
<1>0. queue \in Seq(Events)
  BY DEF ListInv, TypeOK
<1>1. ASSUME Uevent PROVE StartLeft \/ bound # "none"
  <2>1. CASE bound = "none"
    <3>1. PICK e \in Events : e # "START" /\ queue' = Append(queue, e)
      BY <1>1, <2>1 DEF Uevent
    <3>2. \A i \in DOMAIN queue' : queue'[i] = "START" => i \in DOMAIN queue /\ queue[i] = "START"
      BY <1>0, <3>1
    <3>3. QED
      BY <1>1, <3>2 DEF Uevent
  <2>2. QED
    BY <2>1
<1>2. ASSUME MonRead PROVE StartLeft
  <2>1. /\ queue # <<>> /\ event' = Head(queue) /\ queue' = Tail(queue)
        /\ 1 \in DOMAIN queue /\ Head(queue) = queue[1]
    BY <1>0, <1>2 DEF MonRead
  <2>2. \A i \in DOMAIN queue' : i + 1 \in DOMAIN queue /\ queue'[i] = queue[i + 1]
    BY <1>0, <2>1
  <2>3. QED
    BY <2>1, <2>2
<1>3. ASSUME MonLoop \/ MonDrop \/ MonRaise \/ MonSet \/ MonErase
      PROVE  StartLeft \/ mon = "raise"
  BY <1>3 DEF MonLoop, MonDrop, MonRaise, MonSet, MonErase
<1>4. ASSUME AddHandler \/ EnableDefault \/ WaitReady \/ WaitTimeout \/ DisableAll
      PROVE  StartLeft
  BY <1>4 DEF AddHandler, EnableDefault, WaitReady, WaitTimeout, DisableAll
<1>5. QED
  BY <1>1, <1>2, <1>3, <1>4 DEF Next, Monitor

\* A handler that holds the promise held it before, and its call has not ended.
LEMMA HolderStays ==
    ASSUME ListInv, Next, InHandler', Live(pos)', ~MonLoop
    PROVE  InHandler /\ Live(pos) /\ ~WaitReady /\ ~WaitTimeout
<1> USE DEF InHandler, Live
<1>0. /\ handlers \in Seq(Handlers) /\ Len(handlers) \in Nat
      /\ pos \in Nat /\ 1 <= pos
      /\ InHandler => pos <= Len(handlers)
  BY TypesAreParts DEF ListInv, ListTyped
<1>1. ASSUME AddHandler PROVE InHandler /\ Live(pos)
  <2>1. InHandler
    BY <1>1 DEF AddHandler
  <2>2. pos' = pos
    BY <1>0, <1>1, <2>1 DEF AddHandler
  <2>3. handlers' = Append(handlers, "live") => handlers'[pos] = handlers[pos]
    BY <1>0, <2>1, AppendFacts DEF Handlers
  <2>4. QED
    BY <1>1, <2>1, <2>2, <2>3 DEF AddHandler
<1>2. ASSUME WaitReady \/ WaitTimeout PROVE FALSE
  BY <1>0, <1>2, ExpireFacts DEF WaitReady, WaitTimeout
<1>3. ASSUME EnableDefault \/ DisableAll \/ Uevent \/ MonDrop \/ MonRaise
      PROVE  InHandler /\ Live(pos)
  BY <1>3 DEF EnableDefault, DisableAll, Uevent, MonDrop, MonRaise
<1>4. ~(MonRead \/ MonSet \/ MonErase)
  BY DEF MonRead, MonSet, MonErase
<1>5. QED
  BY <1>1, <1>2, <1>3, <1>4 DEF Next, Monitor

\* With live handlers only during a call, the gadgets follow the call.
LEMMA GadgetKept ==
    ASSUME Prompt, ListInv, GadgetInv, Next
    PROVE  GadgetInv'
<1> USE DEF GadgetInv
<1>1. /\ bound \in {"none", "default", "accessory"}
      /\ user \in {"idle", "enable", "wait", "over"}
      /\ InHandler /\ Live(pos) => user \in {"enable", "wait"}
  BY TypesAreParts DEF ListInv, Scalars, ListTyped, InHandler, OneLiveHandler, Live
<1>2. StartNeedsGadget'
  <2>1. SUFFICES ASSUME StartLeft', bound' = "none" PROVE mon' = "raise"
    BY DEF StartNeedsGadget
  <2>2. StartLeft \/ mon = "raise" \/ (Uevent /\ bound # "none")
    BY <2>1, StartsKept
  <2>3. ~DisableAll
    BY <2>1 DEF DisableAll, StartLeft
  <2>4. CASE mon = "raise"
    BY <1>1, <2>1, <2>3, <2>4
    DEF Next, AddHandler, EnableDefault, WaitReady, WaitTimeout, Uevent, Monitor,
        MonRead, MonLoop, MonDrop, MonRaise, MonSet, MonErase, Enable
  <2>5. CASE bound # "none"
    BY <1>1, <2>1, <2>3, <2>5
    DEF Next, AddHandler, EnableDefault, WaitReady, WaitTimeout, Uevent, Monitor,
        MonRead, MonLoop, MonDrop, MonRaise, MonSet, MonErase, Enable, Disable
  <2>6. QED
    BY <2>2, <2>4, <2>5 DEF StartNeedsGadget
<1>3. NotYetDefault'
  BY <1>1
  DEF NotYetDefault, Next, AddHandler, EnableDefault, WaitReady, WaitTimeout, DisableAll,
      Uevent, Monitor, MonRead, MonLoop, MonDrop, MonRaise, MonSet, MonErase, Enable,
      Disable
<1>4. HolderSwitches'
  <2>1. SUFFICES ASSUME InHandler', Live(pos)'
                 PROVE  /\ user' = "wait" \/ bound' = "accessory"
                        /\ mon' = "raise" => bound' # "default"
                        /\ mon' = "set" => bound' = "accessory"
    BY DEF HolderSwitches
  <2>2. CASE MonLoop
    <3>1. mon' = "drop" /\ user' = user /\ bound' = bound
      BY <2>1, <2>2 DEF MonLoop, InHandler
    <3>2. mon = "loop" /\ event = "START"
      BY <2>2, <3>1 DEF MonLoop
    <3>3. pos \in DOMAIN handlers /\ handlers[pos] = "live"
      BY <2>2, <3>1, TypesAreParts DEF MonLoop, ListInv, ListTyped
    <3>4. user \in {"enable", "wait"}
      BY <3>3 DEF ListInv, OneLiveHandler
    <3>5. bound # "none"
      BY <3>2 DEF StartNeedsGadget, StartLeft
    <3>6. QED
      BY <1>1, <3>1, <3>4, <3>5 DEF NotYetDefault
  <2>3. CASE ~MonLoop
    <3>1. InHandler /\ Live(pos) /\ ~WaitReady /\ ~WaitTimeout
      BY <2>1, <2>3, HolderStays
    <3>2. /\ user \in {"enable", "wait"}
          /\ user = "wait" \/ bound = "accessory"
          /\ mon = "raise" => bound # "default"
          /\ mon = "set" => bound = "accessory"
      BY <1>1, <3>1 DEF HolderSwitches
    <3>3. QED
      BY <1>1, <2>1, <2>3, <3>1, <3>2
      DEF InHandler, Next, AddHandler, EnableDefault, DisableAll, Uevent, Monitor,
          MonRead, MonDrop, MonRaise, MonSet, MonErase, Enable, Disable
  <2>4. QED
    BY <2>2, <2>3
<1>5. AnswerIsTrue'
  BY <1>1
  DEF AnswerIsTrue, HolderSwitches, InHandler, Live, Next, AddHandler, EnableDefault,
      WaitReady, WaitTimeout, DisableAll, Uevent, Monitor, MonRead, MonLoop, MonDrop,
      MonRaise, MonSet, MonErase, Enable, Disable
<1>6. QED
  BY <1>2, <1>3, <1>4, <1>5

LEMMA AlwaysGadgetInv == Prompt /\ Spec => []GadgetInv
<1>1. Init => GadgetInv
  <2>1. Init => DOMAIN queue = {} /\ DOMAIN handlers = {}
    BY DEF Init
  <2>2. QED
    BY <2>1 DEF Init, GadgetInv, StartNeedsGadget, StartLeft, NotYetDefault,
       HolderSwitches, AnswerIsTrue, InHandler
<1>2. Prompt /\ ListInv /\ GadgetInv /\ [Next]_vars => GadgetInv'
  <2>1. GadgetInv /\ UNCHANGED vars => GadgetInv'
    BY DEF vars, GadgetInv, StartNeedsGadget, StartLeft, NotYetDefault, HolderSwitches,
       AnswerIsTrue, InHandler, Live
  <2>2. QED
    BY <2>1, GadgetKept
<1>3. CASE Prompt
  BY <1>1, <1>2, <1>3, AlwaysListInv, PTL DEF Spec
<1>4. QED
  BY <1>3

-----------------------------------------------------------------------------
\* The types hold, whatever races with an erase of the monitor: the iterator
\* stays in the list, or one past its end (TypeOK, usb.cpp:55).
THEOREM TypeCorrect == Spec => []TypeOK
<1>1. ListInv => TypeOK
  BY DEF ListInv
<1>2. QED
  BY <1>1, AlwaysListInv, PTL

\* At most one handler is live, and its promise is answered only by it: no value
\* is ever set twice (OneLiveHandler, usb.cpp:84-109).
THEOREM AnsweredOnce == Spec => []OneLiveHandler
<1>1. ListInv => OneLiveHandler
  BY DEF ListInv
<1>2. QED
  BY <1>1, AlwaysListInv, PTL

\* If no START outlives its gadget, a call that returns true leaves the accessory
\* gadget bound (TrueMeansAccessory, usb.cpp:73).
THEOREM TrueIsAccessory == Prompt /\ Spec => TrueMeansAccessory
<1>1. GadgetInv => [user = "wait" /\ user' = "over" /\ answered => bound = "accessory"]_vars
  BY DEF GadgetInv, AnswerIsTrue
<1>2. QED
  BY <1>1, AlwaysGadgetInv, PTL DEF TrueMeansAccessory

-----------------------------------------------------------------------------
\* A step of the caller is the same step of the gadgets its callers see.
LEMMA CallerImplements ==
    ASSUME ListInv,
           AddHandler \/ EnableDefault \/ WaitReady \/ WaitTimeout \/ DisableAll
    PROVE  Accessory!UsbNext
<1> USE DEF Live
<1>0. /\ handlers \in Seq(Handlers) /\ Len(handlers) \in Nat
      /\ pos \in Nat /\ 1 <= pos
      /\ InHandler => pos <= Len(handlers) /\ handlers[pos] \in Handlers
  BY TypesAreParts DEF ListInv, ListTyped, InHandler
<1>1. ASSUME AddHandler PROVE Accessory!AddHandler
  <2>1. InHandler' = InHandler /\ mon' = mon
    BY <1>1 DEF AddHandler, InHandler
  <2>2. InHandler => pos' = pos
    BY <1>0, <1>1 DEF AddHandler
  <2>3. InHandler => handlers'[pos] = handlers[pos]
    BY <1>0, <1>1, AppendFacts DEF AddHandler, Handlers
  <2>4. QED
    BY <1>1, <2>1, <2>2, <2>3 DEF AddHandler, Accessory!AddHandler
<1>2. ASSUME EnableDefault PROVE Accessory!EnableDefault
  BY <1>2 DEF EnableDefault, Enable, InHandler, Accessory!EnableDefault, Accessory!Enable
<1>3. ASSUME DisableAll PROVE Accessory!DisableAll
  BY <1>3 DEF DisableAll, InHandler, Accessory!DisableAll
<1>4. ASSUME WaitReady \/ WaitTimeout
      PROVE  /\ InHandler' = InHandler /\ mon' = mon /\ pos' = pos
             /\ InHandler => handlers'[pos] = "stale"
  BY <1>0, <1>4, ExpireFacts DEF WaitReady, WaitTimeout, InHandler
<1>5. ASSUME WaitReady PROVE Accessory!WaitReady
  <2>1. InHandler => handlers[pos] = "stale"
    BY <1>0, <1>5 DEF WaitReady, ListInv, AnswersOnce, InHandler, Handlers
  <2>2. QED
    BY <1>4, <1>5, <2>1 DEF WaitReady, Accessory!WaitReady
<1>6. ASSUME WaitTimeout PROVE Accessory!WaitTimeout
  BY <1>4, <1>6 DEF WaitTimeout, InHandler, Accessory!WaitTimeout
<1>7. QED
  BY <1>1, <1>2, <1>3, <1>5, <1>6 DEF Accessory!UsbNext

\* A step of the monitor is a step of the switch, its start, or a stutter.
LEMMA MonitorImplements ==
    ASSUME ListInv, Prompt => StartNeedsGadget, Uevent \/ Monitor
    PROVE  Accessory!UsbNext \/ UNCHANGED Accessory!usbVars
<1>1. ASSUME Uevent \/ MonRead \/ MonErase PROVE UNCHANGED Accessory!usbVars
  BY <1>1 DEF Uevent, MonRead, MonErase, InHandler, Accessory!usbVars
<1>2. ASSUME MonLoop PROVE Accessory!HandleStart \/ UNCHANGED Accessory!usbVars
  <2>1. CASE mon' = "drop"
    <3>1. /\ mon = "loop" /\ event = "START" /\ handlers' = handlers /\ pos' = pos
          /\ bound' = bound /\ user' = user /\ answered' = answered
      BY <1>2, <2>1 DEF MonLoop
    <3>2. pos \in DOMAIN handlers /\ handlers[pos] = "live"
      BY <1>2, <2>1, TypesAreParts DEF MonLoop, ListInv, ListTyped
    <3>3. user \in {"enable", "wait"} /\ ~answered
      BY <3>1, <3>2 DEF ListInv, OneLiveHandler
    <3>4. bound # "none" \/ ~Prompt
      BY <3>1 DEF StartNeedsGadget, StartLeft
    <3>5. ~InHandler /\ InHandler' /\ handlers'[pos'] # "stale"
      BY <2>1, <3>1, <3>2 DEF InHandler
    <3>6. QED
      BY <2>1, <3>1, <3>3, <3>4, <3>5 DEF Accessory!HandleStart
  <2>2. CASE mon' # "drop"
    <3>1. ~InHandler /\ ~InHandler'
      BY <1>2, <2>2 DEF MonLoop, InHandler
    <3>2. QED
      BY <1>2, <3>1 DEF MonLoop, Accessory!usbVars
  <2>3. QED
    BY <2>1, <2>2
<1>3. ASSUME MonDrop PROVE Accessory!SwitchDrop
  BY <1>3 DEF MonDrop, InHandler, Disable, Accessory!SwitchDrop, Accessory!Disable
<1>4. ASSUME MonRaise PROVE Accessory!SwitchRaise
  BY <1>4 DEF MonRaise, InHandler, Enable, Accessory!SwitchRaise, Accessory!Enable
<1>5. ASSUME MonSet PROVE Accessory!SwitchAnswer
  <2>1. InHandler /\ ~InHandler' /\ mon = "set"
    BY <1>5 DEF MonSet, InHandler
  <2>2. handlers[pos] \in Handlers /\ answered \in BOOLEAN
    BY <2>1, TypesAreParts DEF ListInv, Scalars, ListTyped
  <2>3. (handlers[pos] = "live") = ~(handlers[pos] = "stale")
    BY <2>2 DEF Handlers
  <2>4. QED
    BY <1>5, <2>1, <2>3 DEF MonSet, Accessory!SwitchAnswer
<1>6. QED
  BY <1>1, <1>2, <1>3, <1>4, <1>5 DEF Monitor, Accessory!UsbNext, Accessory!Switch

\* UsbManager and the monitor's walk over the list do what AccessoryGadget says:
\* the safety part of the refinement (StepsOfAccessoryGadget, usb.cpp:84-134,
\* uevent.cpp:42-56).
THEOREM ImplementsSteps == Spec => StepsOfAccessoryGadget
<1>1. Init => Accessory!UsbInit
  BY DEF Init, InHandler, Accessory!UsbInit
<1>2. ListInv /\ (Prompt => GadgetInv) /\ [Next]_vars => [Accessory!UsbNext]_(Accessory!usbVars)
  <2>1. UNCHANGED vars => UNCHANGED Accessory!usbVars
    BY DEF vars, InHandler, Accessory!usbVars
  <2>2. QED
    BY <2>1, CallerImplements, MonitorImplements DEF Next, GadgetInv
<1>3. Spec => [](Prompt => GadgetInv)
  <2>1. CASE Prompt
    <3>1. GadgetInv => (Prompt => GadgetInv)
      OBVIOUS
    <3>2. QED
      BY <2>1, <3>1, AlwaysGadgetInv, PTL
  <2>2. CASE ~Prompt
    BY <2>2, PTL
  <2>3. QED
    BY <2>1, <2>2
<1>4. QED
  BY <1>1, <1>2, <1>3, AlwaysListInv, PTL DEF Spec, StepsOfAccessoryGadget
=============================================================================
