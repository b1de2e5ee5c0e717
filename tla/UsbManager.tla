------------------------------ MODULE UsbManager ------------------------------
(***************************************************************************)
(* UsbManager and the thread of UeventMonitor: a caller that adds a handler *)
(* to the monitor's list, enables the default gadget and waits, and the    *)
(* monitor, which reads an event from the netlink socket and walks over    *)
(* the list, erasing the handlers that return true.  No lock protects the  *)
(* list.                                                                   *)
(***************************************************************************)
EXTENDS Naturals, Sequences

CONSTANTS
    MaxHandlers,  \* a bound on the length of the list
    MaxQueue,     \* a bound on the events waiting in the netlink socket
    Prompt        \* gadgets are disabled only when no START is left to handle

ASSUME UsbAssumption ==
    /\ MaxHandlers \in Nat
    /\ MaxQueue \in Nat
    /\ Prompt \in BOOLEAN

VARIABLES
    bound,        \* the gadget bound to the UDC
    user,         \* the caller: "idle", "enable", "wait", "over"
    answered,     \* whether the caller's promise has its value
    handlers,     \* the list: "live" holds the caller's promise, "stale" one
                  \* that has expired
    queue,        \* netlink: "START" of the accessory, or any "other" event
    mon,          \* the monitor: "read", "loop", in a handler ("drop",
                  \* "raise", "set"), or "erase" after one returned true
    event,        \* the event being handled
    pos           \* the iterator: an index of the list, or one past its end

vars == <<bound, user, answered, handlers, queue, mon, event, pos>>

Events == {"START", "other"}
InHandler == mon \in {"drop", "raise", "set"}

TypeOK ==
    /\ bound \in {"none", "default", "accessory"}
    /\ user \in {"idle", "enable", "wait", "over"}
    /\ answered \in BOOLEAN
    /\ handlers \in Seq({"live", "stale"}) /\ Len(handlers) <= MaxHandlers
    /\ queue \in Seq(Events) /\ Len(queue) <= MaxQueue
    /\ mon \in {"read", "loop", "drop", "raise", "set", "erase"}
    /\ event \in Events
    /\ pos \in 1..(Len(handlers) + 1)
    /\ (InHandler \/ mon = "erase") => pos <= Len(handlers)

Init ==
    /\ bound = "none" /\ user = "idle" /\ answered = FALSE
    /\ handlers = <<>> /\ queue = <<>>
    /\ mon = "read" /\ event = "other" /\ pos = 1

-----------------------------------------------------------------------------
\* The caller.

\* push_back, which races with an erase of the monitor: the new node may end up
\* unlinked. (It may also break the list and crash the process.)
AddHandler ==
    /\ user = "idle"
    /\ Len(handlers) < MaxHandlers
    /\ \/ handlers' = Append(handlers, "live")
       \/ mon = "erase" /\ UNCHANGED handlers
    /\ pos' = IF pos > Len(handlers) THEN Len(handlers') + 1 ELSE pos
    /\ user' = "enable"
    /\ answered' = FALSE
    /\ UNCHANGED <<bound, queue, mon, event>>

Enable(gadget) == bound' = IF bound = "none" THEN gadget ELSE bound

Disable(gadget) == bound' = IF bound = gadget THEN "none" ELSE bound

EnableDefault ==
    /\ user = "enable"
    /\ Enable("default")
    /\ user' = "wait"
    /\ UNCHANGED <<answered, handlers, queue, mon, event, pos>>

\* Mutant: the handler owns the promise, which never expires.
MutantExpire == UNCHANGED handlers

\* The call ends and its promise with it: every handler left has an expired one.
Expire == handlers' = [i \in DOMAIN handlers |-> "stale"]

WaitReady ==
    /\ user = "wait"
    /\ answered
    /\ user' = "over"
    /\ Expire
    /\ UNCHANGED <<bound, answered, queue, mon, event, pos>>

WaitTimeout ==
    /\ user = "wait"
    /\ ~answered
    /\ user' = "over"
    /\ Expire
    /\ UNCHANGED <<bound, answered, queue, mon, event, pos>>

StartLeft ==
    \/ \E i \in DOMAIN queue : queue[i] = "START"
    \/ mon \in {"loop", "set", "erase"} /\ event = "START"

DisableAll ==
    /\ user \in {"idle", "over"}
    /\ Prompt => ~StartLeft
    /\ bound' = "none"
    /\ user' = "idle"
    /\ UNCHANGED <<answered, handlers, queue, mon, event, pos>>

-----------------------------------------------------------------------------
\* The kernel: the bound gadget's START, and events of any other kind.
Uevent ==
    /\ Len(queue) < MaxQueue
    /\ \E e \in Events :
         /\ e = "START" => bound # "none"
         /\ queue' = Append(queue, e)
    /\ UNCHANGED <<bound, user, answered, handlers, mon, event, pos>>

\* The monitor.
MonRead ==
    /\ mon = "read"
    /\ queue # <<>>
    /\ event' = Head(queue)
    /\ queue' = Tail(queue)
    /\ mon' = "loop"
    /\ pos' = 1
    /\ UNCHANGED <<bound, user, answered, handlers>>

\* The loop's test, and the handler's own tests: the promise first, then START.
MonLoop ==
    /\ mon = "loop"
    /\ \/ /\ pos > Len(handlers)
          /\ mon' = "read"
          /\ UNCHANGED pos
       \/ /\ pos <= Len(handlers)
          /\ handlers[pos] = "stale"
          /\ mon' = "erase"
          /\ UNCHANGED pos
       \/ /\ pos <= Len(handlers)
          /\ handlers[pos] = "live" /\ event = "other"
          /\ pos' = pos + 1
          /\ UNCHANGED mon
       \/ /\ pos <= Len(handlers)
          /\ handlers[pos] = "live" /\ event = "START"
          /\ mon' = "drop"
          /\ UNCHANGED pos
    /\ UNCHANGED <<bound, user, answered, handlers, queue, event>>

\* Mutant: the default gadget stays enabled.
MutantDrop ==
    /\ mon = "drop"
    /\ mon' = "raise"
    /\ UNCHANGED <<bound, user, answered, handlers, queue, event, pos>>

\* switchToAccessoryGadget.
MonDrop ==
    /\ mon = "drop"
    /\ Disable("default")
    /\ mon' = "raise"
    /\ UNCHANGED <<user, answered, handlers, queue, event, pos>>

MonRaise ==
    /\ mon = "raise"
    /\ Enable("accessory")
    /\ mon' = "set"
    /\ UNCHANGED <<user, answered, handlers, queue, event, pos>>

\* Mutant: the handler answers the call in progress, not the one it belongs to.
MutantSet ==
    /\ mon = "set"
    /\ answered' = TRUE
    /\ mon' = "erase"
    /\ UNCHANGED <<bound, user, handlers, queue, event, pos>>

\* The promise the handler has locked is the caller's only if it did not expire.
MonSet ==
    /\ mon = "set"
    /\ answered' = (answered \/ handlers[pos] = "live")
    /\ mon' = "erase"
    /\ UNCHANGED <<bound, user, handlers, queue, event, pos>>

Erased(list, i) == SubSeq(list, 1, i - 1) \o SubSeq(list, i + 1, Len(list))

\* Mutant: the iterator does not come round past the end.
MutantEraseNoWrap ==
    /\ mon = "erase"
    /\ handlers' = Erased(handlers, pos)
    /\ pos' = pos + 1
    /\ mon' = "loop"
    /\ UNCHANGED <<bound, user, answered, queue, event>>

\* it = erase(it), and the loop's ++it on top of it: the next handler is
\* skipped; past the end, std::list's iterator comes round to the first.
MonErase ==
    /\ mon = "erase"
    /\ handlers' = Erased(handlers, pos)
    /\ pos' = IF pos = Len(handlers) THEN 1 ELSE pos + 1
    /\ mon' = "loop"
    /\ UNCHANGED <<bound, user, answered, queue, event>>

Monitor == MonRead \/ MonLoop \/ MonDrop \/ MonRaise \/ MonSet \/ MonErase

Next ==
    \/ AddHandler \/ EnableDefault \/ WaitReady \/ WaitTimeout \/ DisableAll
    \/ Uevent \/ Monitor

Spec == Init /\ [][Next]_vars /\ WF_vars(Monitor)

-----------------------------------------------------------------------------
\* The caller has at most one live handler in the list, and has it only until
\* its promise is answered and the handler erased: set_value is never called
\* twice on a promise (usb.cpp:84-109).
OneLiveHandler ==
    /\ \A i, j \in DOMAIN handlers : handlers[i] = "live" /\ handlers[j] = "live" => i = j
    /\ (\E i \in DOMAIN handlers : handlers[i] = "live") =>
         user \in {"enable", "wait"} /\ (answered => mon = "erase")

\* UsbManager does what its callers see of it (AccessoryGadget.tla), whatever
\* the walk over the list skips.
Accessory == INSTANCE AccessoryGadget WITH
    switcher <- IF InHandler THEN mon ELSE "idle",
    orphan <- InHandler /\ handlers[pos] = "stale",
    LateStart <- ~Prompt

ImplementsAccessoryGadget == Accessory!UsbSpec

\* Its safety part: the first state, and every step or a stutter.
StepsOfAccessoryGadget ==
    Accessory!UsbInit /\ [][Accessory!UsbNext]_(Accessory!usbVars)

\* "Switched to accessory gadget from default" (usb.cpp:73): a call that returns
\* true leaves the accessory gadget bound.
TrueMeansAccessory ==
    [][user = "wait" /\ user' = "over" /\ answered => bound = "accessory"]_vars
=============================================================================
