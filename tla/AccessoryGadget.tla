--------------------------- MODULE AccessoryGadget ---------------------------
(***************************************************************************)
(* What UsbManager promises to the thread that calls                       *)
(* enableDefaultAndWaitForAccessory and disableGadget: one USB device      *)
(* controller, at most one gadget bound to it, one caller at a time that   *)
(* asks for the accessory, and a switch from the default to the accessory  *)
(* gadget performed by another thread once the host sends START.           *)
(*                                                                         *)
(* The list of uevent handlers and the loop of the monitor thread are      *)
(* left out here: UsbManager.tla has them, and implements this module.     *)
(***************************************************************************)

CONSTANT
    LateStart    \* START may reach the handler of a call that began after the
                 \* gadget it came through was disabled

VARIABLES
    bound,     \* the gadget bound to the UDC: "none", "default", "accessory"
    user,      \* the caller: "idle", "enable" (handler added, gadget not yet
               \* enabled), "wait", "over" (returned, gadgets not yet disabled)
    answered,  \* whether the promise of the call in progress has its value
    switcher,  \* the START handler: "idle", "drop", "raise", "set"
    orphan     \* the handler running holds the promise of a call that gave up

ASSUME LateStartAssumption == LateStart \in BOOLEAN

usbVars == <<bound, user, answered, switcher, orphan>>

UsbTypeOK ==
    /\ bound \in {"none", "default", "accessory"}
    /\ user \in {"idle", "enable", "wait", "over"}
    /\ answered \in BOOLEAN
    /\ switcher \in {"idle", "drop", "raise", "set"}
    /\ orphan \in BOOLEAN

\* The constructor of UsbManager disables both gadgets.
UsbInit ==
    /\ bound = "none"
    /\ user = "idle"
    /\ answered = FALSE
    /\ switcher = "idle"
    /\ orphan = FALSE

-----------------------------------------------------------------------------
\* Writing a gadget's UDC file: a busy controller refuses the new gadget (the
\* code ignores the error), clearing the file of an unbound gadget does nothing.
Enable(gadget) == bound' = IF bound = "none" THEN gadget ELSE bound

Disable(gadget) == bound' = IF bound = gadget THEN "none" ELSE bound

\* disableGadget(): the default gadget, then the accessory gadget.
DisableAll ==
    /\ user \in {"idle", "over"}
    /\ bound' = "none"
    /\ user' = "idle"
    /\ UNCHANGED <<answered, switcher, orphan>>

\* enableDefaultAndWaitForAccessory, one action per step of the caller.
AddHandler ==
    /\ user = "idle"
    /\ user' = "enable"
    /\ answered' = FALSE
    /\ UNCHANGED <<bound, switcher, orphan>>

EnableDefault ==
    /\ user = "enable"
    /\ Enable("default")
    /\ user' = "wait"
    /\ UNCHANGED <<answered, switcher, orphan>>

\* The call returns true.
WaitReady ==
    /\ user = "wait"
    /\ answered
    /\ user' = "over"
    /\ UNCHANGED <<bound, answered, switcher, orphan>>

\* The call returns false and drops its promise. A handler that has locked the
\* promise already goes on with a promise nobody waits for.
WaitTimeout ==
    /\ user = "wait"
    /\ ~answered
    /\ user' = "over"
    /\ orphan' = (switcher # "idle")
    /\ UNCHANGED <<bound, answered, switcher>>

\* The host sends START to the bound gadget and the live handler is called.
HandleStart ==
    /\ switcher = "idle"
    /\ bound # "none" \/ LateStart
    /\ user \in {"enable", "wait"}
    /\ ~answered
    /\ switcher' = "drop"
    /\ UNCHANGED <<bound, user, answered, orphan>>

\* switchToAccessoryGadget, then the value of the promise.
SwitchDrop ==
    /\ switcher = "drop"
    /\ Disable("default")
    /\ switcher' = "raise"
    /\ UNCHANGED <<user, answered, orphan>>

SwitchRaise ==
    /\ switcher = "raise"
    /\ Enable("accessory")
    /\ switcher' = "set"
    /\ UNCHANGED <<user, answered, orphan>>

SwitchAnswer ==
    /\ switcher = "set"
    /\ switcher' = "idle"
    /\ answered' = (answered \/ ~orphan)
    /\ orphan' = FALSE
    /\ UNCHANGED <<bound, user>>

Switch == SwitchDrop \/ SwitchRaise \/ SwitchAnswer

UsbNext ==
    \/ AddHandler \/ EnableDefault \/ WaitReady \/ WaitTimeout \/ DisableAll
    \/ HandleStart \/ Switch

UsbSpec ==
    /\ UsbInit /\ [][UsbNext]_usbVars
    /\ WF_usbVars(Switch)
=============================================================================
