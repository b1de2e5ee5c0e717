-------------------------------- MODULE AbUpdate --------------------------------
(***************************************************************************)
(* What the update scripts promise to whoever drives the car: there is one *)
(* proven slot, it holds a good image that is never written, and an image  *)
(* that is not proven is only tried, from its own slot, until it has shown *)
(* that it is good or the proven one is taken again.  The files, the boot  *)
(* counts and the steps of the scripts are left out here: OtaUpdate has    *)
(* them.                                                                   *)
(***************************************************************************)

CONSTANTS
    Slots,      \* where images are
    None        \* no slot

VARIABLES
    proven,     \* the slot that was shown to be good last
    next,       \* the slot the next boot takes; None once root= is destroyed
    image,      \* what each slot holds
    running     \* the slot that runs, None while the power is off

abVars == <<proven, next, image, running>>

AbInit ==
    /\ proven \in Slots /\ next = proven /\ running = proven
    /\ image \in [Slots -> {"good", "sick", "dead"}] /\ image[proven] = "good"

PowerOff ==
    /\ running' = None
    /\ UNCHANGED <<proven, next, image>>

PowerOn ==
    /\ running = None /\ next # None
    /\ image[next] \in {"good", "sick"}
    /\ running' = next
    /\ UNCHANGED <<proven, next, image>>

\* The state in which an update may work: the proven slot runs and will be taken again.
Proven == running # None /\ running = proven /\ next = proven

\* An update writes another slot, whole or in part.
Flash ==
    /\ Proven
    /\ \E s \in Slots \ {proven}, i \in {"good", "sick", "dead", "torn"} :
           image' = [image EXCEPT ![s] = i]
    /\ UNCHANGED <<proven, next, running>>

\* What has been written whole is tried.
Try ==
    /\ Proven
    /\ next' \in {s \in Slots \ {proven} : image[s] # "torn"}
    /\ UNCHANGED <<proven, image, running>>

\* Only what runs and is good is taken for proven; power may go with it.
Accept ==
    /\ next # proven /\ running # None
    /\ running = next /\ image[next] = "good"
    /\ proven' = next
    /\ running' \in {running, None}
    /\ UNCHANGED <<next, image>>

\* It is given up by the one it has booted.
GiveUp ==
    /\ next # proven /\ running # None /\ running = next
    /\ next' = proven
    /\ UNCHANGED <<proven, image, running>>

\* Power goes while root= is written: for good, as nothing boots.
Destroy ==
    /\ running # None
    /\ proven' = None /\ next' = None /\ running' = None
    /\ UNCHANGED image

AbNext == PowerOff \/ PowerOn \/ Flash \/ Try \/ Accept \/ GiveUp \/ Destroy

AbSpec == AbInit /\ [][AbNext]_abVars
=============================================================================
