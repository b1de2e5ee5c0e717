------------------------------- MODULE OtaProofs -------------------------------
(***************************************************************************)
(* Theorems about OtaUpdate, for any bundles, any value of max_boots, power *)
(* lost anywhere and files torn or not: some for any number of installers, *)
(* most with one at a time.                                                *)
(***************************************************************************)
EXTENDS OtaUpdate, TLAPS

OneInstaller == \A i, j \in Installers : i = j

\* A /persist that is missing hides an update that is not settled, and a /boot that
\* cannot be made read-only leaves one without its reboot: either that does not
\* happen, or no other update is ordered meanwhile.
NothingHidden == Patient \/ ("persist" \notin Failing /\ "readonly" \notin Failing)

\* A slot runs exactly while the system is up, and it has booted.
RunningInv ==
    /\ running = None <=> phase \in {"off", "hung"}
    /\ running # None => image[running] \in {"good", "sick"}

\* Installers run beside the services only.
ServicesInv == \A i \in Installers : installer[i] # "idle" => phase \in ServicePhases

\* What holds for any number of installers: the slot that runs is whole.
SlotInv == TypeOK /\ RunningInv /\ ServicesInv

\* While a slot runs the next boot takes it again, but for the time between a
\* switch of the root and the reboot that follows or, without one, the end of
\* the drive.
Stayed ==
    /\ "readonly" \in Failing
    /\ phase \in ServicePhases
    /\ \A i \in Installers : installer[i] = "idle"
Switched == phase \in {"clear", "reset", "reboot"} \/ InstallerAt("reboot") \/ Stayed
TargetInv == running # None => cmdline # None /\ (cmdline = running \/ Switched)

\* How far an installer has come, and what it has written by then.
InstallerInv ==
    \A i \in Installers :
        /\ installer[i] # "idle" => phase \in ServicePhases
        /\ installer[i] \notin {"idle", "previous"} /\ persist => previous_root = running
        /\ installer[i] \notin {"idle", "previous", "target"} /\ persist =>
             pending_target_root = OtherSlot(running)
        /\ installer[i] # "idle" => persist \/ ~Unsettled
        /\ installer[i] \in {"switch", "reboot"} => image[OtherSlot(running)] # "torn"

\* A partition that cannot but be mounted is.
MountedInv == "persist" \notin Failing /\ running # None => persist

\* Only a slot whose update is pending is counted and rolled back.
JudgedInv == phase \in {"count", "rollback"} => Pending

\* A rollback of the boot target would take a slot that is not half written.
WayBackInv ==
    /\ upgrade_pending
    /\ cmdline # None /\ cmdline = pending_target_root
    /\ previous_root \notin {None, cmdline}
    => image[previous_root] # "torn"

IntactInv ==
    /\ TypeOK /\ RunningInv /\ TargetInv /\ InstallerInv /\ MountedInv /\ JudgedInv
    /\ WayBackInv /\ BootTargetIntact

\* With a patient user an installer runs only in a good slot that is not pending.
PatientInv ==
    /\ phase = "confirm" => Pending
    /\ \A i \in Installers :
        /\ installer[i] # "idle" => image[running] = "good" /\ ~Unsettled
        /\ installer[i] \in {"download", "apply", "flash", "switch", "reboot"} /\ persist =>
             upgrade_pending

\* What a rollback takes is good, and what it has taken too.
GoodWayBackInv ==
    /\ upgrade_pending /\ cmdline # None /\ cmdline = pending_target_root
         /\ previous_root \notin {None, cmdline} => image[previous_root] = "good"
    /\ phase \in {"clear", "reset", "reboot"} => image[cmdline] = "good"
    /\ phase = "confirm" => image[running] = "good"

KeptInv == PatientInv /\ GoodWayBackInv /\ FallbackReady

\* All this as long as the way back has not been given up.
FallbackInv == IntactInv /\ (lost \/ KeptInv)

-----------------------------------------------------------------------------

\* There are two slots, and None is neither.
LEMMA SlotFacts ==
    /\ None \notin Slots
    /\ \A s \in Slots : OtherSlot(s) \in Slots /\ OtherSlot(s) # s
    /\ \A s, t \in Slots : s # t => t = OtherSlot(s)
BY OtaAssumption DEF Slots, OtherSlot

\* A good image runs in slot A and nothing is pending.
LEMMA IntactInit == Init => IntactInv
<1> SUFFICES ASSUME Init PROVE IntactInv
    OBVIOUS
<1> USE OtaAssumption DEF Init
<1>1. TypeOK
    <2>1. image \in [Slots -> {"good", "sick", "dead", "torn"}]
        BY Zenon
    <2>2. bootcount \in 0..(MaxBoots + 1)
        OBVIOUS
    <2>3. installer \in [Installers -> Steps]
        BY DEF Steps
    <2> QED
        BY <2>1, <2>2, <2>3 DEF TypeOK, Slots, MaybeSlot, Phases, ServicePhases
<1>2. RunningInv /\ TargetInv /\ InstallerInv /\ MountedInv /\ JudgedInv /\ WayBackInv
    BY DEF RunningInv, TargetInv, InstallerInv, MountedInv, JudgedInv, WayBackInv, Slots
<1>3. BootTargetIntact
    BY DEF BootTargetIntact
<1> QED
    BY <1>1, <1>2, <1>3 DEF IntactInv

\* Every variable keeps its type; a slot that runs is one of the two.
LEMMA TypeStep == SlotInv /\ [Next]_vars => TypeOK'
<1> SUFFICES ASSUME SlotInv, [Next]_vars PROVE TypeOK'
    OBVIOUS
<1> USE SlotFacts DEF SlotInv, TypeOK, MaybeSlot, Phases, RollbackPhases, ServicePhases, stateFiles, booted, Written
<1>0. /\ 0 \in 0..(MaxBoots + 1)
      /\ bootcount <= MaxBoots => bootcount + 1 \in 0..(MaxBoots + 1)
    BY OtaAssumption
<1>s. Stop => installer' \in [Installers -> Steps] /\ phase' \in Phases
                /\ running' \in MaybeSlot /\ persist' \in BOOLEAN
    BY DEF Stop, Steps
<1>1. CASE PowerCycle \/ PowerCut
    BY <1>1, <1>s DEF PowerCycle, PowerCut
<1>2. CASE TearState
    <2>1. UNCHANGED <<cmdline, image>> /\ Stop
        BY <1>2 DEF TearState
    <2>2. /\ previous_root' \in MaybeSlot /\ pending_target_root' \in MaybeSlot
          /\ upgrade_pending' \in BOOLEAN
        BY <1>2 DEF TearState
    <2>3. bootcount' \in {bootcount, 0} /\ lost' = lost
        BY <1>2 DEF TearState
    <2> QED
        BY <2>1, <2>2, <2>3, <1>0, <1>s
<1>3. CASE TearCmdline
    BY <1>3, <1>s DEF TearCmdline
<1>4. CASE BootStep
    <2>0. CASE Rollback
        BY <2>0 DEF Rollback, HasPrevious
    <2>1. CASE Bootstate \/ RollbackReboot \/ Confirm
        BY <2>1, <1>s DEF Bootstate, RollbackReboot, Confirm
    <2>5. CASE Boot
        <3>1. persist' \in BOOLEAN /\ running' \in MaybeSlot /\ phase' \in Phases
            BY <2>5 DEF Boot
        <3>2. /\ cmdline' = cmdline /\ image' = image /\ lost' = lost
              /\ installer' = installer /\ previous_root' = previous_root
              /\ pending_target_root' = pending_target_root
              /\ upgrade_pending' = upgrade_pending /\ bootcount' = bootcount
            BY <2>5 DEF Boot
        <3> QED
            BY <3>1, <3>2
    <2>2. CASE Count
        <3>1. bootcount' \in 0..(MaxBoots + 1)
            BY <2>2, <1>0, OtaAssumption DEF Count
        <3> QED
            BY <2>2, <3>1 DEF Count
    <2>3. CASE RollbackClear \/ ConfirmClear
        BY <2>3 DEF RollbackClear, ConfirmClear
    <2>4. CASE RollbackReset \/ ConfirmReset
        BY <2>4, <1>0 DEF RollbackReset, ConfirmReset
    <2> QED
        BY <1>4, <2>0, <2>1, <2>2, <2>3, <2>4, <2>5 DEF BootStep
<1>5. ASSUME NEW i \in Installers, Command(i) PROVE TypeOK'
    BY <1>5 DEF Command, Goes, Steps
<1>6. ASSUME NEW i \in Installers, InstallerStep(i) PROVE TypeOK'
    <2>1. installer[i] # "idle" => running \in Slots
        BY DEF ServicesInv, RunningInv
    <2>2. CASE Reboot(i)
        BY <2>2, <1>s DEF Reboot
    <2>3. CASE WritePrevious(i) \/ WriteTarget(i)
        BY <2>1, <2>3 DEF WritePrevious, WriteTarget, Goes, Steps
    <2>4. CASE WriteBootcount(i) \/ WritePending(i)
        BY <1>0, <2>4 DEF WriteBootcount, WritePending, Goes, Steps
    <2>5. CASE Download(i) \/ ApplyRejects(i) \/ ApplyFails(i) \/ SwitchFails(i)
        BY <2>5 DEF Download, ApplyRejects, ApplyFails, SwitchFails, Goes, Steps
    <2>6. CASE ApplyBegins(i) \/ ApplyEnds(i)
        <3>1. image' \in [Slots -> {"good", "sick", "dead", "torn"}]
            BY <2>6, OtaAssumption DEF ApplyBegins, ApplyEnds
        <3> QED
            BY <2>6, <3>1 DEF ApplyBegins, ApplyEnds, Goes, Steps
    <2>7. CASE SwitchRoot(i) \/ SwitchStays(i)
        BY <2>1, <2>7 DEF SwitchRoot, SwitchStays, Switches, Goes, Steps
    <2> QED
        BY <1>6, <2>2, <2>3, <2>4, <2>5, <2>6, <2>7 DEF InstallerStep
<1>7. CASE UNCHANGED vars
    BY <1>7 DEF vars
<1> QED
    BY <1>1, <1>2, <1>3, <1>4, <1>5, <1>6, <1>7 DEF Next

\* An installer that has begun runs beside the services.
LEMMA InstallersServe == InstallerInv => ServicesInv
BY DEF InstallerInv, ServicesInv

\* A slot that runs is not written, by however many installers.
LEMMA SlotStep == SlotInv /\ [Next]_vars => SlotInv'
<1> SUFFICES ASSUME SlotInv, [Next]_vars PROVE RunningInv' /\ ServicesInv'
    BY TypeStep DEF SlotInv
<1> USE SlotFacts DEF SlotInv, RunningInv, ServicesInv, ServicePhases, booted
<1>s. ASSUME Stop PROVE RunningInv' /\ ServicesInv'
    BY <1>s DEF Stop
<1>1. CASE PowerCycle \/ PowerCut \/ TearState \/ TearCmdline \/ RollbackReboot
    BY <1>1, <1>s DEF PowerCycle, PowerCut, TearState, TearCmdline, RollbackReboot
<1>2. CASE Boot
    BY <1>2 DEF Boot, TypeOK, MaybeSlot
<1>3. CASE Bootstate \/ Count \/ Rollback \/ RollbackClear \/ RollbackReset
    BY <1>3 DEF Bootstate, Count, Rollback, RollbackClear, RollbackReset
<1>4. CASE Confirm \/ ConfirmClear \/ ConfirmReset
    BY <1>4 DEF Confirm, ConfirmClear, ConfirmReset
<1>5. ASSUME NEW i \in Installers, Command(i) PROVE RunningInv' /\ ServicesInv'
    BY <1>5 DEF Command, Goes
<1>6. ASSUME NEW i \in Installers, InstallerStep(i) PROVE RunningInv' /\ ServicesInv'
    <2>1. CASE Reboot(i)
        BY <2>1, <1>s DEF Reboot
    <2>2. CASE ApplyBegins(i) \/ ApplyEnds(i)
        BY <2>2 DEF ApplyBegins, ApplyEnds, Goes, TypeOK, MaybeSlot
    <2>3. CASE SwitchRoot(i) \/ SwitchStays(i)
        BY <2>3 DEF SwitchRoot, SwitchStays, Switches, Goes
    <2>4. CASE Download(i) \/ ApplyRejects(i) \/ ApplyFails(i) \/ SwitchFails(i)
        BY <2>4 DEF Download, ApplyRejects, ApplyFails, SwitchFails, Goes
    <2>5. CASE WritePrevious(i) \/ WriteTarget(i) \/ WriteBootcount(i) \/ WritePending(i)
        BY <2>5 DEF WritePrevious, WriteTarget, WriteBootcount, WritePending, Goes
    <2> QED
        BY <1>6, <2>1, <2>2, <2>3, <2>4, <2>5 DEF InstallerStep
<1>7. CASE UNCHANGED vars
    BY <1>7 DEF vars
<1> QED
    BY <1>1, <1>2, <1>3, <1>4, <1>5, <1>6, <1>7 DEF Next, BootStep

\* However many installers run, a slot that runs is whole.
LEMMA SlotAlways == Spec => []SlotInv
<1>1. Init => SlotInv
    BY IntactInit, InstallersServe DEF IntactInv, SlotInv
<1> QED
    BY <1>1, SlotStep, PTL DEF Spec

\* When the system stops nothing runs.
LEMMA StopStep ==
    ASSUME Stop
    PROVE  (RunningInv /\ TargetInv /\ InstallerInv /\ MountedInv /\ JudgedInv)'
BY DEF Stop, RunningInv, TargetInv, InstallerInv, MountedInv, JudgedInv, ServicePhases

\* No step half writes the boot target or the slot a rollback would take.
LEMMA IntactStep == OneInstaller /\ NothingHidden /\ IntactInv /\ [Next]_vars => IntactInv'
<1> DEFINE Progress == RunningInv /\ TargetInv /\ InstallerInv /\ MountedInv /\ JudgedInv
           Intact == WayBackInv /\ BootTargetIntact
<1> SUFFICES ASSUME OneInstaller, NothingHidden, IntactInv, [Next]_vars PROVE Progress' /\ Intact'
    BY TypeStep, InstallersServe DEF IntactInv, SlotInv
<1> USE SlotFacts DEF IntactInv, stateFiles, booted, Written, MountedInv, Unsettled
<1>1. CASE PowerCycle \/ PowerCut
    <2>1. Stop /\ UNCHANGED <<cmdline, image, stateFiles>>
        BY <1>1 DEF PowerCycle, PowerCut
    <2> QED
        BY <2>1, StopStep DEF WayBackInv, BootTargetIntact
<1>2. CASE TearState
    <2>1. Stop /\ UNCHANGED <<cmdline, image>>
        BY <1>2 DEF TearState
    <2>2. \/ UNCHANGED <<previous_root, pending_target_root>> /\ (upgrade_pending' => upgrade_pending)
          \/ previous_root' = None
          \/ pending_target_root' = None
        BY <1>2 DEF TearState
    <2> QED
        BY <2>1, <2>2, StopStep DEF WayBackInv, BootTargetIntact
<1>3. CASE TearCmdline
    BY <1>3, StopStep DEF TearCmdline, WayBackInv, BootTargetIntact
<1>4. CASE Boot
    BY <1>4 DEF Boot, RunningInv, TargetInv, InstallerInv, JudgedInv, WayBackInv,
        BootTargetIntact, ServicePhases
<1>5. CASE Bootstate
    BY <1>5 DEF Bootstate, RunningInv, TargetInv, InstallerInv, JudgedInv, WayBackInv,
        BootTargetIntact, ServicePhases, Switched, Stayed, InstallerAt, Pending
<1>6. CASE Count
    BY <1>6 DEF Count, RunningInv, TargetInv, InstallerInv, JudgedInv, WayBackInv,
        BootTargetIntact, ServicePhases, Switched, Stayed, InstallerAt, Pending
<1>7. CASE Rollback
    BY <1>7 DEF Rollback, HasPrevious, RunningInv, TargetInv, InstallerInv, JudgedInv, WayBackInv,
        BootTargetIntact, ServicePhases, Switched, Stayed, InstallerAt, Pending, TypeOK, MaybeSlot
<1>8. CASE RollbackClear \/ RollbackReset
    BY <1>8 DEF RollbackClear, RollbackReset, RunningInv, TargetInv, InstallerInv, JudgedInv,
        WayBackInv, BootTargetIntact, ServicePhases, Switched, Stayed
<1>9. CASE RollbackReboot
    BY <1>9, StopStep DEF RollbackReboot, WayBackInv, BootTargetIntact
<1>10. CASE Confirm \/ ConfirmClear \/ ConfirmReset
    BY <1>10 DEF Confirm, ConfirmClear, ConfirmReset, RunningInv, TargetInv, InstallerInv,
        JudgedInv, WayBackInv, BootTargetIntact, ServicePhases, Switched, Stayed, InstallerAt
<1>11. ASSUME NEW i \in Installers, Command(i) PROVE Progress' /\ Intact'
    <2>1. /\ installer[i] = "idle" /\ installer' = [installer EXCEPT ![i] = "previous"]
          /\ phase \in ServicePhases /\ running # None
          /\ UNCHANGED <<cmdline, image>> /\ UNCHANGED phase
          /\ UNCHANGED running /\ UNCHANGED persist
          /\ UNCHANGED <<previous_root, pending_target_root, upgrade_pending>>
        BY <1>11 DEF Command, Goes, RunningInv, ServicePhases
    <2>2. persist \/ ~Unsettled
        BY <1>11, <2>1 DEF Command, NothingHidden
    <2>3. \A j \in Installers : installer'[j] = "previous"
        BY <2>1 DEF TypeOK, OneInstaller
    <2>4. InstallerInv'
        BY <2>1, <2>2, <2>3 DEF InstallerInv
    <2>5. (RunningInv /\ MountedInv /\ JudgedInv)'
        BY <2>1 DEF RunningInv, JudgedInv, Pending
    <2>6. ~InstallerAt("reboot") /\ phase \notin {"clear", "reset", "reboot"}
        BY <2>1 DEF InstallerAt, OneInstaller, ServicePhases
    <2>7. cmdline = running
        BY <1>11, <2>1, <2>6 DEF Command, NothingHidden, TargetInv, Switched, Stayed
    <2>8. TargetInv'
        BY <2>1, <2>7 DEF TargetInv
    <2> QED
        BY <2>1, <2>4, <2>5, <2>8 DEF WayBackInv, BootTargetIntact
<1>12. ASSUME NEW i \in Installers, InstallerStep(i) PROVE Progress' /\ Intact'
    <2> USE DEF Goes, RunningInv, TargetInv, InstallerInv, JudgedInv, WayBackInv,
            BootTargetIntact, ServicePhases, Switched, Stayed, InstallerAt, TypeOK, MaybeSlot,
            OneInstaller
    <2>1. CASE WritePrevious(i)
        BY <2>1 DEF WritePrevious
    <2>2. CASE WriteTarget(i)
        BY <2>2 DEF WriteTarget
    <2>3. CASE WriteBootcount(i)
        BY <2>3 DEF WriteBootcount
    <2>8. CASE WritePending(i)
        <3>1. /\ UNCHANGED <<cmdline, image>> /\ UNCHANGED phase
              /\ UNCHANGED running /\ UNCHANGED persist
              /\ UNCHANGED <<previous_root, pending_target_root>>
              /\ installer[i] = "pending"
              /\ installer' = [installer EXCEPT ![i] = "download"]
              /\ upgrade_pending' = (IF persist THEN TRUE ELSE upgrade_pending)
            BY <2>8 DEF WritePending
        <3>2. phase \in ServicePhases /\ cmdline = running /\ running \in Slots
            BY <3>1
        <3>3. persist => previous_root = running /\ pending_target_root = OtherSlot(running)
            BY <3>1
        <3>4. InstallerInv'
            BY <3>1, <3>2, <3>3
        <3>5. (RunningInv /\ TargetInv /\ MountedInv /\ JudgedInv)'
            BY <3>1, <3>2
        <3>6. WayBackInv' /\ BootTargetIntact'
            BY <3>1, <3>2, <3>3
        <3> QED
            BY <3>4, <3>5, <3>6
    <2>4. CASE Download(i) \/ ApplyRejects(i) \/ ApplyFails(i) \/ SwitchFails(i)
        BY <2>4 DEF Download, ApplyRejects, ApplyFails, SwitchFails
    <2>5. CASE ApplyBegins(i) \/ ApplyEnds(i)
        BY <2>5, OtaAssumption DEF ApplyBegins, ApplyEnds
    <2>6. CASE SwitchRoot(i)
        BY <2>6 DEF SwitchRoot, Switches
    <2>9. CASE SwitchStays(i)
        BY <2>9 DEF SwitchStays, Switches
    <2>7. CASE Reboot(i)
        BY <2>7, StopStep DEF Reboot
    <2> QED
        BY <1>12, <2>1, <2>2, <2>3, <2>8, <2>4, <2>5, <2>6, <2>7, <2>9 DEF InstallerStep
<1>13. CASE UNCHANGED vars
    BY <1>13 DEF vars, RunningInv, TargetInv, InstallerInv, JudgedInv, WayBackInv,
        BootTargetIntact, Switched, Stayed, InstallerAt, Pending
<1> QED
    BY <1>1, <1>2, <1>3, <1>4, <1>5, <1>6, <1>7, <1>8, <1>9, <1>10, <1>11, <1>12, <1>13
        DEF Next, BootStep

\* One installer at a time never makes the next boot take a half written slot.
LEMMA IntactAlways == ASSUME OneInstaller, NothingHidden PROVE Spec => []IntactInv
<1>1. IntactInv /\ [Next]_vars => IntactInv'
    BY IntactStep
<1> QED
    BY IntactInit, <1>1, PTL DEF Spec

-----------------------------------------------------------------------------

\* A rollback that failed is not undone.
LEMMA LostStays == ASSUME lost, [Next]_vars PROVE lost'
BY DEF Next, PowerCycle, PowerCut, TearState, TearCmdline, BootStep, Boot, Bootstate, Count,
    Rollback, RollbackClear, RollbackReset, RollbackReboot, Confirm, ConfirmClear,
    ConfirmReset, Command, InstallerStep, WritePrevious, WriteTarget, WriteBootcount,
    WritePending, Download, ApplyRejects, ApplyBegins, ApplyFails, ApplyEnds, SwitchRoot,
    SwitchStays, Switches, SwitchFails, Reboot, vars

\* The way back, with one installer and a patient user.
LEMMA FallbackStep ==
    OneInstaller /\ Patient /\ IntactInv /\ KeptInv /\ ~lost /\ [Next]_vars /\ ~lost' => KeptInv'
<1> SUFFICES ASSUME OneInstaller, Patient, IntactInv, KeptInv, ~lost, [Next]_vars, ~lost'
             PROVE  KeptInv'
    OBVIOUS
<1> USE SlotFacts DEF KeptInv, IntactInv, stateFiles, booted, Written, Unsettled, PatientInv, GoodWayBackInv,
        FallbackReady
<1>1. CASE PowerCycle \/ PowerCut
    BY <1>1 DEF PowerCycle, PowerCut, Stop
<1>2. CASE TearState
    <2>1. Stop /\ UNCHANGED <<cmdline, image>>
        BY <1>2 DEF TearState
    <2>2. CASE InstallerAt("previous") \/ InstallerAt("target") \/ InstallerAt("bootcount")
                 \/ InstallerAt("pending")
        <3>1. cmdline = running /\ image[running] = "good"
            BY <2>2 DEF InstallerAt, TargetInv, RunningInv, InstallerInv, Switched, Stayed,
                ServicePhases, OneInstaller
        <3> QED
            BY <1>2, <2>1, <3>1 DEF TearState, Stop
    <2>3. CASE phase \in {"clear", "confirm"} /\ upgrade_pending' = FALSE
        <3>1. phase' = "off" /\ running' = None /\ installer' = [j \in Installers |-> "idle"]
              /\ cmdline' = cmdline /\ image' = image
            BY <2>1 DEF Stop
        <3>2. cmdline # None => image[cmdline] \notin {"sick", "dead"}
            <4>1. CASE phase = "clear"
                BY <4>1
            <4>2. CASE phase = "confirm"
                <5>1. upgrade_pending /\ pending_target_root = running /\ image[running] = "good"
                    BY <4>2 DEF Pending
                <5>2. SUFFICES ASSUME cmdline # None, image[cmdline] \in {"sick", "dead"}
                               PROVE  FALSE
                    OBVIOUS
                <5>3. pending_target_root = cmdline
                    BY <5>2
                <5> QED
                    BY <5>1, <5>2, <5>3
            <4> QED
                BY <2>3, <4>1, <4>2
        <3>3. PatientInv' /\ GoodWayBackInv'
            BY <2>3, <3>1
        <3>4. FallbackReady'
            BY <3>1, <3>2
        <3> QED
            BY <3>3, <3>4
    <2>4. CASE phase \in {"count", "reset", "zero"} /\ UNCHANGED <<previous_root,
                 pending_target_root, upgrade_pending>>
        BY <2>1, <2>4 DEF Stop
    <2> QED
        BY <1>2, <2>2, <2>3, <2>4 DEF TearState
<1>3. CASE TearCmdline
    BY <1>3 DEF TearCmdline, Stop
<1>4. CASE Boot
    BY <1>4 DEF Boot, RunningInv, InstallerInv, ServicePhases
<1>5. CASE Bootstate \/ Count
    BY <1>5 DEF Bootstate, Count, Pending, InstallerInv, ServicePhases
<1>6. CASE Rollback
    BY <1>6 DEF Rollback, HasPrevious, Pending, JudgedInv, TargetInv, InstallerInv, ServicePhases,
        Switched, Stayed, InstallerAt, RunningInv, TypeOK, MaybeSlot
<1>7. CASE RollbackClear \/ RollbackReset
    BY <1>7 DEF RollbackClear, RollbackReset, InstallerInv, ServicePhases
<1>8. CASE RollbackReboot
    BY <1>8 DEF RollbackReboot, Stop
<1>9. CASE Confirm \/ ConfirmClear \/ ConfirmReset
    BY <1>9 DEF Confirm, ConfirmClear, ConfirmReset, Pending, TargetInv, Switched, Stayed,
        InstallerAt, RunningInv
<1>10. ASSUME NEW i \in Installers, Command(i)
       PROVE  KeptInv'
    BY <1>10 DEF Command, Goes, Pending, TargetInv, RunningInv, Switched, Stayed, InstallerAt,
        ServicePhases, OneInstaller, TypeOK
<1>11. ASSUME NEW i \in Installers, InstallerStep(i)
       PROVE  KeptInv'
    <2> USE DEF Goes, Pending, RunningInv, TargetInv, InstallerInv, ServicePhases, Switched, Stayed,
            InstallerAt, TypeOK, MaybeSlot, OneInstaller
    <2>1. CASE WritePrevious(i)
        BY <2>1 DEF WritePrevious
    <2>2. CASE WriteTarget(i)
        BY <2>2 DEF WriteTarget
    <2>3. CASE WriteBootcount(i)
        BY <2>3 DEF WriteBootcount
    <2>8. CASE WritePending(i)
        <3>1. /\ UNCHANGED <<cmdline, image>> /\ UNCHANGED phase
              /\ UNCHANGED running /\ UNCHANGED persist
              /\ UNCHANGED <<previous_root, pending_target_root>>
              /\ installer[i] = "pending"
              /\ installer' = [installer EXCEPT ![i] = "download"]
              /\ upgrade_pending' = (IF persist THEN TRUE ELSE upgrade_pending)
            BY <2>8 DEF WritePending
        <3>2. phase \in ServicePhases /\ cmdline = running /\ running \in Slots
            BY <3>1
        <3>3. image[running] = "good" /\ ~Unsettled
            BY <3>1
        <3>4. persist => pending_target_root = OtherSlot(running) /\ previous_root = running
            BY <3>1
        <3>5. ~Unsettled'
            BY <3>1, <3>2, <3>3, <3>4
        <3>6. phase # "confirm"
            BY <3>1, <3>3
        <3>7. PatientInv'
            BY <3>1, <3>2, <3>3, <3>5, <3>6
        <3>8. GoodWayBackInv'
            BY <3>1, <3>2, <3>3, <3>4, <3>6
        <3>9. FallbackReady'
            BY <3>1, <3>2, <3>3
        <3> QED
            BY <3>7, <3>8, <3>9
    <2>4. CASE Download(i) \/ ApplyRejects(i) \/ ApplyFails(i) \/ SwitchFails(i)
        BY <2>4 DEF Download, ApplyRejects, ApplyFails, SwitchFails
    <2>5. CASE ApplyBegins(i) \/ ApplyEnds(i)
        BY <2>5, OtaAssumption DEF ApplyBegins, ApplyEnds
    <2>6. CASE SwitchRoot(i)
        BY <2>6 DEF SwitchRoot, Switches
    <2>9. CASE SwitchStays(i)
        BY <2>9 DEF SwitchStays, Switches
    <2>7. CASE Reboot(i)
        BY <2>7 DEF Reboot, Stop
    <2> QED
        BY <1>11, <2>1, <2>2, <2>3, <2>8, <2>4, <2>5, <2>6, <2>7, <2>9 DEF InstallerStep
<1>12. CASE UNCHANGED vars
    BY <1>12 DEF vars, Pending
<1> QED
    BY <1>1, <1>2, <1>3, <1>4, <1>5, <1>6, <1>7, <1>8, <1>9, <1>10, <1>11, <1>12
        DEF Next, BootStep

\* Nothing is under way at first.
LEMMA FallbackInit == Init => FallbackInv
<1>1. Init => KeptInv
    BY OtaAssumption DEF Init, KeptInv, PatientInv, GoodWayBackInv, FallbackReady
<1> QED
    BY <1>1, IntactInit DEF FallbackInv

\* The way back stays until it is given up for good.
LEMMA FallbackInvStep ==
    OneInstaller /\ Patient /\ FallbackInv /\ [Next]_vars => FallbackInv'
BY IntactStep, FallbackStep, LostStays DEF FallbackInv, NothingHidden

-----------------------------------------------------------------------------

\* Every variable of the update keeps its type, whatever the value of max_boots and
\* however many installers run.
THEOREM TypeCorrect == Spec => []TypeOK
<1>1. SlotInv => TypeOK
    BY DEF SlotInv
<1> QED
    BY SlotAlways, <1>1, PTL

\* With one installer at a time, the next boot never takes a half written slot,
\* wherever power goes and whatever files it tears (aawg-ota-apply:103-106).
THEOREM NeverBootsTorn == ASSUME OneInstaller, NothingHidden PROVE Spec => []BootTargetIntact
<1>1. IntactInv => BootTargetIntact
    BY DEF IntactInv
<1> QED
    BY IntactAlways, <1>1, PTL

\* swupdate never writes the slot that runs, however many installers run: each takes
\* the other of the two (aawg-ota-apply:57-60).
THEOREM RunningSlotKept ==
    Spec => [][\A s \in Slots : image'[s] # image[s] => s # running]_vars
<1> DEFINE Kept == \A s \in Slots : image'[s] # image[s] => s # running
<1>1. ASSUME SlotInv, [Next]_vars PROVE [Kept]_vars
    <2>1. ASSUME NEW i \in Installers, ApplyBegins(i) \/ ApplyEnds(i) PROVE Kept
        <3>1. running \in Slots
            BY <1>1, <2>1 DEF SlotInv, RunningInv, ServicesInv, ServicePhases, ApplyBegins,
                ApplyEnds, Goes, TypeOK, MaybeSlot
        <3>2. \A s \in Slots : s # OtherSlot(running) => image'[s] = image[s]
            BY <1>1, <2>1 DEF SlotInv, TypeOK, ApplyBegins, ApplyEnds
        <3> QED
            BY <3>1, <3>2, SlotFacts
    <2>2. CASE UNCHANGED image
        BY <2>2
    <2> QED
        BY <1>1, <2>1, <2>2 DEF Next, PowerCycle, PowerCut, TearState, TearCmdline, BootStep,
            Boot, Bootstate, Count, Rollback, RollbackClear, RollbackReset, RollbackReboot,
            Confirm, ConfirmClear, ConfirmReset, Command, InstallerStep, WritePrevious,
            WriteTarget, WriteBootcount, WritePending, Download, ApplyRejects, ApplyFails,
            SwitchRoot, SwitchStays, Switches, SwitchFails, Reboot, vars
<1> QED
    BY SlotAlways, <1>1, PTL DEF Spec

\* swupdate writes neither the running slot nor the one the next boot takes.
THEOREM WritesOtherSlot ==
    ASSUME OneInstaller, NothingHidden
    PROVE  Spec => OtherSlotOnly
<1> DEFINE Other == \A s \in Slots : image'[s] # image[s] => s # running /\ s # cmdline
<1>1. ASSUME IntactInv, [Next]_vars PROVE [Other]_vars
    <2> USE SlotFacts DEF stateFiles, booted
    <2>1. ASSUME NEW i \in Installers, ApplyBegins(i) \/ ApplyEnds(i) PROVE Other
        <3>1. running \in Slots /\ cmdline = running
            BY <1>1, <2>1 DEF IntactInv, ApplyBegins, ApplyEnds, Goes, InstallerInv, RunningInv,
                TargetInv, Switched, Stayed, InstallerAt, ServicePhases, TypeOK, MaybeSlot, OneInstaller
        <3>2. \A s \in Slots : s # OtherSlot(running) => image'[s] = image[s]
            BY <1>1, <2>1 DEF IntactInv, TypeOK, ApplyBegins, ApplyEnds
        <3> QED
            BY <3>1, <3>2
    <2>2. CASE UNCHANGED image
        BY <2>2
    <2> QED
        BY <1>1, <2>1, <2>2 DEF Next, PowerCycle, PowerCut, TearState, TearCmdline, BootStep,
            Boot, Bootstate, Count, Rollback, RollbackClear, RollbackReset, RollbackReboot,
            Confirm, ConfirmClear, ConfirmReset, Command, InstallerStep, WritePrevious,
            WriteTarget, WriteBootcount, WritePending, Download, ApplyRejects, ApplyFails,
            SwitchRoot, SwitchStays, Switches, SwitchFails, Reboot, vars
<1> QED
    BY IntactAlways, <1>1, PTL DEF Spec, OtherSlotOnly

\* If updates are ordered only from a proven slot, the way back is there as long
\* as the next boot takes an unproven one, or until a rollback fails to write it
\* (S05ota_bootstate:72-95).
THEOREM WayBackExists == ASSUME OneInstaller, Patient PROVE Spec => []FallbackReady
<1>1. FallbackInv /\ [Next]_vars => FallbackInv'
    BY FallbackInvStep
<1>2. FallbackInv => FallbackReady
    BY DEF FallbackInv, KeptInv, FallbackReady
<1> QED
    BY FallbackInit, <1>1, <1>2, PTL DEF Spec
=============================================================================
