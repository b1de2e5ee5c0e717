------------------------------ MODULE OtaProgress ------------------------------
(***************************************************************************)
(* What of the progress of OtaUpdate can be proved without fairness: that  *)
(* no step but a fault takes an unproven image further from its end, that  *)
(* each step of the boot brings it nearer, and where there is no way out.  *)
(***************************************************************************)
EXTENDS OtaProofs

-----------------------------------------------------------------------------
\* The trap: an image that does not boot.

\* The next boot takes, or has taken, an image that does not boot.
Trapped ==
    /\ phase \in {"off", "hung"}
    /\ cmdline # None /\ image[cmdline] \in {"dead", "torn"}

\* No step leaves the trap: nothing runs that could.
LEMMA TrapStep == SlotInv /\ Trapped /\ [Next]_vars => Trapped'
<1> SUFFICES ASSUME SlotInv, Trapped, [Next]_vars PROVE Trapped'
    OBVIOUS
<1> USE DEF SlotInv, Trapped
<1>1. \A i \in Installers : installer[i] = "idle"
    BY DEF ServicesInv, ServicePhases
<1>2. CASE PowerCycle \/ PowerCut
    BY <1>2 DEF PowerCycle, PowerCut, Stop
<1>3. CASE TearState \/ TearCmdline
    BY <1>1, <1>3 DEF TearState, TearCmdline, InstallerAt, Stop
<1>4. CASE BootStep
    BY <1>4 DEF BootStep, Boot, Bootstate, Count, Rollback, RollbackClear, RollbackReset,
        RollbackReboot, Confirm, ConfirmClear, ConfirmReset
<1>5. ASSUME NEW i \in Installers, Command(i) \/ InstallerStep(i) PROVE FALSE
    BY <1>1, <1>5 DEF Command, Goes, ServicePhases, InstallerStep, WritePrevious, WriteTarget,
        WriteBootcount, WritePending, Download, ApplyRejects, ApplyBegins, ApplyFails,
        ApplyEnds, SwitchRoot, SwitchStays, Switches, SwitchFails, Reboot
<1>6. CASE UNCHANGED vars
    BY <1>6 DEF vars
<1> QED
    BY <1>2, <1>3, <1>4, <1>5, <1>6 DEF Next

\* Nothing leaves an image that does not boot: the boots are counted by the image
\* that is judged, and no one else is there to put root= back
\* (S05ota_bootstate:66-94; BUILDING.md:76 says otherwise).
THEOREM DeadIsForEver == Spec => [](Trapped => [](Trapped /\ ~BackToGood))
<1>1. Trapped => ~BackToGood
    BY DEF Trapped, BackToGood
<1> QED
    BY SlotAlways, TrapStep, <1>1, PTL DEF Spec

-----------------------------------------------------------------------------
\* What each boot brings.

\* Power goes during a boot or a write, or /persist cannot be mounted: what FaultsEnd
\* says happens no more.
Fault == PowerCut \/ TearState \/ TearCmdline \/ (phase' = "bootstate" /\ ~persist')

\* Where an update is settled, and that it has been where a boot or a rollback is over.
ConfirmingInv ==
    /\ phase = "confirm" => Pending
    /\ phase \in {"confirm", "zero"} => persist /\ image[running] = "good"
    /\ phase \in {"reset", "reboot"} => ~upgrade_pending
    /\ phase \in {"up", "zero"} /\ persist /\ image[running] = "good" => ~Unsettled

\* While an installer runs, or the root is switched, the slot that runs is settled.
UndisturbedInv ==
    /\ running # None /\ cmdline # running /\ phase # "clear" => ~Unsettled
    /\ \A i \in Installers : installer[i] # "idle" => ~Unsettled

\* A boot that hangs has found nothing to boot.
HungInv == phase = "hung" => cmdline = None \/ Trapped

\* A rollback has taken the way back, or found none.
TakenBackInv == ~lost /\ phase = "clear" => previous_root \in {None, cmdline}

SettledInv == ConfirmingInv /\ UndisturbedInv /\ HungInv /\ TakenBackInv

\* When the system stops there is nothing to settle.
LEMMA StopSettles == ASSUME Stop PROVE SettledInv'
BY DEF Stop, SettledInv, ConfirmingInv, UndisturbedInv, HungInv, TakenBackInv, Unsettled

\* With a patient user no installer unsettles the slot that runs.
LEMMA SettledStep ==
    OneInstaller /\ Patient /\ IntactInv /\ SettledInv /\ [Next]_vars => SettledInv'
<1> SUFFICES ASSUME OneInstaller, Patient, IntactInv, SettledInv, [Next]_vars
             PROVE  SettledInv'
    OBVIOUS
<1> USE SlotFacts DEF IntactInv, SettledInv, ConfirmingInv, UndisturbedInv, HungInv, TakenBackInv,
        Trapped, RunningInv, Unsettled, stateFiles, booted
<1>1. CASE PowerCycle \/ PowerCut \/ TearState \/ TearCmdline \/ RollbackReboot
    BY <1>1, StopSettles DEF PowerCycle, PowerCut, TearState, TearCmdline, RollbackReboot
<1>2. CASE Boot
    <2>1. \A i \in Installers : installer'[i] = "idle"
        BY <1>2 DEF Boot, InstallerInv, ServicePhases
    <2>2. cmdline # None => image[cmdline] \in {"good", "sick", "dead", "torn"}
        BY DEF TypeOK, MaybeSlot
    <2>3. CASE cmdline # None /\ image[cmdline] \in {"good", "sick"}
        BY <1>2, <2>1, <2>3 DEF Boot
    <2>4. CASE ~(cmdline # None /\ image[cmdline] \in {"good", "sick"})
        <3>1. phase' = "hung" /\ running' = None /\ cmdline' = cmdline /\ image' = image
            BY <1>2, <2>4 DEF Boot
        <3> QED
            BY <2>1, <2>2, <2>4, <3>1
    <2> QED
        BY <2>3, <2>4
<1>3. CASE Bootstate
    BY <1>3 DEF Bootstate, Pending
<1>4. CASE Count \/ Rollback
    BY <1>4 DEF Count, Rollback, HasPrevious, InstallerInv, ServicePhases, Pending, TargetInv,
        Switched, Stayed, InstallerAt
<1>5. CASE RollbackClear \/ RollbackReset
    BY <1>5 DEF RollbackClear, RollbackReset, Pending
<1>6. CASE Confirm
    BY <1>6 DEF Confirm, Pending
<1>7. CASE ConfirmClear \/ ConfirmReset
    BY <1>7 DEF ConfirmClear, ConfirmReset, Pending
<1>8. ASSUME NEW i \in Installers, Command(i) PROVE SettledInv'
    BY <1>8 DEF Command, Goes, Pending, ServicePhases
<1>9. ASSUME NEW i \in Installers, InstallerStep(i) PROVE SettledInv'
    <2> USE DEF Goes, Pending, InstallerInv, ServicePhases, TypeOK, MaybeSlot, Written
    <2>0. /\ installer[i] # "idle" /\ running \in Slots /\ ~Unsettled
          /\ phase \in {"services", "zero", "up"}
        BY <1>9 DEF InstallerStep, WritePrevious, WriteTarget, WriteBootcount, WritePending,
            Download, ApplyRejects, ApplyBegins, ApplyFails, ApplyEnds, SwitchRoot,
            SwitchStays, Switches, SwitchFails, Reboot
    <2>1. CASE Reboot(i)
        BY <2>1, StopSettles DEF Reboot
    <2>2. CASE WritePrevious(i) \/ WriteBootcount(i) \/ Download(i) \/ ApplyRejects(i)
                 \/ ApplyFails(i) \/ SwitchFails(i)
        BY <2>0, <2>2 DEF WritePrevious, WriteBootcount, Download, ApplyRejects, ApplyFails,
            SwitchFails
    <2>3. CASE WriteTarget(i)
        <3>1. ~Unsettled'
            BY <2>0, <2>3 DEF WriteTarget
        <3> QED
            BY <2>0, <2>3, <3>1 DEF WriteTarget
    <2>4. CASE WritePending(i)
        <3>1. ~Unsettled'
            BY <2>0, <2>4 DEF WritePending
        <3> QED
            BY <2>0, <2>4, <3>1 DEF WritePending
    <2>5. CASE ApplyBegins(i) \/ ApplyEnds(i)
        BY <2>0, <2>5 DEF ApplyBegins, ApplyEnds
    <2>6. CASE SwitchRoot(i) \/ SwitchStays(i)
        BY <2>0, <2>6 DEF SwitchRoot, SwitchStays, Switches
    <2> QED
        BY <1>9, <2>1, <2>2, <2>3, <2>4, <2>5, <2>6 DEF InstallerStep
<1>10. CASE UNCHANGED vars
    BY <1>10 DEF vars, Pending
<1> QED
    BY <1>1, <1>2, <1>3, <1>4, <1>5, <1>6, <1>7, <1>8, <1>9, <1>10 DEF Next, BootStep

\* With one installer at a time and a patient user, all of it holds always.
LEMMA SettledAlways ==
    ASSUME OneInstaller, Patient PROVE Spec => []FallbackInv /\ []SettledInv
<1>1. Init => FallbackInv /\ SettledInv
    BY FallbackInit DEF Init, SettledInv, ConfirmingInv, UndisturbedInv, HungInv, TakenBackInv,
        Unsettled
<1>2. FallbackInv /\ SettledInv /\ [Next]_vars => FallbackInv' /\ SettledInv'
    BY FallbackInvStep, SettledStep DEF FallbackInv
<1> QED
    BY <1>1, <1>2, PTL DEF Spec

-----------------------------------------------------------------------------
\* A sick image is left.

Trial == Unproven("sick")

\* The boots that are counted before the rollback, each worth more than the steps
\* of any boot.
BootsLeft == 10 * (MaxBoots + 1 - bootcount)

\* What is left of this boot: less if /persist is there, as the boot is then counted;
\* a switched root has its whole trial before it.
SickLeft ==
    IF running # None /\ running # cmdline
    THEN 10 * (MaxBoots + 2) + (IF phase = "up" THEN 0 ELSE 1)
    ELSE BootsLeft + (CASE phase = "rollback" -> 0
                        [] phase = "count" -> 1
                        [] phase = "bootstate" -> IF persist THEN 2 ELSE 6
                        [] phase = "off" -> 3
                        [] phase = "up" -> 4
                        [] OTHER -> 5)

\* Where a trial can be.
LEMMA TrialFacts ==
    ASSUME OneInstaller, Patient, FallbackInv, SettledInv, Trial, ~lost
    PROVE  /\ IntactInv
           /\ phase \in {"off", "bootstate", "count", "rollback", "services", "zero", "up"}
           /\ cmdline \in Slots /\ image[cmdline] = "sick"
           /\ running # None /\ running # cmdline =>
                ~Unsettled /\ phase \in {"services", "zero", "up"}
           /\ running = cmdline => Unsettled /\ phase # "zero"
           /\ upgrade_pending /\ pending_target_root = cmdline
           /\ previous_root \in Slots /\ previous_root # cmdline
           /\ image[previous_root] = "good"
<1> USE DEF FallbackInv, KeptInv, FallbackReady, Trial, Unproven, IntactInv
<1>1. IntactInv /\ upgrade_pending /\ pending_target_root = cmdline
    OBVIOUS
<1>2. cmdline \in Slots /\ image[cmdline] = "sick"
    BY DEF TypeOK, MaybeSlot
<1>3. previous_root \in Slots /\ previous_root # cmdline /\ image[previous_root] = "good"
    BY <1>2, SlotFacts
<1>4. phase \in {"off", "bootstate", "count", "rollback", "services", "confirm", "zero", "up"}
    BY <1>2 DEF TypeOK, Phases, RollbackPhases, ServicePhases, GoodWayBackInv, SettledInv,
        HungInv, Trapped
<1>5. phase = "confirm" => running = cmdline /\ image[running] = "good"
    BY <1>1 DEF SettledInv, ConfirmingInv, Pending, Unsettled
<1>6. running = cmdline => Unsettled /\ phase # "zero"
    BY <1>1, <1>2, SlotFacts DEF Unsettled, SettledInv, ConfirmingInv
<1>7. running # None /\ running # cmdline => ~Unsettled /\ phase \in {"services", "zero", "up"}
    <2> SUFFICES ASSUME running # None, running # cmdline
                 PROVE  ~Unsettled /\ phase \in {"services", "zero", "up"}
        OBVIOUS
    <2>1. ~Unsettled
        BY <1>1 DEF Unsettled
    <2>2. phase \in ServicePhases
        BY <1>4 DEF TargetInv, Switched, Stayed, InstallerAt, InstallerInv
    <2> QED
        BY <1>4, <1>5, <2>1, <2>2 DEF ServicePhases
<1> QED
    BY <1>1, <1>2, <1>3, <1>4, <1>5, <1>6, <1>7

\* What is left is a number: it cannot grow less for ever.
THEOREM SickLeftCounts ==
    ASSUME OneInstaller, Patient
    PROVE  Spec => [](Trial /\ ~lost => SickLeft \in Nat)
<1>1. FallbackInv /\ Trial /\ ~lost => SickLeft \in Nat
    <2> SUFFICES ASSUME TypeOK PROVE SickLeft \in Nat
        BY DEF FallbackInv, IntactInv
    <2>1. BootsLeft \in Nat
        BY OtaAssumption DEF TypeOK, BootsLeft
    <2>2. MaxBoots + 2 \in Nat
        BY OtaAssumption
    <2> QED
        BY <2>1, <2>2 DEF SickLeft
<1> QED
    BY SettledAlways, <1>1, PTL

\* One step of a trial.
LEMMA SickStep ==
    ASSUME OneInstaller, Patient, FallbackInv, SettledInv, Trial, ~lost, [Next]_vars, ~Fault
    PROVE  \/ UNCHANGED vars
           \/ BackToGood' \/ lost'
           \/ Trial' /\ SickLeft' < SickLeft
<1> DEFINE Nearer == Trial' /\ SickLeft' < SickLeft
<1> USE TrialFacts, SlotFacts, OtaAssumption DEF IntactInv, stateFiles, booted, Trial, Unproven
<1>0. /\ bootcount \in 0..(MaxBoots + 1) /\ BootsLeft \in Nat
      /\ BootsLeft <= 10 * (MaxBoots + 1)
      /\ MaxBoots + 2 \in Nat
    BY DEF TypeOK, BootsLeft
<1>s. ASSUME Stop, UNCHANGED <<cmdline, image, bootcount>> PROVE Trial' /\ SickLeft' = BootsLeft + 3
    <2>1. running' = None /\ phase' = "off" /\ bootcount' = bootcount
        BY <1>s DEF Stop
    <2> QED
        BY <1>s, <2>1 DEF SickLeft, BootsLeft
<1>1. CASE PowerCycle
    <2>1. phase = "up" /\ Trial' /\ SickLeft' = BootsLeft + 3
        BY <1>1, <1>s DEF PowerCycle
    <2>2. SickLeft \in {10 * (MaxBoots + 2), BootsLeft + 4}
        BY <2>1 DEF SickLeft
    <2> QED
        BY <1>0, <2>1, <2>2
<1>2. CASE Boot
    <2>1. phase = "off" /\ phase' = "bootstate" /\ running' = cmdline /\ persist' = TRUE
          /\ UNCHANGED <<cmdline, image, bootcount>>
        BY <1>2 DEF Boot, Fault
    <2>2. SickLeft = BootsLeft + 3 /\ SickLeft' = BootsLeft + 2
        BY <2>1 DEF SickLeft, BootsLeft, RunningInv
    <2> QED
        BY <1>0, <2>1, <2>2
<1>3. CASE Bootstate
    <2>1. phase = "bootstate" /\ running = cmdline /\ Unsettled
          /\ UNCHANGED <<cmdline, image, bootcount, running, persist>>
        BY <1>3 DEF Bootstate, RunningInv
    <2>2. phase' = IF persist THEN "count" ELSE "services"
        BY <1>3, <2>1 DEF Bootstate, Pending
    <2>3. /\ SickLeft = BootsLeft + (IF persist THEN 2 ELSE 6)
          /\ SickLeft' = BootsLeft + (IF persist THEN 1 ELSE 5)
        BY <2>1, <2>2 DEF SickLeft, BootsLeft
    <2> QED
        BY <1>0, <2>1, <2>3
<1>4. CASE Count
    <2>1. phase = "count" /\ running = cmdline
          /\ UNCHANGED <<cmdline, image, running, persist>>
        BY <1>4 DEF Count, RunningInv
    <2>2. SickLeft = BootsLeft + 1
        BY <2>1 DEF SickLeft
    <2>3. CASE bootcount > MaxBoots
        <3>1. phase' = "rollback" /\ bootcount' = bootcount
            BY <1>0, <1>4, <2>3 DEF Count
        <3>2. SickLeft' = BootsLeft
            BY <2>1, <3>1, <1>0 DEF SickLeft, BootsLeft
        <3> QED
            BY <1>0, <2>1, <2>2, <3>2
    <2>4. CASE ~(bootcount > MaxBoots)
        <3>1. phase' \in {"rollback", "services"} /\ bootcount' = bootcount + 1
            BY <1>0, <1>4, <2>4 DEF Count
        <3>2. BootsLeft' = BootsLeft - 10
            BY <3>1, <1>0 DEF BootsLeft
        <3>3. SickLeft' \in {BootsLeft - 10, BootsLeft - 5}
            BY <2>1, <3>1, <3>2, <1>0 DEF SickLeft
        <3> QED
            BY <1>0, <2>1, <2>2, <3>3
    <2> QED
        BY <2>3, <2>4
<1>5. CASE Rollback
    BY <1>5 DEF Rollback, HasPrevious, BackToGood, RunningInv
<1>6. CASE Confirm
    <2>1. phase = "services" /\ phase' = "up"
          /\ UNCHANGED <<cmdline, image, bootcount, running>>
        <3>1. ~(Pending /\ image[running] = "good")
            BY <1>6 DEF Confirm, Pending, RunningInv
        <3> QED
            BY <1>6, <3>1 DEF Confirm
    <2>2. CASE running = cmdline
        BY <1>0, <2>1, <2>2 DEF SickLeft, BootsLeft
    <2>3. CASE running # cmdline
        BY <1>0, <2>1, <2>3 DEF SickLeft, BootsLeft, RunningInv
    <2> QED
        BY <2>2, <2>3
<1>7. CASE ConfirmReset
    <2>1. /\ phase = "zero" /\ phase' = "up"
          /\ UNCHANGED <<cmdline, image, running>>
          /\ running # None /\ running # cmdline
        BY <1>7 DEF ConfirmReset, RunningInv
    <2> QED
        BY <1>0, <2>1 DEF SickLeft
<1>8. CASE RollbackClear \/ RollbackReset \/ RollbackReboot \/ ConfirmClear
    BY <1>8 DEF RollbackClear, RollbackReset, RollbackReboot, ConfirmClear
<1>9. ASSUME NEW i \in Installers, Command(i) PROVE FALSE
    <2>1. phase \in ServicePhases /\ ~Unsettled /\ cmdline = running
        BY <1>9 DEF Command
    <2> QED
        BY <2>1
<1>10. ASSUME NEW i \in Installers, InstallerStep(i) PROVE Nearer
    <2>1. installer[i] # "idle" /\ (Reboot(i) \/ installer[i] # "reboot")
        BY <1>10 DEF InstallerStep, WritePrevious, WriteTarget, WriteBootcount, WritePending,
            Download, ApplyRejects, ApplyBegins, ApplyFails, ApplyEnds, SwitchRoot,
            SwitchStays, Switches, SwitchFails, Reboot, Goes
    <2>2. image[running] = "good" /\ running # None /\ running # cmdline
        BY <2>1 DEF FallbackInv, KeptInv, PatientInv, InstallerInv, RunningInv, ServicePhases
    <2>3. installer[i] = "reboot"
        BY <2>1, <2>2 DEF TargetInv, Switched, Stayed, InstallerAt, OneInstaller
    <2>4. Trial' /\ SickLeft' = BootsLeft + 3
        BY <2>1, <2>3, <1>s DEF Reboot
    <2>5. SickLeft \in {10 * (MaxBoots + 2), 10 * (MaxBoots + 2) + 1}
        BY <2>2, <1>0 DEF SickLeft
    <2> QED
        BY <1>0, <2>4, <2>5
<1> QED
    BY <1>1, <1>2, <1>3, <1>4, <1>5, <1>6, <1>7, <1>8, <1>9, <1>10 DEF Next, BootStep, Fault

\* As long as a sick image is tried and nothing fails, every step of the boot, of a
\* drive's end or of an installer brings the rollback nearer, and none of them can
\* put it off: the steps that SickRollsBack needs are never taken back
\* (S05ota_bootstate:66-94).
THEOREM SickNearsRollback ==
    ASSUME OneInstaller, Patient
    PROVE  Spec => [][Trial /\ ~lost /\ ~Fault =>
                        BackToGood' \/ lost' \/ (Trial' /\ SickLeft' < SickLeft)]_vars
<1>1. FallbackInv /\ SettledInv /\ [Next]_vars =>
        [Trial /\ ~lost /\ ~Fault =>
            BackToGood' \/ lost' \/ (Trial' /\ SickLeft' < SickLeft)]_vars
    BY SickStep
<1> QED
    BY SettledAlways, <1>1, PTL DEF Spec

-----------------------------------------------------------------------------
\* A good update is settled.

\* A good image is on trial: it runs, or the next boot takes it.
Unfinished ==
    /\ upgrade_pending /\ pending_target_root # None
    /\ image[pending_target_root] = "good"
    /\ running = pending_target_root \/ (phase = "off" /\ cmdline = pending_target_root)

Settled == running # None /\ ~Unsettled

\* What is left of its boot, or of one without /persist and the boot after it.
GoodLeft ==
    CASE phase \in {"clear", "confirm"} -> 1
      [] phase \in {"rollback", "services"} -> IF persist THEN 2 ELSE 7
      [] phase = "count" -> 3
      [] phase = "bootstate" -> IF persist THEN 4 ELSE 8
      [] phase = "off" -> 5
      [] phase = "up" -> 6
      [] OTHER -> 0

\* Where such a trial can be: in a boot, or, without /persist, beyond its end.
LEMMA UnfinishedFacts ==
    ASSUME OneInstaller, Patient, IntactInv, SettledInv, Unfinished
    PROVE  /\ phase \in {"off", "bootstate", "count", "rollback", "clear", "services",
                         "confirm", "up"}
           /\ phase \in {"count", "rollback", "clear", "confirm"} => running # None
           /\ phase \in {"count", "rollback", "confirm"} => persist
           /\ phase = "up" => cmdline = running
           /\ phase = "off" <=> running = None
           /\ phase # "off" => Unsettled /\ image[running] = "good"
           /\ \A i \in Installers : installer[i] = "idle"
<1> USE DEF IntactInv, Unfinished, SettledInv, ConfirmingInv, UndisturbedInv, RunningInv
<1>1. running # None => Unsettled /\ image[running] = "good"
    BY DEF Unsettled
<1>2. running = None => phase = "off"
    OBVIOUS
<1>3. phase \notin {"zero", "reset", "reboot", "hung"}
    BY <1>1
<1>4. phase \in {"off", "bootstate", "count", "rollback", "clear", "services", "confirm", "up"}
    BY <1>3 DEF TypeOK, Phases, RollbackPhases, ServicePhases
<1>5. \A i \in Installers : installer[i] = "idle"
    BY <1>1, <1>2 DEF InstallerInv, ServicePhases
<1>6. phase \in {"count", "rollback", "confirm"} => persist
    BY DEF JudgedInv, Pending
<1>7. phase = "up" => cmdline = running
    BY <1>1
<1> QED
    BY <1>1, <1>2, <1>4, <1>5, <1>6, <1>7

\* One step of such a trial.
LEMMA GoodStep ==
    ASSUME OneInstaller, Patient, IntactInv, SettledInv, Unfinished, [Next]_vars, ~Fault
    PROVE  \/ UNCHANGED vars
           \/ Settled'
           \/ Unfinished' /\ GoodLeft' < GoodLeft
<1> DEFINE Nearer == Unfinished' /\ GoodLeft' < GoodLeft
<1> USE UnfinishedFacts DEF stateFiles, booted, GoodLeft
<1>1. CASE PowerCycle
    BY <1>1 DEF PowerCycle, Stop, Unfinished
<1>2. CASE Boot
    <2>1. phase = "off" /\ cmdline = pending_target_root /\ image[cmdline] = "good"
        BY <1>2 DEF Boot, Unfinished
    <2>2. /\ phase' = "bootstate" /\ running' = cmdline /\ persist' = TRUE
          /\ UNCHANGED <<cmdline, image, upgrade_pending, pending_target_root>>
        BY <1>2, <2>1 DEF Boot, Unfinished, Fault
    <2> QED
        BY <2>1, <2>2 DEF Unfinished
<1>3. CASE Bootstate
    <2>1. phase' = IF persist THEN "count" ELSE "services"
        BY <1>3 DEF Bootstate, Pending
    <2> QED
        BY <1>3, <2>1 DEF Bootstate, Unfinished
<1>4. CASE Count
    BY <1>4 DEF Count, Unfinished
<1>5. CASE Rollback
    BY <1>5 DEF Rollback, Unfinished
<1>6. CASE RollbackClear \/ ConfirmClear
    BY <1>6 DEF RollbackClear, ConfirmClear, Settled, Unsettled
<1>7. CASE Confirm
    <2>1. phase' = IF persist THEN "confirm" ELSE "up"
        BY <1>7 DEF Confirm, Pending
    <2> QED
        BY <1>7, <2>1 DEF Confirm, Unfinished
<1>8. CASE RollbackReset \/ RollbackReboot \/ ConfirmReset
    BY <1>8 DEF RollbackReset, RollbackReboot, ConfirmReset
<1>9. ASSUME NEW i \in Installers, Command(i) \/ InstallerStep(i) PROVE FALSE
    <2>1. CASE Command(i)
        BY <2>1 DEF Command, ServicePhases
    <2>2. CASE InstallerStep(i)
        BY <2>2 DEF InstallerStep, WritePrevious, WriteTarget, WriteBootcount, WritePending,
            Download, ApplyRejects, ApplyBegins, ApplyFails, ApplyEnds, SwitchRoot,
            SwitchStays, Switches, SwitchFails, Reboot, Goes
    <2> QED
        BY <1>9, <2>1, <2>2
<1> QED
    BY <1>1, <1>2, <1>3, <1>4, <1>5, <1>6, <1>7, <1>8, <1>9 DEF Next, BootStep, Fault

\* A good image on trial is nearer to its confirmation, or to a rollback, with every
\* step that is no fault, from wherever it stands, the way back lost or not: the rest
\* of its boot, or of one without /persist and the boot after that, settles it
\* (S95ota_confirm:27-48).
THEOREM GoodNearsSettled ==
    ASSUME OneInstaller, Patient
    PROVE  Spec => [][Unfinished /\ ~Fault =>
                        Settled' \/ (Unfinished' /\ GoodLeft' < GoodLeft)]_vars
<1>1. FallbackInv /\ SettledInv /\ [Next]_vars =>
        [Unfinished /\ ~Fault => Settled' \/ (Unfinished' /\ GoodLeft' < GoodLeft)]_vars
    BY GoodStep DEF FallbackInv
<1> QED
    BY SettledAlways, <1>1, PTL DEF Spec

-----------------------------------------------------------------------------
\* What the scripts promise.

\* The next boot takes a slot whose update is pending, and can take it back.
OnTrial ==
    /\ upgrade_pending /\ cmdline # None /\ cmdline = pending_target_root
    /\ previous_root \notin {None, cmdline}

\* The slot that was proven last, as the files tell it.
ProvenRoot == IF OnTrial THEN previous_root ELSE cmdline

Promise == INSTANCE AbUpdate WITH proven <- ProvenRoot, next <- cmdline

\* What is proven is good.
LEMMA ProvenFacts ==
    ASSUME FallbackInv, ~lost, cmdline # None
    PROVE  ProvenRoot \in Slots /\ image[ProvenRoot] = "good"
BY SlotFacts DEF FallbackInv, IntactInv, KeptInv, FallbackReady, GoodWayBackInv, ProvenRoot, OnTrial,
    TypeOK, MaybeSlot, BootTargetIntact

\* Power that goes takes nothing with it but a root= it was writing.
LEMMA PowerStep ==
    ASSUME OneInstaller, Patient, FallbackInv, SettledInv, ~lost, Stop, UNCHANGED image,
           TearCmdline \/ TearState \/ UNCHANGED <<cmdline, stateFiles>>
    PROVE  [Promise!AbNext]_(Promise!abVars)
<1> USE DEF Promise!AbNext, Promise!abVars
<1>0. running' = None
    BY DEF Stop
<1>1. CASE UNCHANGED <<cmdline, ProvenRoot>>
    BY <1>0, <1>1 DEF Promise!PowerOff
<1>2. CASE TearCmdline
    <2>1. running # None /\ cmdline' = None
        BY <1>2, SlotFacts DEF TearCmdline, InstallerAt, FallbackInv, IntactInv, RunningInv,
            InstallerInv, ServicePhases
    <2> QED
        BY <1>0, <2>1 DEF Promise!Destroy, ProvenRoot, OnTrial
<1>3. CASE TearState
    <2>1. cmdline' = cmdline
        BY <1>3 DEF TearState
    <2>2. CASE \E i \in Installers : installer[i] \in {"previous", "target", "bootcount", "pending"}
        <3>1. running # None /\ cmdline = running /\ ~Unsettled
            BY <2>2 DEF FallbackInv, IntactInv, RunningInv, InstallerInv, ServicePhases, SettledInv,
                UndisturbedInv, TargetInv, Switched, Stayed, InstallerAt, OneInstaller
        <3>2. ~OnTrial
            BY <3>1 DEF OnTrial, Unsettled
        <3>3. ~OnTrial'
            BY <1>3, <2>1, <3>1, SlotFacts DEF TearState, OnTrial, Unsettled, FallbackInv,
                IntactInv, TypeOK, MaybeSlot
        <3> QED
            BY <1>1, <2>1, <3>2, <3>3 DEF ProvenRoot
    <2>3. CASE phase = "clear" /\ upgrade_pending' = FALSE
        BY <1>1, <2>1, <2>3 DEF OnTrial, ProvenRoot, SettledInv, TakenBackInv
    <2>4. CASE phase = "confirm" /\ upgrade_pending' = FALSE
        <3>1. /\ running # None /\ cmdline = running /\ image[running] = "good"
              /\ ProvenRoot' = cmdline
            BY <2>1, <2>4 DEF SettledInv, ConfirmingInv, UndisturbedInv, Pending, Unsettled,
                ProvenRoot, OnTrial
        <3> QED
            BY <1>0, <1>1, <2>1, <3>1 DEF Promise!Accept
    <2>5. CASE UNCHANGED <<previous_root, pending_target_root, upgrade_pending>>
        BY <1>1, <2>1, <2>5 DEF OnTrial, ProvenRoot
    <2> QED
        BY <1>3, <2>2, <2>3, <2>4, <2>5 DEF TearState, InstallerAt
<1>4. CASE UNCHANGED <<cmdline, stateFiles>>
    BY <1>1, <1>4 DEF stateFiles, ProvenRoot, OnTrial
<1> QED
    BY <1>2, <1>3, <1>4

\* The steps of a boot. Only three of them are seen: a boot, a confirmation that is
\* written, and a rollback.
LEMMA BootImplements ==
    ASSUME OneInstaller, Patient, FallbackInv, SettledInv, ~lost, BootStep, ~lost'
    PROVE  [Promise!AbNext]_(Promise!abVars)
<1> USE DEF Promise!AbNext, Promise!abVars, stateFiles, booted
<1>1. CASE Boot
    BY <1>1 DEF Boot, Promise!PowerOn, ProvenRoot, OnTrial, FallbackInv, IntactInv, RunningInv
<1>2. CASE Bootstate \/ Count \/ RollbackReset \/ Confirm \/ ConfirmReset
    BY <1>2 DEF Bootstate, Count, RollbackReset, Confirm, ConfirmReset, ProvenRoot, OnTrial
<1>3. CASE RollbackReboot
    BY <1>3 DEF RollbackReboot, Stop, Promise!PowerOff, ProvenRoot, OnTrial
<1>4. CASE RollbackClear
    BY <1>4 DEF RollbackClear, ProvenRoot, OnTrial, SettledInv, TakenBackInv
<1>5. CASE Rollback
    <2>1. /\ running # None /\ cmdline = running
          /\ upgrade_pending /\ pending_target_root = running
        BY <1>5 DEF Rollback, FallbackInv, IntactInv, RunningInv, TargetInv, Switched, Stayed,
            InstallerAt, InstallerInv, ServicePhases, JudgedInv, Pending, Unsettled
    <2>2. /\ cmdline' = (IF HasPrevious THEN previous_root ELSE cmdline)
          /\ UNCHANGED <<image, running, previous_root, pending_target_root, upgrade_pending>>
        BY <1>5 DEF Rollback
    <2> QED
        BY <2>1, <2>2 DEF HasPrevious, ProvenRoot, OnTrial, Promise!GiveUp
<1>6. CASE ConfirmClear
    <2>1. /\ running # None /\ cmdline = running /\ image[running] = "good"
          /\ ProvenRoot' = cmdline /\ UNCHANGED <<cmdline, image, running>>
        BY <1>6 DEF ConfirmClear, SettledInv, ConfirmingInv, UndisturbedInv, Pending, Unsettled,
            ProvenRoot, OnTrial
    <2> QED
        BY <2>1 DEF Promise!Accept
<1> QED
    BY <1>1, <1>2, <1>3, <1>4, <1>5, <1>6 DEF BootStep

\* The steps of an installer: it works while the proven slot runs, on the other one,
\* and switches to it what has been written whole, when the way back is there.
LEMMA InstallerImplements ==
    ASSUME OneInstaller, Patient, FallbackInv, SettledInv, ~lost, ~lost',
           NEW i \in Installers, InstallerStep(i), ~Reboot(i)
    PROVE  [Promise!AbNext]_(Promise!abVars)
<1> USE SlotFacts, OtaAssumption DEF Promise!AbNext, Promise!abVars, stateFiles, booted, Goes
<1>1. /\ running \in Slots /\ ~Unsettled /\ installer[i] \notin {"idle", "reboot"}
      /\ OtherSlot(running) \in Slots /\ OtherSlot(running) # running
    BY DEF InstallerStep, WritePrevious, WriteTarget, WriteBootcount, WritePending, Download,
        ApplyRejects, ApplyBegins, ApplyFails, ApplyEnds, SwitchRoot, SwitchStays, Switches,
        SwitchFails, SettledInv, UndisturbedInv, FallbackInv, IntactInv, InstallerInv, RunningInv,
        ServicePhases, TypeOK, MaybeSlot
<1>2. cmdline = running
    BY <1>1 DEF FallbackInv, IntactInv, TargetInv, Switched, Stayed, InstallerAt, OneInstaller,
        InstallerInv, ServicePhases
<1>3. ProvenRoot = running /\ Promise!Proven
    BY <1>1, <1>2 DEF ProvenRoot, OnTrial, Unsettled, Promise!Proven
<1>4. CASE WritePrevious(i) \/ WriteTarget(i) \/ WriteBootcount(i) \/ WritePending(i)
    <2>1. UNCHANGED <<cmdline, image, running>> /\ ~Unsettled'
        BY <1>1, <1>4 DEF WritePrevious, WriteTarget, WriteBootcount, WritePending, Unsettled,
            Written, FallbackInv, IntactInv, InstallerInv
    <2> QED
        BY <1>1, <1>2, <1>3, <2>1 DEF ProvenRoot, OnTrial, Unsettled
<1>5. CASE Download(i) \/ ApplyRejects(i) \/ ApplyFails(i) \/ SwitchFails(i)
    BY <1>5 DEF Download, ApplyRejects, ApplyFails, SwitchFails, ProvenRoot, OnTrial
<1>6. CASE ApplyBegins(i) \/ ApplyEnds(i)
    <2>1. PICK c \in {"good", "sick", "dead", "torn"} :
              image' = [image EXCEPT ![OtherSlot(running)] = c]
        BY <1>6 DEF ApplyBegins, ApplyEnds
    <2>2. UNCHANGED <<cmdline, running, ProvenRoot>>
        BY <1>6 DEF ApplyBegins, ApplyEnds, ProvenRoot, OnTrial
    <2> QED
        BY <1>1, <1>3, <2>1, <2>2 DEF Promise!Flash
<1>7. CASE SwitchRoot(i) \/ SwitchStays(i)
    <2>1. /\ installer[i] = "switch" /\ cmdline' = OtherSlot(running) /\ persist
          /\ UNCHANGED <<image, running, previous_root, pending_target_root, upgrade_pending>>
        BY <1>7 DEF SwitchRoot, SwitchStays, Switches, FallbackInv, IntactInv, TypeOK
    <2>2. /\ previous_root = running /\ pending_target_root = OtherSlot(running)
          /\ upgrade_pending /\ image[OtherSlot(running)] # "torn"
        BY <2>1 DEF FallbackInv, IntactInv, InstallerInv, KeptInv, PatientInv
    <2>3. ProvenRoot' = running
        BY <1>1, <2>1, <2>2 DEF ProvenRoot, OnTrial
    <2> QED
        BY <1>1, <1>3, <2>1, <2>2, <2>3 DEF Promise!Try
<1> QED
    BY <1>4, <1>5, <1>6, <1>7 DEF InstallerStep

\* The scripts keep what AbUpdate promises, as long as the way back has not been given
\* up: the proven slot, told from the files alone, holds a good image all the while,
\* is written by no one, and changes only when another has run and was good
\* (aawg-ota-apply:66-108, S05ota_bootstate:66-94, S95ota_confirm:27-48).
THEOREM ImplementsAbUpdate ==
    ASSUME OneInstaller, Patient
    PROVE  Spec => Promise!AbInit /\ [][Promise!AbNext \/ lost']_(Promise!abVars)
<1>1. Init => Promise!AbInit
    BY OtaAssumption DEF Init, Promise!AbInit, ProvenRoot, OnTrial, Slots
<1>2. FallbackInv /\ SettledInv /\ [Next]_vars => [Promise!AbNext \/ lost']_(Promise!abVars)
    <2> SUFFICES ASSUME FallbackInv, SettledInv, [Next]_vars, ~lost'
                 PROVE  [Promise!AbNext]_(Promise!abVars)
        OBVIOUS
    <2>0. ~lost
        BY LostStays
    <2>1. CASE PowerCycle \/ PowerCut \/ TearState \/ TearCmdline
        BY <2>0, <2>1, PowerStep DEF PowerCycle, PowerCut, TearState, TearCmdline
    <2>2. CASE BootStep
        BY <2>0, <2>2, BootImplements
    <2>3. ASSUME NEW i \in Installers, Command(i) PROVE UNCHANGED (Promise!abVars)
        BY <2>3 DEF Command, Goes, Promise!abVars, ProvenRoot, OnTrial, stateFiles, booted
    <2>4. ASSUME NEW i \in Installers, InstallerStep(i) PROVE [Promise!AbNext]_(Promise!abVars)
        <3>1. CASE Reboot(i)
            BY <2>0, <3>1, PowerStep DEF Reboot
        <3>2. CASE ~Reboot(i)
            BY <2>0, <2>4, <3>2, InstallerImplements
        <3> QED
            BY <3>1, <3>2
    <2>5. CASE UNCHANGED vars
        BY <2>5 DEF vars, Promise!abVars, ProvenRoot, OnTrial, stateFiles, booted
    <2> QED
        BY <2>1, <2>2, <2>3, <2>4, <2>5 DEF Next
<1> QED
    BY SettledAlways, <1>1, <1>2, PTL DEF Spec

\* Whatever happens but the loss of the way back or of root= itself, there is a slot
\* the files name that was proven and whose image is good.
THEOREM ProvenIsGood ==
    ASSUME OneInstaller, Patient
    PROVE  Spec => [](~lost /\ cmdline # None => ProvenRoot \in Slots /\ image[ProvenRoot] = "good")
<1>1. FallbackInv => (~lost /\ cmdline # None => ProvenRoot \in Slots /\ image[ProvenRoot] = "good")
    BY ProvenFacts
<1> QED
    BY SettledAlways, <1>1, PTL
=============================================================================
