------------------------------- MODULE OtaUpdate -------------------------------
(***************************************************************************)
(* A/B updates of the root file system: aawg-ota-apply, run once per OTA   *)
(* command by aawgd-mqtt, and the init scripts S05ota_bootstate (rollback) *)
(* and S95ota_confirm.  They share the files of /persist/ota, the root=    *)
(* token of /boot/cmdline.txt and the two slots; power may go at any step. *)
(*                                                                         *)
(* A file written with "echo" is empty between the truncation and the      *)
(* write: power lost there leaves None (a path), FALSE (upgrade_pending)   *)
(* or 0 (bootcount), which is how the scripts read an empty file.          *)
(***************************************************************************)
EXTENDS Naturals

CONSTANTS
    SlotA, SlotB,  \* /dev/mmcblk0p2 and /dev/mmcblk0p3
    None,          \* an empty or missing file
    Installers,    \* runs of aawg-ota-apply
    Bundles,       \* what bundles hold: "good" images, "sick" ones, which boot
                   \* but where aawgd does not run, "dead" ones, which do not boot
    Patient,       \* OTA commands come only when no unproven image is running and
                   \* the next boot is not to take another
    CutsInBoot,    \* power may go during a boot
    TornFiles,     \* files that power may tear: "state" (/persist), "cmdline"
    Failing,       \* what may fail: "boot", the remount of /boot by a rollback,
                   \* "readonly", the one that ends the switch of the root, and
                   \* "persist", the mount of /persist
    MaxBoots       \* the content of max_boots

ASSUME OtaAssumption ==
    /\ SlotA # SlotB /\ None \notin {SlotA, SlotB}
    /\ Bundles \subseteq {"good", "sick", "dead"}
    /\ Patient \in BOOLEAN /\ CutsInBoot \in BOOLEAN
    /\ TornFiles \subseteq {"state", "cmdline"}
    /\ Failing \subseteq {"boot", "readonly", "persist"}
    /\ MaxBoots \in Nat

VARIABLES
    cmdline,              \* the root= of /boot/cmdline.txt
    image,                \* what each slot holds
    running,              \* the slot booted: root= of /proc/cmdline
    persist,              \* /persist is its partition, not a tmpfs in its place
    phase,                \* how far the boot has come
    installer,            \* each run of aawg-ota-apply: its next step
    previous_root, pending_target_root, upgrade_pending, bootcount,
                          \* the files on the partition
    lost                  \* the way back was given up: by a rollback that failed to
                          \* write cmdline.txt, or an update without /persist

stateFiles == <<previous_root, pending_target_root, upgrade_pending, bootcount>>
booted == <<running, persist>>
vars == <<cmdline, image, booted, phase, installer, stateFiles, lost>>

Slots == {SlotA, SlotB}
MaybeSlot == Slots \cup {None}
OtherSlot(s) == IF s = SlotA THEN SlotB ELSE SlotA

RollbackPhases == {"rollback", "clear", "reset", "reboot"}
ServicePhases == {"services", "confirm", "zero", "up"}
Phases == {"off", "hung", "bootstate", "count"} \cup RollbackPhases \cup ServicePhases
Steps == {"idle", "previous", "target", "bootcount", "pending", "download",
          "apply", "flash", "switch", "reboot"}

TypeOK ==
    /\ cmdline \in MaybeSlot
    /\ image \in [Slots -> {"good", "sick", "dead", "torn"}]
    /\ running \in MaybeSlot
    /\ phase \in Phases
    /\ installer \in [Installers -> Steps]
    /\ previous_root \in MaybeSlot
    /\ pending_target_root \in MaybeSlot
    /\ upgrade_pending \in BOOLEAN
    /\ bootcount \in 0..(MaxBoots + 1)
    /\ persist \in BOOLEAN /\ lost \in BOOLEAN

\* A good image runs in slot A; the other slot holds whatever was flashed.
Init ==
    /\ cmdline = SlotA /\ running = SlotA /\ persist = TRUE /\ phase = "up"
    /\ image \in [Slots -> {"good", "sick", "dead"}] /\ image[SlotA] = "good"
    /\ installer = [i \in Installers |-> "idle"]
    /\ previous_root = None /\ pending_target_root = None
    /\ upgrade_pending = FALSE /\ bootcount = 0 /\ lost = FALSE

-----------------------------------------------------------------------------
\* Power and the boot loader.

\* The system stops, with every process on it.
Stop ==
    /\ phase' = "off"
    /\ running' = None /\ persist' = FALSE
    /\ installer' = [i \in Installers |-> "idle"]

\* Without a root file system the kernel panics and stays there. When the partition
\* of /persist cannot be mounted a tmpfs is, which every script takes for it.
Boot ==
    /\ phase = "off"
    /\ IF cmdline # None /\ image[cmdline] \in {"good", "sick"}
       THEN /\ phase' = "bootstate" /\ running' = cmdline
            /\ persist' \in (IF "persist" \in Failing THEN BOOLEAN ELSE {TRUE})
       ELSE phase' = "hung" /\ UNCHANGED booted
    /\ UNCHANGED <<cmdline, image, lost, installer, stateFiles>>

\* Power goes while the system is up or hung: the end of a drive.
PowerCycle ==
    /\ phase \in {"up", "hung"}
    /\ Stop
    /\ UNCHANGED <<cmdline, image, lost, stateFiles>>

\* Power goes during the boot.
PowerCut ==
    /\ CutsInBoot
    /\ phase \notin {"off", "up", "hung"}
    /\ Stop
    /\ UNCHANGED <<cmdline, image, lost, stateFiles>>

InstallerAt(step) == \E i \in Installers : installer[i] = step

\* Power goes between the truncation of a file and its write.
TearState ==
    /\ "state" \in TornFiles /\ persist
    /\ \/ /\ InstallerAt("previous") /\ previous_root' = None
          /\ UNCHANGED <<pending_target_root, upgrade_pending, bootcount>>
       \/ /\ InstallerAt("target") /\ pending_target_root' = None
          /\ UNCHANGED <<previous_root, upgrade_pending, bootcount>>
       \/ /\ InstallerAt("pending") \/ phase \in {"clear", "confirm"}
          /\ upgrade_pending' = FALSE
          /\ UNCHANGED <<previous_root, pending_target_root, bootcount>>
       \/ /\ InstallerAt("bootcount") \/ phase \in {"count", "reset", "zero"}
          /\ bootcount' = 0
          /\ UNCHANGED <<previous_root, pending_target_root, upgrade_pending>>
    /\ Stop
    /\ UNCHANGED <<cmdline, image, lost>>

TearCmdline ==
    /\ "cmdline" \in TornFiles
    /\ InstallerAt("switch") \/ phase = "rollback"
    /\ cmdline' = None
    /\ Stop
    /\ UNCHANGED <<image, lost, stateFiles>>

-----------------------------------------------------------------------------
\* S05ota_bootstate.

\* The update of the running slot is not settled, and the scripts can see it.
Unsettled == upgrade_pending /\ running # None /\ pending_target_root = running
Pending == persist /\ Unsettled

\* It runs from the slot it judges: a slot that does not boot is never counted.
Bootstate ==
    /\ phase = "bootstate"
    /\ phase' = IF Pending THEN "count" ELSE "services"
    /\ UNCHANGED <<cmdline, image, lost, booted, installer, stateFiles>>

\* Mutant: the count of the boots before is lost.
MutantCountLost ==
    /\ phase = "count"
    /\ bootcount' = 1
    /\ phase' = IF bootcount' > MaxBoots THEN "rollback" ELSE "services"
    /\ UNCHANGED <<cmdline, image, lost, booted, installer, previous_root,
                   pending_target_root, upgrade_pending>>

\* Beyond the maximum all counts are alike: the model stops counting there.
Count ==
    /\ phase = "count"
    /\ bootcount' = IF bootcount > MaxBoots THEN bootcount ELSE bootcount + 1
    /\ phase' = IF bootcount' > MaxBoots THEN "rollback" ELSE "services"
    /\ UNCHANGED <<cmdline, image, lost, booted, installer, previous_root,
                   pending_target_root, upgrade_pending>>

HasPrevious == previous_root \notin {None, running}

\* A set_cmdline_root that fails is not noticed (set +e): the script goes on.
Rollback ==
    /\ phase = "rollback"
    /\ \/ cmdline' = (IF HasPrevious THEN previous_root ELSE cmdline) /\ UNCHANGED lost
       \/ "boot" \in Failing /\ HasPrevious /\ lost' = TRUE /\ UNCHANGED cmdline
    /\ phase' = "clear"
    /\ UNCHANGED <<image, booted, installer, stateFiles>>

RollbackClear ==
    /\ phase = "clear"
    /\ upgrade_pending' = FALSE
    /\ phase' = "reset"
    /\ UNCHANGED <<cmdline, image, lost, booted, installer, previous_root,
                   pending_target_root, bootcount>>

RollbackReset ==
    /\ phase = "reset"
    /\ bootcount' = 0
    /\ phase' = "reboot"
    /\ UNCHANGED <<cmdline, image, lost, booted, installer, previous_root,
                   pending_target_root, upgrade_pending>>

RollbackReboot ==
    /\ phase = "reboot"
    /\ Stop
    /\ UNCHANGED <<cmdline, image, lost, stateFiles>>

\* S95ota_confirm, once the services of S93 and S94 are started: aawgd runs in a
\* good image only.
Confirm ==
    /\ phase = "services"
    /\ phase' = IF Pending /\ image[running] = "good" THEN "confirm" ELSE "up"
    /\ UNCHANGED <<cmdline, image, lost, booted, installer, stateFiles>>

\* Mutant: the update stays pending.
MutantConfirmClear ==
    /\ phase = "confirm"
    /\ phase' = "zero"
    /\ UNCHANGED <<cmdline, image, lost, booted, installer, stateFiles>>

ConfirmClear ==
    /\ phase = "confirm"
    /\ upgrade_pending' = FALSE
    /\ phase' = "zero"
    /\ UNCHANGED <<cmdline, image, lost, booted, installer, previous_root,
                   pending_target_root, bootcount>>

ConfirmReset ==
    /\ phase = "zero"
    /\ bootcount' = 0
    /\ phase' = "up"
    /\ UNCHANGED <<cmdline, image, lost, booted, installer, previous_root,
                   pending_target_root, upgrade_pending>>

-----------------------------------------------------------------------------
\* aawg-ota-apply. The scripts of the boot go on by its side: aawgd-mqtt is
\* started before S95.

Goes(i, step, next) ==
    /\ installer[i] = step
    /\ installer' = [installer EXCEPT ![i] = next]
    /\ UNCHANGED <<booted, phase>>

Command(i) ==
    /\ phase \in ServicePhases
    /\ Patient => ~Unsettled /\ cmdline = running
    /\ Goes(i, "idle", "previous")
    /\ UNCHANGED <<cmdline, image, lost, stateFiles>>

\* What is written to a tmpfs is read by no one before it is gone.
Written(value, old) == IF persist THEN value ELSE old

WritePrevious(i) ==
    /\ Goes(i, "previous", "target")
    /\ previous_root' = Written(running, previous_root)
    /\ UNCHANGED <<cmdline, image, lost, pending_target_root, upgrade_pending, bootcount>>

WriteTarget(i) ==
    /\ Goes(i, "target", "bootcount")
    /\ pending_target_root' = Written(OtherSlot(running), pending_target_root)
    /\ UNCHANGED <<cmdline, image, lost, previous_root, upgrade_pending, bootcount>>

\* Mutant: upgrade_pending is not written.
MutantNotPending(i) ==
    /\ Goes(i, "bootcount", "download")
    /\ bootcount' = Written(0, bootcount)
    /\ UNCHANGED <<cmdline, image, lost, previous_root, pending_target_root, upgrade_pending>>

WriteBootcount(i) ==
    /\ Goes(i, "bootcount", "pending")
    /\ bootcount' = Written(0, bootcount)
    /\ UNCHANGED <<cmdline, image, lost, previous_root, pending_target_root, upgrade_pending>>

WritePending(i) ==
    /\ Goes(i, "pending", "download")
    /\ upgrade_pending' = Written(TRUE, upgrade_pending)
    /\ UNCHANGED <<cmdline, image, lost, previous_root, pending_target_root, bootcount>>

\* Mutant: a failed download leaves the script in a step of its own.
MutantDownload(i) ==
    /\ Goes(i, "download", "apply") \/ Goes(i, "download", "failed")
    /\ UNCHANGED <<cmdline, image, lost, stateFiles>>

\* A step that fails ends the script (set -e); the update stays pending.
Download(i) ==
    /\ Goes(i, "download", "apply") \/ Goes(i, "download", "idle")
    /\ UNCHANGED <<cmdline, image, lost, stateFiles>>

\* swupdate rejects the bundle, or begins to write the other slot.
ApplyRejects(i) ==
    /\ Goes(i, "apply", "idle")
    /\ UNCHANGED <<cmdline, image, lost, stateFiles>>

\* Mutant: the slots are swapped.
MutantApplyBegins(i) ==
    /\ Goes(i, "apply", "flash")
    /\ image' = [image EXCEPT ![previous_root] = "torn"]
    /\ UNCHANGED <<cmdline, lost, stateFiles>>

ApplyBegins(i) ==
    /\ Goes(i, "apply", "flash")
    /\ image' = [image EXCEPT ![OtherSlot(running)] = "torn"]
    /\ UNCHANGED <<cmdline, lost, stateFiles>>

\* Mutant: the failure of swupdate goes unnoticed.
MutantApplyFails(i) ==
    /\ Goes(i, "flash", "switch")
    /\ UNCHANGED <<cmdline, image, lost, stateFiles>>

ApplyFails(i) ==
    /\ Goes(i, "flash", "idle")
    /\ UNCHANGED <<cmdline, image, lost, stateFiles>>

ApplyEnds(i) ==
    /\ Goes(i, "flash", "switch")
    /\ \E b \in Bundles : image' = [image EXCEPT ![OtherSlot(running)] = b]
    /\ UNCHANGED <<cmdline, lost, stateFiles>>

Switches(i, next) ==
    /\ Goes(i, "switch", next)
    /\ cmdline' = OtherSlot(running)
    /\ lost' = (lost \/ ~persist)
    /\ UNCHANGED <<image, stateFiles>>

SwitchRoot(i) == Switches(i, "reboot")

\* /boot cannot be made read-only again, which ends the script: the root is
\* switched, the system not rebooted.
SwitchStays(i) == "readonly" \in Failing /\ Switches(i, "idle")

\* /boot cannot be remounted: the image is written, the root not switched.
SwitchFails(i) ==
    /\ Goes(i, "switch", "idle")
    /\ UNCHANGED <<cmdline, image, lost, stateFiles>>

Reboot(i) ==
    /\ installer[i] = "reboot"
    /\ Stop
    /\ UNCHANGED <<cmdline, image, lost, stateFiles>>

InstallerStep(i) ==
    \/ WritePrevious(i) \/ WriteTarget(i) \/ WriteBootcount(i) \/ WritePending(i)
    \/ Download(i) \/ ApplyRejects(i) \/ ApplyBegins(i) \/ ApplyFails(i)
    \/ ApplyEnds(i) \/ SwitchRoot(i) \/ SwitchStays(i) \/ SwitchFails(i)
    \/ Reboot(i)

BootStep ==
    \/ Boot \/ Bootstate \/ Count \/ Rollback \/ RollbackClear \/ RollbackReset
    \/ RollbackReboot \/ Confirm \/ ConfirmClear \/ ConfirmReset

Next ==
    \/ PowerCycle \/ PowerCut \/ TearState \/ TearCmdline
    \/ BootStep
    \/ \E i \in Installers : Command(i) \/ InstallerStep(i)

\* The scripts of a boot run, and each drive has an end.
Fairness == WF_vars(BootStep) /\ WF_vars(PowerCycle)

Spec == Init /\ [][Next]_vars /\ Fairness

-----------------------------------------------------------------------------
\* The slot the next boot takes is never half written, wherever power went
\* during the update (aawg-ota-apply:103-106).
BootTargetIntact == cmdline # None => image[cmdline] # "torn"

\* swupdate writes neither the running slot nor the one the next boot takes.
OtherSlotOnly ==
    [][\A s \in Slots : image'[s] # image[s] => s # running /\ s # cmdline]_vars

\* While the next boot takes an image that is not proven, the way back is there:
\* the update is still pending on that slot, and previous_root names the other
\* slot, which holds the good image. It is given up only by a rollback that could
\* not write /boot and cleared the update all the same, or by an update that wrote
\* its state to a tmpfs (S05ota_bootstate:72-95, rcS:15-18).
FallbackReady ==
    ~lost /\ cmdline # None /\ image[cmdline] \in {"sick", "dead"} =>
        /\ upgrade_pending
        /\ pending_target_root = cmdline
        /\ previous_root = OtherSlot(cmdline)
        /\ image[previous_root] = "good"

Unproven(kind) == cmdline # None /\ image[cmdline] = kind
BackToGood == cmdline # None /\ image[cmdline] = "good"

\* In the end power stays for a whole boot, and /persist can be mounted.
FaultsEnd ==
    /\ <>[][~(PowerCut \/ TearState \/ TearCmdline)]_vars
    /\ <>[][phase' = "bootstate" => persist']_vars

\* An image that boots but where aawgd does not run is left again in the end,
\* however often power goes or /persist is missing before: at worst by losing
\* root= or the way back (S05ota_bootstate:81-95).
SickRollsBack ==
    FaultsEnd => (Unproven("sick") ~> BackToGood \/ lost \/ cmdline = None)

\* "If the new slot fails to boot/confirm within a couple of attempts it will
\* automatically roll back" (BUILDING.md:76).
UnbootableRollsBack == Unproven("dead") ~> BackToGood

\* A good update that is booted is settled one way or the other, however often
\* power goes or /persist is missing before, and is not counted towards a rollback
\* for ever; at worst root= is lost (S95ota_confirm:27-48).
GoodUpdateSettles ==
    FaultsEnd => (Unsettled /\ image[running] = "good" ~>
                    (running # None /\ ~Unsettled) \/ cmdline = None)
=============================================================================
