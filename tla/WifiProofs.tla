------------------------------ MODULE WifiProofs ------------------------------
(***************************************************************************)
(* Theorems about WifiMode, for any names a user writes and any password   *)
(* the dongle draws.                                                       *)
(***************************************************************************)
EXTENDS WifiMode, TLAPS

\* The environment exists while the boot or the system runs, and in AP mode it
\* has a password.
EnvInv ==
    /\ step # "off" => env \in Envs
    /\ env # NoEnv /\ env.mode = "ap" => env.password # "unset"

\* What S30 has written so far is made from this boot's environment.
FilesInv ==
    /\ step = "interfaces" => ~AccessPoint /\ Complete /\ etc.wpa = Net(env)
    /\ overlay # "none" /\ step \in {"hostapd", "services", "daemon", "up"} =>
         /\ AccessPoint => etc.interfaces = "static"
         /\ ~AccessPoint /\ Complete => etc.interfaces = "dhcp" /\ etc.wpa = Net(env)

\* hostapd's file, wlan0 and the daemon follow from the files and the environment.
ServicesInv ==
    /\ step \in {"services", "daemon", "up"} =>
         hostapd = Offer(env)
    /\ step \in {"daemon", "up"} =>
         wlan = [address |-> IF etc.interfaces = "torn" THEN "none" ELSE etc.interfaces,
                 joined |-> IF etc.interfaces = "dhcp" THEN etc.wpa ELSE NoNet,
                 offered |-> IF env.mode = "ap" THEN hostapd ELSE NoNet]
    /\ step = "up" => daemon = env

BootInv == TypeOK /\ EnvInv /\ FilesInv /\ ServicesInv

-----------------------------------------------------------------------------

\* A complete environment names a network.
LEMMA NetIsNet ==
    ASSUME env \in Envs, Complete
    PROVE  Net(env) \in Nets
BY WifiAssumption DEF Envs, Nets, Net, Complete

\* What rcS_aawgd_conf makes of a configuration is an environment, with a
\* password in AP mode.
LEMMA SourcedEnv ==
    ASSUME NEW c \in Confs, NEW random \in Randoms
    PROVE  /\ Sourced(c, random) \in Envs
           /\ Sourced(c, random).mode = "ap" => Sourced(c, random).password # "unset"
BY WifiAssumption, SMT DEF Confs, Envs, Sourced, Unwritten

\* Every boot starts from nothing.
LEMMA BootInit == Init => BootInv
BY WifiAssumption, SMT DEF Init, BootInv, TypeOK, Steps, Files, ImageFiles, Down, EnvInv,
    FilesInv, ServicesInv

\* The types are inductive by themselves, given that the environment exists.
LEMMA TypeStep == BootInv /\ [Next]_vars => TypeOK'
<1> SUFFICES ASSUME BootInv, [Next]_vars PROVE TypeOK'
    OBVIOUS
<1> USE DEF BootInv, TypeOK, Steps, Files
<1>1. CASE PowerOn
    BY <1>1, SourcedEnv, WifiAssumption DEF PowerOn, ImageFiles
<1>2. CASE ModeStatic
    BY <1>2 DEF ModeStatic, Write
<1>3. CASE ModeSupplicant
    <2>1. Net(env) \in Nets
        BY <1>3, NetIsNet DEF ModeSupplicant, EnvInv
    <2> QED
        BY <1>3, <2>1 DEF ModeSupplicant, Write
<1>4. CASE ModeDhcp
    BY <1>4 DEF ModeDhcp, Write
<1>5. CASE ModeExits
    BY <1>5 DEF ModeExits
<1>6. CASE HostapdConf
    <2>1. hostapd' \in Nets
        BY <1>6 DEF HostapdConf, EnvInv, Offer, Envs, Nets
    <2> QED
        BY <1>6, <2>1 DEF HostapdConf
<1>7. CASE Services
    BY <1>7 DEF Services
<1>8. CASE StartDaemon
    BY <1>8 DEF StartDaemon
<1>9. CASE Edit
    BY <1>9 DEF Edit
<1>10. CASE PowerCut
    BY <1>10 DEF PowerCut, PowerOff, Down
<1>11. CASE Tear
    BY <1>11 DEF Tear, PowerOff, Down, Write
<1>12. CASE UNCHANGED vars
    BY <1>12 DEF vars
<1> QED
    BY <1>1, <1>2, <1>3, <1>4, <1>5, <1>6, <1>7, <1>8, <1>9, <1>10, <1>11, <1>12 DEF Next

\* Each script leaves what the next ones rely on.
LEMMA ScriptStep == BootInv /\ [Next]_vars => (EnvInv /\ FilesInv /\ ServicesInv)'
<1> SUFFICES ASSUME BootInv, [Next]_vars PROVE (EnvInv /\ FilesInv /\ ServicesInv)'
    OBVIOUS
<1> USE DEF BootInv, EnvInv, FilesInv, ServicesInv, AccessPoint, Complete, Net
<1>1. CASE PowerOn
    BY <1>1, SourcedEnv DEF PowerOn, TypeOK
<1>2. CASE ModeStatic
    BY <1>2 DEF ModeStatic, Write, TypeOK, Files
<1>3. CASE ModeSupplicant
    BY <1>3 DEF ModeSupplicant, Write, TypeOK, Files
<1>4. CASE ModeDhcp
    BY <1>4 DEF ModeDhcp, Write, TypeOK, Files
<1>5. CASE ModeExits
    BY <1>5 DEF ModeExits
<1>6. CASE HostapdConf
    BY <1>6 DEF HostapdConf
<1>7. CASE Services
    BY <1>7 DEF Services
<1>8. CASE StartDaemon
    BY <1>8 DEF StartDaemon
<1>9. CASE Edit
    BY <1>9 DEF Edit
<1>10. CASE PowerCut
    BY <1>10 DEF PowerCut, PowerOff
<1>11. CASE Tear
    BY <1>11 DEF Tear, PowerOff
<1>12. CASE UNCHANGED vars
    BY <1>12 DEF vars
<1> QED
    BY <1>1, <1>2, <1>3, <1>4, <1>5, <1>6, <1>7, <1>8, <1>9, <1>10, <1>11, <1>12 DEF Next

\* The invariant of every boot.
LEMMA BootAlways == Spec => []BootInv
<1>1. BootInv /\ [Next]_vars => BootInv'
    BY TypeStep, ScriptStep DEF BootInv
<1> QED
    BY BootInit, <1>1, PTL DEF Spec

-----------------------------------------------------------------------------

\* Every variable of the boot keeps its type (rcS and its scripts).
THEOREM TypeCorrect == Spec => []TypeOK
<1>1. BootInv => TypeOK
    BY DEF BootInv
<1> QED
    BY BootAlways, <1>1, PTL

\* After a boot with a complete configuration wlan0 is as the configuration says,
\* whatever earlier boots and torn writes left behind (S30, S39, S41).
THEOREM HistoryForgotten == Spec => []ModeServed
<1>1. BootInv => ModeServed
    <2> SUFFICES ASSUME BootInv, Served PROVE ModeServed!2
        BY DEF ModeServed
    <2> USE DEF BootInv, EnvInv, FilesInv, ServicesInv, Served
    <2>1. CASE env.mode = "ap"
        BY <2>1 DEF AccessPoint
    <2>2. CASE env.mode # "ap"
        BY <2>2 DEF AccessPoint
    <2> QED
        BY <2>1, <2>2
<1> QED
    BY BootAlways, <1>1, PTL

\* The phone is told the network that is on the air (Config::getWifiInfo and the
\* scripts have defaults of their own).
THEOREM TheRightNetwork == Spec => []ToldWhatIsServed
<1>1. BootInv => ToldWhatIsServed
    <2> SUFFICES ASSUME BootInv, Served, Sane PROVE ToldWhatIsServed!2
        BY DEF ToldWhatIsServed
    <2> USE DEF BootInv, EnvInv, FilesInv, ServicesInv, Served
    <2>1. env \in Envs /\ daemon = env
        OBVIOUS
    <2>2. CASE env.mode = "ap"
        <3>1. env.ssid # "EDIT_THIS" /\ env.bssid = "unset" /\ env.password # "unset"
            BY <2>1, <2>2, WifiAssumption DEF Sane
        <3>2. Told = [ssid |-> Offer(env).ssid, key |-> Offer(env).key, bssid |-> "wlan0"]
            BY <2>1, <3>1 DEF Told, Getenv, Offer, Unwritten
        <3>3. wlan.offered = Offer(env)
            BY <2>2
        <3> QED
            BY <2>2, <3>2, <3>3 DEF Offer
    <2>3. CASE env.mode # "ap"
        <3>1. env.mode = "sta" /\ Complete /\ ~AccessPoint
            BY <2>1, <2>3 DEF Sane, Envs, AccessPoint
        <3>2. Told = [ssid |-> env.ssid, key |-> env.password, bssid |-> env.bssid]
            BY <2>1, <3>1 DEF Told, Getenv, Complete, AccessPoint, Unwritten
        <3>3. wlan.joined = Net(env)
            BY <3>1
        <3> QED
            BY <2>3, <3>2, <3>3 DEF Net
    <2> QED
        BY <2>2, <2>3
<1> QED
    BY BootAlways, <1>1, PTL
=============================================================================
