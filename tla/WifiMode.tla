------------------------------- MODULE WifiMode -------------------------------
(***************************************************************************)
(* How wlan0 comes up.  rcS sources aawgd.conf into the environment, S30   *)
(* rewrites files of /etc, S39 writes hostapd's configuration, S41 starts  *)
(* the services and S93 the daemon, which tells each phone what network to *)
(* join (Config::getWifiInfo).  The files of /etc outlive the boot on      *)
(* /persist, unless that cannot be mounted; the user edits aawgd.conf on   *)
(* the boot partition; power may go at any step.                           *)
(***************************************************************************)
CONSTANTS
    Ssids, Keys, Bssids,   \* what a user writes into aawgd.conf
    Randoms,               \* what rcS_aawgd_conf draws from /dev/urandom
    NoNet,                 \* no network, or none of ours
    NoEnv                  \* the process does not run

Unwritten == {"unset", "EDIT_THIS"}
DefaultSsid == "AAWirelessDongle"

VARIABLES
    step,       \* what the boot does next
    conf,       \* /boot/aawgd.conf
    env,        \* the environment of rcS, which all its scripts inherit
    overlay,    \* what /etc is in this boot: over "persist", "tmpfs", or bare
    etc,        \* /etc/network/interfaces and /etc/wpa_supplicant.conf
    saved,      \* these files on /persist
    hostapd,    \* /var/run/hostapd.conf
    wlan,       \* wlan0: its address, the network joined, the network offered
    daemon      \* the environment of aawgd

vars == <<step, conf, env, overlay, etc, saved, hostapd, wlan, daemon>>

Steps == {"off", "mode", "interfaces", "hostapd", "services", "daemon", "up"}
Confs == [mode: {"sta", "ap"}, ssid: Ssids \cup Unwritten,
          password: Keys \cup Unwritten, bssid: Bssids \cup Unwritten]
Envs == [mode: {"sta", "ap"}, ssid: Ssids \cup Unwritten,
         password: Keys \cup Unwritten \cup Randoms, bssid: Bssids \cup Unwritten]
Nets == [ssid: Ssids \cup {DefaultSsid}, key: Keys \cup Unwritten \cup Randoms]

ASSUME WifiAssumption ==
    /\ (Ssids \cup Keys \cup Bssids \cup Randoms) \cap Unwritten = {}
    /\ Randoms # {}
    /\ NoNet \notin Nets /\ NoEnv \notin Envs

Files == [interfaces: {"dhcp", "static", "torn"}, wpa: Nets \cup {NoNet}]

\* The files of the image.
ImageFiles == [interfaces |-> "dhcp", wpa |-> NoNet]
Down == [address |-> "none", joined |-> NoNet, offered |-> NoNet]

TypeOK ==
    /\ step \in Steps
    /\ conf \in Confs
    /\ env \in Envs \cup {NoEnv}
    /\ overlay \in {"persist", "tmpfs", "none"}
    /\ etc \in Files /\ saved \in Files
    /\ hostapd \in Nets \cup {NoNet}
    /\ wlan \in [address: {"none", "static", "dhcp"}, joined: Nets \cup {NoNet},
                 offered: Nets \cup {NoNet}]
    /\ daemon \in Envs \cup {NoEnv}

\* A new card, its aawgd.conf edited already.
Init ==
    /\ step = "off"
    /\ conf \in Confs
    /\ env = NoEnv /\ daemon = NoEnv
    /\ overlay = "persist" /\ etc = ImageFiles /\ saved = ImageFiles
    /\ hostapd = NoNet /\ wlan = Down

-----------------------------------------------------------------------------
\* rcS.

\* rcS_aawgd_conf: in AP mode a password that is not set is drawn.
Sourced(c, random) ==
    IF c.mode = "ap" /\ c.password = "unset" THEN [c EXCEPT !.password = random] ELSE c

\* The overlay of /etc, then the environment.
PowerOn ==
    /\ step = "off"
    /\ step' = "mode"
    /\ \E o \in {"persist", "tmpfs", "none"} :
         /\ overlay' = o
         /\ etc' = IF o = "persist" THEN saved ELSE ImageFiles
    /\ \E random \in Randoms : env' = Sourced(conf, random)
    /\ UNCHANGED <<conf, saved, hostapd, wlan, daemon>>

\* A file of /etc is rewritten; the bare /etc is read-only.
Write(files) ==
    /\ overlay # "none"
    /\ etc' = files
    /\ saved' = IF overlay = "persist" THEN files ELSE saved

-----------------------------------------------------------------------------
\* S30wifi_mode: set -e, so that what fails ends it.

\* S30's own WIFI_MODE: access point, also as a fallback.
AccessPoint == env.mode = "ap" \/ env.bssid \in Unwritten
Complete == env.ssid \notin Unwritten /\ env.password \notin Unwritten
Net(e) == [ssid |-> e.ssid, key |-> e.password]

\* Mutant: the baseline file is taken to be right.
MutantModeStatic ==
    /\ step = "mode"
    /\ AccessPoint
    /\ step' = "hostapd"
    /\ UNCHANGED <<conf, env, overlay, etc, saved, hostapd, wlan, daemon>>

ModeStatic ==
    /\ step = "mode"
    /\ AccessPoint
    /\ Write([etc EXCEPT !.interfaces = "static"])
    /\ step' = "hostapd"
    /\ UNCHANGED <<conf, env, overlay, hostapd, wlan, daemon>>

\* Mutant: SSID and PSK change places.
MutantModeSupplicant ==
    /\ step = "mode"
    /\ ~AccessPoint /\ Complete
    /\ Write([etc EXCEPT !.wpa = [ssid |-> env.password, key |-> env.ssid]])
    /\ step' = "interfaces"
    /\ UNCHANGED <<conf, env, overlay, hostapd, wlan, daemon>>

ModeSupplicant ==
    /\ step = "mode"
    /\ ~AccessPoint /\ Complete
    /\ Write([etc EXCEPT !.wpa = Net(env)])
    /\ step' = "interfaces"
    /\ UNCHANGED <<conf, env, overlay, hostapd, wlan, daemon>>

ModeDhcp ==
    /\ step = "interfaces"
    /\ Write([etc EXCEPT !.interfaces = "dhcp"])
    /\ step' = "hostapd"
    /\ UNCHANGED <<conf, env, overlay, hostapd, wlan, daemon>>

\* SSID or password missing, or a write that fails: the files stay as they are.
ModeExits ==
    /\ step = "mode"
    /\ (~AccessPoint /\ ~Complete) \/ overlay = "none"
    /\ step' = "hostapd"
    /\ UNCHANGED <<conf, env, overlay, etc, saved, hostapd, wlan, daemon>>

-----------------------------------------------------------------------------
\* S39hostapd_conf, in either mode; without a password no wpa_passphrase.
Offer(e) == [ssid |-> IF e.ssid \in Unwritten THEN DefaultSsid ELSE e.ssid,
             key |-> e.password]

HostapdConf ==
    /\ step = "hostapd"
    /\ hostapd' = Offer(env)
    /\ step' = "services"
    /\ UNCHANGED <<conf, env, overlay, etc, saved, wlan, daemon>>

\* S41wifi_services decides by the configuration again: ifup, and in AP mode
\* hostapd and dnsmasq. ifup of a dhcp interface starts wpa_supplicant first.
Services ==
    /\ step = "services"
    /\ wlan' = [address |-> IF etc.interfaces = "torn" THEN "none" ELSE etc.interfaces,
                joined |-> IF etc.interfaces = "dhcp" THEN etc.wpa ELSE NoNet,
                offered |-> IF env.mode = "ap" THEN hostapd ELSE NoNet]
    /\ step' = "daemon"
    /\ UNCHANGED <<conf, env, overlay, etc, saved, hostapd, daemon>>

\* Mutant: rcS does not export AAWG_CONF_SOURCED, so that S93 sources again.
MutantSourcesAgain ==
    /\ step = "daemon"
    /\ \E random \in Randoms : daemon' = Sourced(conf, random)
    /\ step' = "up"
    /\ UNCHANGED <<conf, env, overlay, etc, saved, hostapd, wlan>>

\* S93aawgd.
StartDaemon ==
    /\ step = "daemon"
    /\ daemon' = env
    /\ step' = "up"
    /\ UNCHANGED <<conf, env, overlay, etc, saved, hostapd, wlan>>

-----------------------------------------------------------------------------
\* The user and power.

Edit ==
    /\ step \in {"off", "up"}
    /\ conf' \in Confs
    /\ UNCHANGED <<step, env, overlay, etc, saved, hostapd, wlan, daemon>>

PowerOff ==
    /\ step # "off"
    /\ step' = "off"
    /\ env' = NoEnv /\ daemon' = NoEnv
    /\ hostapd' = NoNet /\ wlan' = Down

PowerCut ==
    /\ PowerOff
    /\ UNCHANGED <<conf, overlay, etc, saved>>

\* Power goes between the truncation of a file and its write.
Tear ==
    /\ PowerOff
    /\ \/ /\ (step = "mode" /\ AccessPoint) \/ step = "interfaces"
          /\ Write([etc EXCEPT !.interfaces = "torn"])
       \/ /\ step = "mode" /\ ~AccessPoint /\ Complete
          /\ Write([etc EXCEPT !.wpa = NoNet])
    /\ UNCHANGED <<conf, overlay>>

Next ==
    \/ PowerOn \/ ModeStatic \/ ModeSupplicant \/ ModeDhcp \/ ModeExits
    \/ HostapdConf \/ Services \/ StartDaemon
    \/ Edit \/ PowerCut \/ Tear

Spec == Init /\ [][Next]_vars

-----------------------------------------------------------------------------
\* What aawgd tells a phone: Config::getWifiInfo.
Getenv(value, default) == IF value = "unset" THEN default ELSE value
Told ==
    [ssid |-> Getenv(daemon.ssid, DefaultSsid),
     key |-> Getenv(daemon.password, "ConnectAAWirelessDongle"),
     bssid |-> Getenv(daemon.bssid, "wlan0")]

Served == step = "up" /\ overlay # "none"

\* /etc/wpa_supplicant.conf and /etc/network/interfaces "are autogenerated at
\* boot from aawgd.conf" (README.md:58): once a boot with a complete configuration
\* is done, wlan0 is in the mode it asks for and on the network it names, whatever
\* earlier boots, other configurations and torn writes have left on /persist.
ModeServed ==
    Served =>
        /\ env.mode = "ap" =>
             wlan = [address |-> "static", joined |-> NoNet, offered |-> Offer(env)]
        /\ env.mode = "sta" /\ Complete /\ env.bssid \notin Unwritten =>
             wlan = [address |-> "dhcp", joined |-> Net(env), offered |-> NoNet]

\* A configuration as aawgd.conf explains it.
Sane ==
    /\ env.mode = "ap" => env.ssid # "EDIT_THIS" /\ env.bssid = "unset"
    /\ env.mode = "sta" => Complete /\ env.bssid \notin Unwritten

\* The phone is told the network that is on the air, though four scripts and the
\* daemon each have defaults of their own and the password may have been drawn
\* (common.cpp:103-116, S39hostapd_conf:20-29, rcS_aawgd_conf:17-21).
ToldWhatIsServed ==
    Served /\ Sane =>
        IF env.mode = "ap"
        THEN /\ wlan.offered = [ssid |-> Told.ssid, key |-> Told.key]
             /\ Told.bssid = "wlan0"
        ELSE /\ wlan.joined = [ssid |-> Told.ssid, key |-> Told.key]
             /\ Told.bssid = env.bssid

\* Without a BSSID S30 is "falling back to AP mode for recovery SSH"
\* (S30wifi_mode:46): the user finds an access point.
RecoveryOffered ==
    Served /\ env.mode = "sta" /\ env.bssid \in Unwritten => wlan.offered # NoNet
=============================================================================
