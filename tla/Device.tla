------------------------------- MODULE Device ------------------------------
(***************************************************************************)
(* The device from power-on to power-off: main and main_task (main.cpp),   *)
(* joining a network (wifi_fns.cpp, ethernet_fns.cpp), the POST handlers   *)
(* that show and save the settings (post.cpp), the flash sector they are   *)
(* kept in (settings.cpp), and the watchdog, through which every restart   *)
(* goes.  Power may fail at any moment, also while the sector is written.  *)
(*                                                                         *)
(* The main task, the lwIP thread that runs the POST handlers, and the     *)
(* task that feeds the watchdog interleave; a flash write stops them all.  *)
(***************************************************************************)
EXTENDS Integers, Sequences, FiniteSets, SequencesExt

CONSTANTS
    NULL,
    Forms,               \* contents of the settings page a user may post
    Short, Long,         \* passwords of less than 8 characters, and of 8 or more
    Bssids,              \* networks in the air
    MAX_WIFI_NETWORKS,
    AtZero,              \* what atoi makes of the bytes at address 0
    Second,              \* ticks of the watchdog in the second before a restart
    MaxSaves, MaxCuts, MaxDrops     \* bounds on saves, power cuts and lost links

ASSUME DeviceAssumption ==
    /\ Short \cap Long = {} /\ "" \notin Short \cup Long
    /\ NULL \notin Short \cup Long \cup {""} \cup Nat
    /\ {MAX_WIFI_NETWORKS, AtZero, Second, MaxSaves, MaxCuts, MaxDrops} \subseteq Nat

VARIABLES
    flash,            \* the sector: client_mode_settings
    initial_config,
    main,             \* main_task: where it is
    wifi,             \* station: joined, has an address
    eth,              \* Ethernet: the chip was found, and a cable leads to a network
    sensors,          \* ports of the sensors constructed, in that order
    wifi_networks,
    http,             \* POST handler: where it is, settings to write, what it compared
    wd,               \* watchdog: ticks left, or NULL when it is off
    feeding,          \* feedWdTask is not suspended
    gh                \* history: settings at start, last password set, bounds, link lost waiting

vars == <<flash, initial_config, main, wifi, eth, sensors, wifi_networks, http, wd, feeding, gh>>

-----------------------------------------------------------------------------
(* Settings. *)

(* strncpy into char password[8] ends the string only when there is room.  *)
Field(p) == [text |-> p, ended |-> p \notin Long]
(* Read as a string, a field that is not ended runs into the next one.     *)
AsString(f) == IF f.ended THEN f.text ELSE NULL

(* s_Client_Settings as built; of what is published, one entry is kept.    *)
Default == [conn |-> "WIFI", ssid |-> "", auth |-> 0, dhcp |-> TRUE, eth_dhcp |-> TRUE, mqtt |-> 0,
            enabled |-> <<TRUE, FALSE, FALSE>>,
            publish |-> [is_num |-> TRUE, avg_cnt |-> 180], password |-> Field("")]

(* All ones: no connection type, some name, every flag set. *)
Erased == [conn |-> "ones", ssid |-> "ones", auth |-> -1, dhcp |-> TRUE, eth_dhcp |-> TRUE,
           mqtt |-> -1, enabled |-> <<TRUE, TRUE, TRUE>>,
           publish |-> [is_num |-> TRUE, avg_cnt |-> -1],
           password |-> [text |-> NULL, ended |-> FALSE]]

CYW43_AUTH_OPEN == 0
CYW43_AUTH_WPA_TKIP_PSK == 2097154            \* 0x00200002
CYW43_AUTH_WPA2_MIXED_PSK == 4194310          \* 0x00400006
CYW43_AUTH_WPA3_WPA2_AES_PSK == 20971524      \* 0x01400004

scan_auth_mode_to_connect_auth_mode(mode) ==
    CASE mode = 0 -> CYW43_AUTH_OPEN
      [] mode = 3 -> CYW43_AUTH_WPA_TKIP_PSK
      [] mode = 5 -> CYW43_AUTH_WPA3_WPA2_AES_PSK
      [] mode = 7 -> CYW43_AUTH_WPA2_MIXED_PSK
      [] OTHER -> -1

connect_auth_mode_to_scan_auth_mode_swapped(mode) ==
    CASE mode = CYW43_AUTH_OPEN -> 0
      [] mode = CYW43_AUTH_WPA_TKIP_PSK -> 3
      [] mode = CYW43_AUTH_WPA3_WPA2_AES_PSK -> 7
      [] mode = CYW43_AUTH_WPA2_MIXED_PSK -> 5
      [] OTHER -> -1

connect_auth_mode_to_scan_auth_mode(mode) ==
    CASE mode = CYW43_AUTH_OPEN -> 0
      [] mode = CYW43_AUTH_WPA_TKIP_PSK -> 3
      [] mode = CYW43_AUTH_WPA3_WPA2_AES_PSK -> 5
      [] mode = CYW43_AUTH_WPA2_MIXED_PSK -> 7
      [] OTHER -> -1

(* settings_get_fn: the settings as the page gets them, without the        *)
(* password, and without the Ethernet fields when there is no chip.        *)
settings_get_fn(s) ==
    [conn |-> IF s.conn = "WIFI" THEN "WIFI" ELSE "ETHERNET", ssid |-> s.ssid,
     auth |-> connect_auth_mode_to_scan_auth_mode(s.auth), dhcp |-> s.dhcp,
     eth |-> IF eth.available THEN [is_available |-> TRUE, dhcp |-> s.eth_dhcp]
                              ELSE [is_available |-> FALSE],
     mqtt |-> s.mqtt, enabled |-> s.enabled, publish |-> s.publish]

AuthOptions == {0, 3, 5, 7}

(* The form as the page fills it in and posts it.  The Ethernet part stays *)
(* hidden and as it was built when there is no chip: Wi-Fi chosen, DHCP    *)
(* not ticked.  A list with no option chosen and a field that is disabled, *)
(* as the average is for what is not a number, are not posted: NULL.       *)
settings_populate(shown) ==
    [conn |-> IF shown.eth.is_available THEN shown.conn ELSE "WIFI", ssid |-> shown.ssid,
     auth |-> IF shown.auth \in AuthOptions THEN shown.auth ELSE NULL, dhcp |-> shown.dhcp,
     eth_dhcp |-> IF shown.eth.is_available THEN shown.eth.dhcp ELSE FALSE,
     mqtt |-> shown.mqtt, enabled |-> shown.enabled,
     publish |-> [is_num |-> shown.publish.is_num,
                  avg_cnt |-> IF shown.publish.is_num THEN shown.publish.avg_cnt ELSE NULL]]

(* For a field that was not posted atoi is given a null pointer.           *)
atoi(field) == IF field = NULL THEN AtZero ELSE field

(* settings_save_fn: the settings with the posted fields in their place.   *)
Posted(s, form) ==
    [conn |-> IF form.conn = "WIFI" THEN "WIFI" ELSE "ETHERNET", ssid |-> form.ssid,
     auth |-> scan_auth_mode_to_connect_auth_mode(atoi(form.auth)), dhcp |-> form.dhcp,
     eth_dhcp |-> form.eth_dhcp, mqtt |-> form.mqtt, enabled |-> form.enabled,
     publish |-> [is_num |-> form.publish.is_num, avg_cnt |-> atoi(form.publish.avg_cnt)],
     password |-> s.password]

(* In initial configuration any password is taken, an empty one too when   *)
(* there was one before; later it has to be the stored one.                *)
Accepted(s, p) ==
    IF initial_config THEN ~(p = "" /\ s.password.text = "") ELSE p = AsString(s.password)

(* What only a restart puts to use. *)
AtBoot(s) == [conn |-> s.conn, ssid |-> s.ssid, auth |-> s.auth, dhcp |-> s.dhcp,
              eth_dhcp |-> s.eth_dhcp, mqtt |-> s.mqtt, enabled |-> s.enabled]

needs_reboot_but_for_mqtt(old, new) ==
    [AtBoot(old) EXCEPT !.mqtt = 0] # [AtBoot(new) EXCEPT !.mqtt = 0]

needs_reboot(old, new) ==
    \/ old.conn # new.conn
    \/ <<old.ssid, old.auth, old.dhcp>> # <<new.ssid, new.auth, new.dhcp>>
    \/ old.eth_dhcp # new.eth_dhcp
    \/ old.mqtt # new.mqtt
    \/ old.enabled # new.enabled

-----------------------------------------------------------------------------
Idle == [pc |-> "idle", new |-> NULL, old |-> NULL, pw |-> ""]
Off == /\ main' = "off" /\ http' = Idle /\ wd' = NULL /\ feeding' = TRUE
       /\ wifi' = [joined |-> FALSE, ip |-> FALSE] /\ sensors' = <<>> /\ wifi_networks' = {}

Init ==
    /\ flash = Default
    /\ initial_config = FALSE
    /\ main = "off"
    /\ wifi = [joined |-> FALSE, ip |-> FALSE]
    /\ eth = [available |-> FALSE, network |-> FALSE]
    /\ sensors = <<>>
    /\ wifi_networks = {}
    /\ http = Idle
    /\ wd = NULL
    /\ feeding = TRUE
    /\ gh = [boot |-> Default, pw |-> "", saves |-> 0, cuts |-> 0, drops |-> 0, waiting |-> FALSE]

(* While the sector is written no task runs. *)
Running == main # "off" /\ http.pc # "program"

(* main, and main_task up to its first look at the settings: the jumper on *)
(* INITIAL_CONFIG_GPIO or the lack of a network name asks for initial      *)
(* configuration.  main_task gives up when the Wi-Fi chip does not answer, *)
(* and goes on when the ENC28J60 does not.                                 *)
Boot ==
    /\ main = "off"
    /\ \E jumper, available, network \in BOOLEAN :
         /\ initial_config' = (jumper \/ (flash.conn = "WIFI" /\ flash.ssid = ""))
         /\ eth' = [available |-> available, network |-> available /\ network]
    /\ main' \in {"network", "failed"}
    /\ gh' = [gh EXCEPT !.boot = flash, !.waiting = FALSE]
    /\ UNCHANGED <<flash, wifi, sensors, wifi_networks, http, wd, feeding>>

(* main_task: access point with DHCP and DNS servers, or a client. *)
StartNetwork ==
    /\ Running /\ main = "network"
    /\ main' = CASE initial_config -> "sensors"
                 [] ~initial_config /\ flash.conn = "WIFI" -> "join"
                 [] OTHER -> "ethernet"
    /\ UNCHANGED <<flash, initial_config, wifi, eth, sensors, wifi_networks, http, wd, feeding, gh>>

After(pc) == IF pc \in {"join", "waitip", "ethernet"} THEN "sensors" ELSE "loop"

(* wifi_connect: joined within the timeout or not.  At start-up a failure  *)
(* is left to the monitor, which tries until it succeeds.                  *)
wifi_connect ==
    /\ Running /\ main \in {"join", "rejoin"}
    /\ \/ /\ wifi' = [wifi EXCEPT !.joined = TRUE, !.ip = @ \/ ~flash.dhcp]
          /\ main' = IF ~flash.dhcp THEN After(main)
                     ELSE IF main = "join" THEN "waitip" ELSE "rewaitip"
       \/ /\ wifi' = [wifi EXCEPT !.joined = FALSE]
          /\ main' = IF main = "join" THEN "sensors" ELSE "rejoin"
    /\ UNCHANGED <<flash, initial_config, eth, sensors, wifi_networks, http, wd, feeding, gh>>

(* wifi_connect waits for an address, for ever if need be. *)
WaitForDhcp ==
    /\ Running /\ main \in {"waitip", "rewaitip"} /\ wifi.ip
    /\ main' = After(main)
    /\ UNCHANGED <<flash, initial_config, wifi, eth, sensors, wifi_networks, http, wd, feeding, gh>>

(* ethernet_connect: without DHCP there is nothing to wait for; the result *)
(* of enc28j60_driver_os_init is not looked at.                            *)
ethernet_connect ==
    /\ Running /\ main = "ethernet"
    /\ ~flash.eth_dhcp \/ eth.network
    /\ main' = "sensors"
    /\ UNCHANGED <<flash, initial_config, wifi, eth, sensors, wifi_networks, http, wd, feeding, gh>>

(* A serial port and a Sensor for every one that is enabled. *)
StartSensors ==
    /\ Running /\ main = "sensors"
    /\ main' = "loop"
    /\ sensors' = SelectSeq(<<1, 2, 3>>, LAMBDA i : flash.enabled[i])
    /\ UNCHANGED <<flash, initial_config, wifi, eth, wifi_networks, http, wd, feeding, gh>>

Monitor_by_address ==
    /\ Running /\ main = "loop"
    /\ ~initial_config /\ flash.conn = "WIFI" /\ ~wifi.ip
    /\ main' = "rejoin"
    /\ UNCHANGED <<flash, initial_config, wifi, eth, sensors, wifi_networks, http, wd, feeding, gh>>

(* The loop of main_task: a station that is no longer joined is joined     *)
(* again.                                                                  *)
Monitor ==
    /\ Running /\ main = "loop"
    /\ ~initial_config /\ flash.conn = "WIFI" /\ ~wifi.joined
    /\ main' = "rejoin"
    /\ UNCHANGED <<flash, initial_config, wifi, eth, sensors, wifi_networks, http, wd, feeding, gh>>

(* External: the DHCP server of the network, and the radio. *)
Dhcp ==
    /\ main # "off" /\ wifi.joined /\ ~wifi.ip
    /\ wifi' = [wifi EXCEPT !.ip = TRUE]
    /\ UNCHANGED <<flash, initial_config, main, eth, sensors, wifi_networks, http, wd, feeding, gh>>

LinkLost ==
    /\ wifi.joined /\ gh.drops < MaxDrops
    /\ wifi' = [wifi EXCEPT !.joined = FALSE]
    /\ gh' = [gh EXCEPT !.drops = @ + 1, !.waiting = @ \/ main \in {"waitip", "rewaitip"}]
    /\ UNCHANGED <<flash, initial_config, main, eth, sensors, wifi_networks, http, wd, feeding>>

wifi_scan_cb(result) ==
    wifi_networks' = IF Cardinality(wifi_networks) >= MAX_WIFI_NETWORKS THEN wifi_networks
                     ELSE wifi_networks \cup {result}

(* wifi_networks_scan, at start-up and from the page: results add up. *)
ScanResult ==
    /\ Running /\ main # "failed"
    /\ \E result \in Bssids \ wifi_networks : wifi_scan_cb(result)
    /\ UNCHANGED <<flash, initial_config, main, wifi, eth, sensors, http, wd, feeding, gh>>

-----------------------------------------------------------------------------
(* The POST handlers, in the lwIP thread. *)

Reachable == initial_config \/ (wifi.joined /\ wifi.ip) \/ (eth.network /\ flash.conn # "WIFI")
Asked == /\ Running /\ main # "failed" /\ http.pc = "idle" /\ Reachable
         /\ gh.saves < MaxSaves /\ gh' = [gh EXCEPT !.saves = @ + 1]

NewSettings_password_lost(s, form, p) ==
    [Posted(s, form) EXCEPT !.password = IF initial_config THEN Field(p) ELSE Field("")]

NewSettings(s, form, p) ==
    [Posted(s, form) EXCEPT !.password = IF initial_config THEN Field(p) ELSE s.password]

(* settings_save_fn.  A form that does not parse, or whose password is not *)
(* taken, changes nothing.                                                 *)
settings_save_fn ==
    /\ Asked
    /\ \E form \in Forms \cup {settings_populate(settings_get_fn(flash))},
          p \in Short \cup Long \cup {""} :
         http' = IF Accepted(flash, p)
                 THEN [pc |-> "erase", old |-> flash, new |-> NewSettings(flash, form, p), pw |-> p]
                 ELSE Idle
    /\ UNCHANGED <<flash, initial_config, main, wifi, eth, sensors, wifi_networks, wd, feeding>>

(* write_client_mode_settings, inside flash_safe_execute: erase, program.  *)
flash_range_erase ==
    /\ Running /\ http.pc = "erase"
    /\ http' = [http EXCEPT !.pc = "program"]
    /\ flash' = Erased
    /\ UNCHANGED <<initial_config, main, wifi, eth, sensors, wifi_networks, wd, feeding, gh>>

flash_range_program ==
    /\ main # "off" /\ http.pc = "program"
    /\ http' = [http EXCEPT !.pc = "decide"]
    /\ flash' = http.new
    /\ gh' = [gh EXCEPT !.pw = IF initial_config THEN http.pw ELSE @]
    /\ UNCHANGED <<initial_config, main, wifi, eth, sensors, wifi_networks, wd, feeding>>

watchdog_reboot ==
    /\ wd' = Second
    /\ http' = [http EXCEPT !.pc = "suspend"]

Decide ==
    /\ Running /\ http.pc = "decide"
    /\ IF needs_reboot(http.old, http.new) THEN watchdog_reboot
       ELSE http' = Idle /\ UNCHANGED wd
    /\ UNCHANGED <<flash, initial_config, main, wifi, eth, sensors, wifi_networks, feeding, gh>>

restart_fn ==
    /\ Asked
    /\ watchdog_reboot
    /\ UNCHANGED <<flash, initial_config, main, wifi, eth, sensors, wifi_networks, feeding>>

SuspendFeeder_omitted ==
    /\ Running /\ http.pc = "suspend"
    /\ http' = Idle
    /\ UNCHANGED <<flash, initial_config, main, wifi, eth, sensors, wifi_networks, wd, feeding, gh>>

(* vTaskSuspend(feedWdTask_handle) *)
SuspendFeeder ==
    /\ Running /\ http.pc = "suspend"
    /\ http' = Idle
    /\ feeding' = FALSE
    /\ UNCHANGED <<flash, initial_config, main, wifi, eth, sensors, wifi_networks, wd, gh>>

-----------------------------------------------------------------------------
(* The watchdog: off until a restart is asked for (main_task's own call of *)
(* watchdog_enable is commented out), and fed all the same.                *)

feedWatchdogTask ==
    /\ Running /\ feeding /\ wd # NULL
    /\ wd' = Second
    /\ UNCHANGED <<flash, initial_config, main, wifi, eth, sensors, wifi_networks, http, feeding, gh>>

Tick ==
    /\ wd # NULL /\ wd > 0
    /\ wd' = wd - 1
    /\ UNCHANGED <<flash, initial_config, main, wifi, eth, sensors, wifi_networks, http, feeding, gh>>

WatchdogFires ==
    /\ wd # NULL /\ wd = 0
    /\ Off
    /\ UNCHANGED <<flash, initial_config, eth, gh>>

PowerCut ==
    /\ main # "off" /\ gh.cuts < MaxCuts
    /\ gh' = [gh EXCEPT !.cuts = @ + 1]
    /\ Off
    /\ UNCHANGED <<flash, initial_config, eth>>

-----------------------------------------------------------------------------
MainTask == StartNetwork \/ wifi_connect \/ WaitForDhcp \/ ethernet_connect \/ StartSensors \/ Monitor
Handler == flash_range_erase \/ flash_range_program \/ Decide \/ SuspendFeeder

Next ==
    \/ Boot \/ MainTask \/ Dhcp \/ LinkLost \/ ScanResult
    \/ settings_save_fn \/ restart_fn \/ Handler
    \/ feedWatchdogTask \/ Tick \/ WatchdogFires \/ PowerCut

(* The tasks run, time passes, power comes back; the network is there when *)
(* it is asked often enough, and its DHCP server answers.                  *)
Spec ==
    /\ Init /\ [][Next]_vars
    /\ WF_vars(Boot) /\ WF_vars(MainTask) /\ WF_vars(Handler)
    /\ WF_vars(Tick) /\ WF_vars(WatchdogFires) /\ WF_vars(Dhcp)
    /\ SF_vars(wifi_connect /\ wifi'.joined)

-----------------------------------------------------------------------------
Passwords == Short \cup Long \cup {""}

(* Every variable has its type, and the list of networks stays within its  *)
(* etl::set however often the page asks for a scan.                        *)
TypeOK ==
    /\ flash.password.text \in Passwords \cup {NULL} /\ initial_config \in BOOLEAN
    /\ main \in {"off", "failed", "network", "join", "waitip", "ethernet", "sensors", "loop",
                  "rejoin", "rewaitip"}
    /\ wifi \in [joined : BOOLEAN, ip : BOOLEAN] /\ feeding \in BOOLEAN
    /\ eth \in [available : BOOLEAN, network : BOOLEAN]
    /\ sensors \in {<<>>} \cup UNION {[1..n -> 1..3] : n \in 1..3}
    /\ Cardinality(wifi_networks) <= MAX_WIFI_NETWORKS
    /\ http.pc \in {"idle", "erase", "program", "decide", "suspend"}
    /\ wd \in {NULL} \cup 0..Second

(* What the tasks were started with is what the flash holds: whatever      *)
(* sequence of saves, no setting that only a start puts to use is changed  *)
(* without a restart on its way.                                           *)
RunningAsSaved ==
    main \notin {"off", "failed"} /\ wd = NULL /\ http.pc = "idle" => AtBoot(flash) = AtBoot(gh.boot)

(* Through saves, restarts and power cuts the password stays the one last  *)
(* set in initial configuration.  (One of eight characters or more fills   *)
(* its field and is never again equal to what is posted.)                  *)
PasswordKept ==
    flash # Erased /\ gh.pw \notin Long => AsString(flash.password) = gh.pw

(* The settings without what the page does not show.  When there is no     *)
(* chip the connection is Wi-Fi and the Ethernet's DHCP flag is cleared;   *)
(* what atoi finds at address 0 takes the place of an unknown mode, and of *)
(* the average of what is not a number.                                    *)
WithoutHidden(s) ==
    [conn     |-> IF eth.available THEN s.conn ELSE "WIFI",
     ssid     |-> s.ssid,
     auth     |-> IF s.auth # -1 THEN s.auth ELSE scan_auth_mode_to_connect_auth_mode(AtZero),
     dhcp     |-> s.dhcp,
     eth_dhcp |-> IF eth.available THEN s.eth_dhcp ELSE FALSE,
     mqtt     |-> s.mqtt,
     enabled  |-> s.enabled,
     publish  |-> [is_num  |-> s.publish.is_num,
                   avg_cnt |-> IF s.publish.is_num THEN s.publish.avg_cnt ELSE AtZero],
     password |-> s.password]

(* Saving the page as it is filled in changes nothing that it shows; in    *)
(* particular the two conversions of the authentication mode undo each     *)
(* other for every mode that the page knows.  Only what it does not show   *)
(* is lost (settings.h:127, post.cpp:86, :94, :100, :128), and with an     *)
(* ENC28J60 and a known mode the device is not restarted for nothing.      *)
ResaveKeepsWhatIsShown ==
    flash # Erased =>
        LET new == Posted(flash, settings_populate(settings_get_fn(flash)))
        IN  /\ new = WithoutHidden(flash)
            /\ eth.available /\ flash.auth # -1 => ~needs_reboot(flash, new)

(* A restart that was announced comes, although the watchdog is fed.       *)
RestartFollows == wd # NULL ~> main = "off"

(* A station that lost its network joins one again, unless it was waiting  *)
(* for an address at that moment.                                          *)
Reconnects ==
    (main = "loop" /\ ~initial_config /\ flash.conn = "WIFI" /\ ~wifi.joined)
        ~> (wifi.joined \/ main = "off" \/ gh.waiting)
=============================================================================
