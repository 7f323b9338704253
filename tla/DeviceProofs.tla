---------------------------- MODULE DeviceProofs ----------------------------
(***************************************************************************)
(* Proofs about Device, for any contents of the settings page, any         *)
(* passwords, and any number of saves, restarts, power cuts and lost links.*)
(***************************************************************************)
EXTENDS Device, FiniteSetTheorems, TLAPS

(* Settings as settings_save_fn leaves them: all fields, with values that  *)
(* its conversions yield.                                                  *)
Modes == {CYW43_AUTH_OPEN, CYW43_AUTH_WPA_TKIP_PSK, CYW43_AUTH_WPA2_MIXED_PSK,
          CYW43_AUTH_WPA3_WPA2_AES_PSK, -1}

Saved(s) ==
    /\ s = [conn |-> s.conn, ssid |-> s.ssid, auth |-> s.auth, dhcp |-> s.dhcp,
            eth_dhcp |-> s.eth_dhcp, mqtt |-> s.mqtt, enabled |-> s.enabled,
            publish |-> s.publish, password |-> s.password]
    /\ s.publish = [is_num |-> s.publish.is_num, avg_cnt |-> s.publish.avg_cnt]
    /\ s.publish.avg_cnt # NULL
    /\ s.conn \in {"WIFI", "ETHERNET"}
    /\ s.auth \in Modes

PCs == {"idle", "erase", "program", "decide", "suspend"}
Writing == http.pc \in {"erase", "program", "decide"}

(* A device that is off has nothing under way; a handler that has set the  *)
(* watchdog has set it.                                                    *)
Phases ==
    /\ http \in [pc : PCs, new : {http.new}, old : {http.old}, pw : {http.pw}]
    /\ main = "off" => http = Idle /\ wd = NULL
    /\ http.pc = "suspend" => wd # NULL
    /\ wd \in {NULL} \cup Nat

(* The flash is erased or holds settings that were saved, with the         *)
(* password last set; so will what is being written.                       *)
Contents ==
    /\ gh = [boot |-> gh.boot, pw |-> gh.pw, saves |-> gh.saves, cuts |-> gh.cuts,
             drops |-> gh.drops, waiting |-> gh.waiting]
    /\ gh.pw \in Passwords
    /\ flash # Erased => Saved(flash) /\ flash.password = Field(gh.pw)
    /\ Writing => /\ Saved(http.new) /\ http.pw \in Passwords
                  /\ initial_config => http.new.password = Field(http.pw)
                  /\ ~initial_config => http.new.password = Field(gh.pw)

(* Which settings the tasks were started with, while a save is under way.  *)
Started ==
    main \notin {"off", "failed"} /\ wd = NULL =>
        /\ http.pc = "idle" => AtBoot(flash) = AtBoot(gh.boot)
        /\ Writing => AtBoot(http.old) = AtBoot(gh.boot)
        /\ http.pc = "erase" => flash = http.old
        /\ http.pc = "decide" => flash = http.new

IInv == Phases /\ Contents /\ Started

-----------------------------------------------------------------------------
(* Erased settings are none that a save leaves: they name no connection.   *)
LEMMA SavedIsNotErased == ASSUME NEW s, Saved(s) PROVE s # Erased
<1>1. Erased.conn = "ones"
  BY DEF Erased
<1> QED BY <1>1 DEF Saved

(* The two conversions of the authentication mode: the first yields one of *)
(* Modes, and the second leads back from each of them.                     *)
LEMMA ModesUndone ==
    /\ \A mode : scan_auth_mode_to_connect_auth_mode(mode) \in Modes
    /\ \A mode \in Modes : scan_auth_mode_to_connect_auth_mode(
                               connect_auth_mode_to_scan_auth_mode(mode)) = mode
<1> USE DEF Modes, scan_auth_mode_to_connect_auth_mode, connect_auth_mode_to_scan_auth_mode,
            CYW43_AUTH_OPEN, CYW43_AUTH_WPA_TKIP_PSK, CYW43_AUTH_WPA2_MIXED_PSK,
            CYW43_AUTH_WPA3_WPA2_AES_PSK
<1>1. ASSUME NEW mode PROVE scan_auth_mode_to_connect_auth_mode(mode) \in Modes
  OBVIOUS
<1>2. ASSUME NEW mode \in Modes
      PROVE  scan_auth_mode_to_connect_auth_mode(connect_auth_mode_to_scan_auth_mode(mode)) = mode
  OBVIOUS
<1> QED BY <1>1, <1>2

LEMMA NullIsNoNumber == \A n \in Nat : n # NULL
BY DeviceAssumption

(* Every field has a value after atoi, posted or not. *)
LEMMA AtoiYields == \A field : atoi(field) # NULL /\ (field # NULL => atoi(field) = field)
BY DeviceAssumption DEF atoi

(* What settings_save_fn is about to write. *)
LEMMA NewIsSaved ==
    ASSUME NEW s, NEW form, NEW p
    PROVE  /\ Saved(NewSettings(s, form, p))
           /\ NewSettings(s, form, p).password = IF initial_config THEN Field(p) ELSE s.password
<1> DEFINE n == Posted(s, form)
           w == IF initial_config THEN Field(p) ELSE s.password
<1>1. /\ n = [conn |-> n.conn, ssid |-> n.ssid, auth |-> n.auth, dhcp |-> n.dhcp,
              eth_dhcp |-> n.eth_dhcp, mqtt |-> n.mqtt, enabled |-> n.enabled,
              publish |-> n.publish, password |-> n.password]
      /\ n.conn \in {"WIFI", "ETHERNET"} /\ n.auth \in Modes
      /\ n.publish = [is_num |-> n.publish.is_num, avg_cnt |-> n.publish.avg_cnt]
      /\ n.publish.avg_cnt # NULL
  BY ModesUndone, AtoiYields DEF Posted
<1>2. NewSettings(s, form, p) = [n EXCEPT !.password = w]
  BY DEF NewSettings
<1> HIDE DEF n, w
<1>3. NewSettings(s, form, p) =
        [conn |-> n.conn, ssid |-> n.ssid, auth |-> n.auth, dhcp |-> n.dhcp,
         eth_dhcp |-> n.eth_dhcp, mqtt |-> n.mqtt, enabled |-> n.enabled,
         publish |-> n.publish, password |-> w]
  BY <1>1, <1>2
<1> QED BY <1>1, <1>3 DEF Saved, w

LEMMA DefaultIsSaved == Saved(Default) /\ Default.password = Field("")
<1>1. 180 # NULL
  BY NullIsNoNumber
<1> QED BY <1>1 DEF Default, Saved, Modes, CYW43_AUTH_OPEN

LEMMA InitIInv == Init => IInv
<1> SUFFICES ASSUME Init PROVE IInv
  OBVIOUS
<1>1. Phases
  BY DEF Init, Phases, Idle, PCs
<1>2. Contents
  BY DefaultIsSaved DEF Init, Contents, Idle, Writing, Passwords
<1>3. Started
  BY DEF Init, Started
<1> QED BY <1>1, <1>2, <1>3 DEF IInv

-----------------------------------------------------------------------------
(* Steps that write no settings: those of the main task, the network and   *)
(* the watchdog task while the device is on.                               *)
LEMMA QuietStep ==
    ASSUME IInv, UNCHANGED <<flash, initial_config, http>>,
           main \in {"off", "failed"} => main' = main,
           main # "off" => main' # "off",
           wd' = wd \/ (wd # NULL /\ wd' \in Nat),
           gh'.boot = gh.boot, gh'.pw = gh.pw,
           gh' = [boot |-> gh'.boot, pw |-> gh'.pw, saves |-> gh'.saves, cuts |-> gh'.cuts,
                  drops |-> gh'.drops, waiting |-> gh'.waiting]
    PROVE  IInv'
<1>1. Phases'
  BY DeviceAssumption DEF IInv, Phases
<1>2. Contents'
  BY DEF IInv, Contents, Writing
<1>3. Started'
  BY DeviceAssumption DEF IInv, Started, Writing
<1> QED BY <1>1, <1>2, <1>3 DEF IInv

LEMMA MainTaskStep == IInv /\ (MainTask \/ Dhcp \/ ScanResult) => IInv'
<1> SUFFICES ASSUME IInv, MainTask \/ Dhcp \/ ScanResult PROVE IInv'
  OBVIOUS
<1>1. UNCHANGED <<flash, initial_config, http, wd, gh>>
  BY DEF MainTask, StartNetwork, wifi_connect, WaitForDhcp, ethernet_connect, StartSensors, Monitor,
         Dhcp, ScanResult
<1>2. main \in {"off", "failed"} => main' = main
  BY DEF MainTask, StartNetwork, wifi_connect, WaitForDhcp, ethernet_connect, StartSensors, Monitor,
         Dhcp, ScanResult
<1>3. main # "off" => main' # "off"
  <2>1. CASE StartNetwork
    <3>1. main' \in {"sensors", "join", "ethernet"}
      BY <2>1 DEF StartNetwork
    <3> QED BY <3>1
  <2>2. CASE MainTask \/ Dhcp \/ ScanResult
    BY <2>1, <2>2 DEF MainTask, wifi_connect, WaitForDhcp, ethernet_connect, StartSensors, Monitor,
                      Dhcp, ScanResult, After
  <2> QED BY <2>2
<1>4. gh = [boot |-> gh.boot, pw |-> gh.pw, saves |-> gh.saves, cuts |-> gh.cuts,
            drops |-> gh.drops, waiting |-> gh.waiting]
  BY DEF IInv, Contents
<1> QED BY <1>1, <1>2, <1>3, <1>4, QuietStep

LEMMA LinkLostStep == IInv /\ LinkLost => IInv'
<1> SUFFICES ASSUME IInv, LinkLost PROVE IInv'
  OBVIOUS
<1>1. gh = [boot |-> gh.boot, pw |-> gh.pw, saves |-> gh.saves, cuts |-> gh.cuts,
            drops |-> gh.drops, waiting |-> gh.waiting]
  BY DEF IInv, Contents
<1>2. gh' = [boot |-> gh.boot, pw |-> gh.pw, saves |-> gh.saves, cuts |-> gh.cuts,
             drops |-> gh.drops + 1,
             waiting |-> gh.waiting \/ main \in {"waitip", "rewaitip"}]
  BY <1>1 DEF LinkLost
<1>3. UNCHANGED <<flash, initial_config, main, http, wd>>
  BY DEF LinkLost
<1> QED BY <1>2, <1>3, QuietStep

LEMMA FeedStep == IInv /\ (feedWatchdogTask \/ Tick) => IInv'
<1> SUFFICES ASSUME IInv, feedWatchdogTask \/ Tick PROVE IInv'
  OBVIOUS
<1>1. UNCHANGED <<flash, initial_config, main, http, gh>>
  BY DEF feedWatchdogTask, Tick
<1>2. wd # NULL /\ wd' \in Nat
  <2>1. wd # NULL
    BY DEF feedWatchdogTask, Tick
  <2>2. wd \in Nat
    BY <2>1 DEF IInv, Phases
  <2>3. CASE feedWatchdogTask
    BY <2>1, <2>3, DeviceAssumption DEF feedWatchdogTask
  <2>4. CASE Tick
    BY <2>1, <2>2, <2>4 DEF Tick
  <2> QED BY <2>3, <2>4
<1>3. gh = [boot |-> gh.boot, pw |-> gh.pw, saves |-> gh.saves, cuts |-> gh.cuts,
            drops |-> gh.drops, waiting |-> gh.waiting]
  BY DEF IInv, Contents
<1> QED BY <1>1, <1>2, <1>3, QuietStep

(* A start takes the settings as they are. *)
LEMMA BootStep == IInv /\ Boot => IInv'
<1> SUFFICES ASSUME IInv, Boot PROVE IInv'
  OBVIOUS
<1>1. http = Idle /\ wd = NULL /\ UNCHANGED <<flash, http, wd>> /\ main' # "off"
  BY DEF IInv, Phases, Boot
<1>2. gh' = [boot |-> flash, pw |-> gh.pw, saves |-> gh.saves, cuts |-> gh.cuts,
             drops |-> gh.drops, waiting |-> FALSE]
  BY DEF IInv, Contents, Boot
<1>3. Phases'
  BY <1>1 DEF IInv, Phases
<1>4. Contents'
  BY <1>1, <1>2 DEF IInv, Contents, Writing, Idle
<1>5. Started'
  BY <1>1, <1>2 DEF Started, Writing, Idle
<1> QED BY <1>3, <1>4, <1>5 DEF IInv

(* Power goes: the flash stays as it is, erased perhaps. *)
LEMMA OffStep == IInv /\ (WatchdogFires \/ PowerCut) => IInv'
<1> SUFFICES ASSUME IInv, WatchdogFires \/ PowerCut PROVE IInv'
  OBVIOUS
<1>1. http' = Idle /\ wd' = NULL /\ main' = "off" /\ UNCHANGED <<flash, initial_config>>
  BY DEF WatchdogFires, PowerCut, Off
<1>2. gh'.pw = gh.pw /\ gh' = [boot |-> gh'.boot, pw |-> gh'.pw, saves |-> gh'.saves,
                               cuts |-> gh'.cuts, drops |-> gh'.drops, waiting |-> gh'.waiting]
  <2>1. CASE WatchdogFires
    BY <2>1 DEF WatchdogFires, IInv, Contents
  <2>2. CASE PowerCut
    <3>1. gh = [boot |-> gh.boot, pw |-> gh.pw, saves |-> gh.saves, cuts |-> gh.cuts,
                drops |-> gh.drops, waiting |-> gh.waiting]
      BY DEF IInv, Contents
    <3>2. gh' = [boot |-> gh.boot, pw |-> gh.pw, saves |-> gh.saves, cuts |-> gh.cuts + 1,
                 drops |-> gh.drops, waiting |-> gh.waiting]
      BY <2>2, <3>1 DEF PowerCut
    <3> QED BY <3>2
  <2> QED BY <2>1, <2>2
<1>3. Phases'
  BY <1>1 DEF Phases, Idle, PCs
<1>4. Contents'
  BY <1>1, <1>2 DEF IInv, Contents, Writing, Idle
<1>5. Started'
  BY <1>1 DEF Started
<1> QED BY <1>3, <1>4, <1>5 DEF IInv

-----------------------------------------------------------------------------
(* The handlers. *)

LEMMA Asking ==
    ASSUME IInv, Asked
    PROVE  /\ main \notin {"off", "failed"} /\ http.pc = "idle"
           /\ gh' = [boot |-> gh.boot, pw |-> gh.pw, saves |-> gh.saves + 1, cuts |-> gh.cuts,
                     drops |-> gh.drops, waiting |-> gh.waiting]
<1>1. gh = [boot |-> gh.boot, pw |-> gh.pw, saves |-> gh.saves, cuts |-> gh.cuts,
            drops |-> gh.drops, waiting |-> gh.waiting]
  BY DEF IInv, Contents
<1>2. gh' = [boot |-> gh.boot, pw |-> gh.pw, saves |-> gh.saves + 1, cuts |-> gh.cuts,
             drops |-> gh.drops, waiting |-> gh.waiting]
  BY <1>1 DEF Asked
<1> QED BY <1>2 DEF Asked, Running

(* A password other than the stored one is only taken in initial           *)
(* configuration; erased settings, and a password that fills its field,    *)
(* have none that could be posted.                                         *)
LEMMA SaveStep == IInv /\ settings_save_fn => IInv'
<1> SUFFICES ASSUME IInv, settings_save_fn PROVE IInv'
  OBVIOUS
<1>1. PICK form \in Forms \cup {settings_populate(settings_get_fn(flash))}, p \in Passwords :
        http' = IF Accepted(flash, p)
                THEN [pc |-> "erase", old |-> flash, new |-> NewSettings(flash, form, p), pw |-> p]
                ELSE Idle
  BY DEF settings_save_fn, Passwords
<1>2. UNCHANGED <<flash, initial_config, main, wd>> /\ Asked
  BY DEF settings_save_fn
<1>3. /\ main \notin {"off", "failed"} /\ http.pc = "idle"
      /\ gh' = [boot |-> gh.boot, pw |-> gh.pw, saves |-> gh.saves + 1, cuts |-> gh.cuts,
                drops |-> gh.drops, waiting |-> gh.waiting]
  BY <1>2, Asking
<1>4. wd = NULL => AtBoot(flash) = AtBoot(gh.boot)
  BY <1>3 DEF IInv, Started
<1>5. CASE Accepted(flash, p)
  <2>1. http' = [pc |-> "erase", old |-> flash, new |-> NewSettings(flash, form, p), pw |-> p]
    BY <1>1, <1>5
  <2>2. Phases'
    BY <1>2, <1>3, <2>1 DEF IInv, Phases, PCs
  <2>3. ~initial_config => flash.password = Field(gh.pw)
    <3>1. ~initial_config => flash # Erased
      <4>1. AsString(Erased.password) = NULL
        BY DEF Erased, AsString
      <4> QED BY <1>5, <4>1, DeviceAssumption DEF Accepted, Passwords
    <3> QED BY <3>1 DEF IInv, Contents
  <2>4. Contents'
    <3>1. Saved(http'.new) /\ http'.pw = p
      BY <2>1, NewIsSaved
    <3>2. http'.new.password = IF initial_config THEN Field(p) ELSE flash.password
      BY <2>1, NewIsSaved
    <3> QED BY <1>2, <1>3, <2>3, <3>1, <3>2 DEF IInv, Contents
  <2>5. Started'
    BY <1>2, <1>3, <1>4, <2>1 DEF Started
  <2> QED BY <2>2, <2>4, <2>5 DEF IInv
<1>6. CASE ~Accepted(flash, p)
  <2>1. http' = Idle
    BY <1>1, <1>6
  <2>2. Phases'
    BY <1>2, <1>3, <2>1 DEF IInv, Phases, PCs, Idle
  <2>3. Contents'
    BY <1>2, <1>3, <2>1 DEF IInv, Contents, Writing, Idle
  <2>4. Started'
    BY <1>2, <1>3, <1>4, <2>1 DEF Started, Writing, Idle
  <2> QED BY <2>2, <2>3, <2>4 DEF IInv
<1> QED BY <1>5, <1>6

LEMMA RestartStep == IInv /\ restart_fn => IInv'
<1> SUFFICES ASSUME IInv, restart_fn PROVE IInv'
  OBVIOUS
<1>1. UNCHANGED <<flash, initial_config, main>> /\ Asked /\ wd' = Second
  BY DEF restart_fn, watchdog_reboot
<1>2. http' = [pc |-> "suspend", new |-> http.new, old |-> http.old, pw |-> http.pw]
  BY DEF restart_fn, watchdog_reboot, IInv, Phases
<1>3. /\ main \notin {"off", "failed"} /\ http.pc = "idle"
      /\ gh' = [boot |-> gh.boot, pw |-> gh.pw, saves |-> gh.saves + 1, cuts |-> gh.cuts,
                drops |-> gh.drops, waiting |-> gh.waiting]
  BY <1>1, Asking
<1>4. Second \in Nat /\ NULL \notin Nat
  BY DeviceAssumption
<1>5. Phases'
  BY <1>1, <1>2, <1>3, <1>4 DEF Phases, PCs
<1>6. Contents'
  BY <1>1, <1>2, <1>3 DEF IInv, Contents, Writing
<1>7. Started'
  BY <1>1, <1>4 DEF Started
<1> QED BY <1>5, <1>6, <1>7 DEF IInv

LEMMA EraseStep == IInv /\ flash_range_erase => IInv'
<1> SUFFICES ASSUME IInv, flash_range_erase PROVE IInv'
  OBVIOUS
<1>1. /\ http.pc = "erase" /\ main # "off" /\ flash' = Erased
      /\ UNCHANGED <<initial_config, main, wd, gh>>
  BY DEF flash_range_erase, Running
<1>2. http' = [pc |-> "program", new |-> http.new, old |-> http.old, pw |-> http.pw]
  BY DEF flash_range_erase, IInv, Phases
<1>3. Phases'
  BY <1>1, <1>2 DEF IInv, Phases, PCs
<1>4. Contents'
  BY <1>1, <1>2 DEF IInv, Contents, Writing
<1>5. Started'
  BY <1>1, <1>2 DEF IInv, Started, Writing
<1> QED BY <1>3, <1>4, <1>5 DEF IInv

(* The flash is as it should be from the moment it is programmed. *)
LEMMA ProgramStep == IInv /\ flash_range_program => IInv'
<1> SUFFICES ASSUME IInv, flash_range_program PROVE IInv'
  OBVIOUS
<1>1. /\ http.pc = "program" /\ main # "off" /\ flash' = http.new
      /\ UNCHANGED <<initial_config, main, wd>>
  BY DEF flash_range_program
<1>2. http' = [pc |-> "decide", new |-> http.new, old |-> http.old, pw |-> http.pw]
  BY DEF flash_range_program, IInv, Phases
<1>3. gh' = [boot |-> gh.boot, pw |-> IF initial_config THEN http.pw ELSE gh.pw,
             saves |-> gh.saves, cuts |-> gh.cuts, drops |-> gh.drops, waiting |-> gh.waiting]
  <2>1. gh = [boot |-> gh.boot, pw |-> gh.pw, saves |-> gh.saves, cuts |-> gh.cuts,
              drops |-> gh.drops, waiting |-> gh.waiting]
    BY DEF IInv, Contents
  <2> QED BY <2>1 DEF flash_range_program
<1>4. Phases'
  BY <1>1, <1>2 DEF IInv, Phases, PCs
<1>5. Contents'
  <2>1. /\ Saved(http.new) /\ http.pw \in Passwords /\ gh.pw \in Passwords
        /\ initial_config => http.new.password = Field(http.pw)
        /\ ~initial_config => http.new.password = Field(gh.pw)
    BY <1>1 DEF IInv, Contents, Writing
  <2> QED BY <1>1, <1>2, <1>3, <2>1 DEF Contents
<1>6. Started'
  BY <1>1, <1>2, <1>3 DEF IInv, Started, Writing
<1> QED BY <1>4, <1>5, <1>6 DEF IInv

(* needs_reboot compares everything that a start puts to use. *)
LEMMA DecideStep == IInv /\ Decide => IInv'
<1> SUFFICES ASSUME IInv, Decide PROVE IInv'
  OBVIOUS
<1>1. http.pc = "decide" /\ main # "off" /\ UNCHANGED <<flash, initial_config, main, gh>>
  BY DEF Decide, Running
<1>2. CASE needs_reboot(http.old, http.new)
  <2>1. wd' = Second /\ Second \in Nat /\ NULL \notin Nat
    BY <1>2, DeviceAssumption DEF Decide, watchdog_reboot
  <2>2. http' = [pc |-> "suspend", new |-> http.new, old |-> http.old, pw |-> http.pw]
    BY <1>2 DEF Decide, watchdog_reboot, IInv, Phases
  <2>3. Phases'
    BY <1>1, <2>1, <2>2 DEF Phases, PCs
  <2>4. Contents'
    BY <1>1, <2>2 DEF IInv, Contents, Writing
  <2>5. Started'
    BY <2>1 DEF Started
  <2> QED BY <2>3, <2>4, <2>5 DEF IInv
<1>3. CASE ~needs_reboot(http.old, http.new)
  <2>1. http' = Idle /\ UNCHANGED wd
    BY <1>3 DEF Decide
  <2>2. Phases'
    BY <1>1, <2>1 DEF IInv, Phases, PCs, Idle
  <2>3. Contents'
    BY <1>1, <2>1 DEF IInv, Contents, Writing, Idle
  <2>4. AtBoot(http.old) = AtBoot(http.new)
    BY <1>3 DEF needs_reboot, AtBoot
  <2>5. Started'
    BY <1>1, <2>1, <2>4 DEF IInv, Started, Writing, Idle
  <2> QED BY <2>2, <2>3, <2>5 DEF IInv
<1> QED BY <1>2, <1>3

LEMMA SuspendStep == IInv /\ SuspendFeeder => IInv'
<1> SUFFICES ASSUME IInv, SuspendFeeder PROVE IInv'
  OBVIOUS
<1>1. /\ http.pc = "suspend" /\ main # "off" /\ http' = Idle
      /\ UNCHANGED <<flash, initial_config, main, wd, gh>>
  BY DEF SuspendFeeder, Running
<1>2. wd # NULL
  BY <1>1 DEF IInv, Phases
<1>3. Phases'
  BY <1>1 DEF IInv, Phases, PCs, Idle
<1>4. Contents'
  BY <1>1 DEF IInv, Contents, Writing, Idle
<1>5. Started'
  BY <1>1, <1>2 DEF Started
<1> QED BY <1>3, <1>4, <1>5 DEF IInv

-----------------------------------------------------------------------------
(* The inductive invariant: what is in the flash, what is on its way into  *)
(* it and what the device was started with, between any two steps of the   *)
(* POST handlers (post.cpp), the flash write (settings.cpp) and a restart. *)
THEOREM Invariance == Spec => []IInv
<1>1. IInv /\ UNCHANGED vars => IInv'
  BY DEF vars, IInv, Phases, Contents, Started, Writing
<1>2. IInv /\ [Next]_vars => IInv'
  BY <1>1, MainTaskStep, LinkLostStep, FeedStep, BootStep, OffStep, SaveStep, RestartStep,
     EraseStep, ProgramStep, DecideStep, SuspendStep DEF Next, Handler
<1> QED BY InitIInv, <1>2, PTL DEF Spec

(* What the tasks were started with is what the flash holds, whatever is   *)
(* saved and however often (settings_save_fn, needs_reboot).               *)
THEOREM RunsAsSaved == Spec => []RunningAsSaved
<1>1. IInv => RunningAsSaved
  BY DEF IInv, Started, RunningAsSaved
<1> QED BY <1>1, Invariance, PTL

(* The password in the flash is the one last set in initial configuration, *)
(* through any saves, restarts and power cuts during a write.              *)
THEOREM PasswordStays == Spec => []PasswordKept
<1>1. ASSUME NEW p, p \notin Long PROVE AsString(Field(p)) = p
  <2>1. Field(p).text = p /\ Field(p).ended = (p \notin Long)
    BY DEF Field
  <2>2. Field(p).ended
    BY <1>1, <2>1, Zenon
  <2> QED BY <2>1, <2>2 DEF AsString
<1>2. IInv => PasswordKept
  BY <1>1 DEF IInv, Contents, PasswordKept
<1> QED BY <1>2, Invariance, PTL

(* Saving the page as settings_populate filled it in changes nothing that  *)
(* it shows, and of the rest exactly what ResaveKeepsWhatIsShown says, for *)
(* all settings that can be in the flash and whatever is at address 0.     *)
THEOREM ResaveIsHarmless == Spec => []ResaveKeepsWhatIsShown
<1>1. ASSUME NEW s, Saved(s)
      PROVE  Posted(s, settings_populate(settings_get_fn(s))) = WithoutHidden(s)
  <2> DEFINE g == settings_get_fn(s)
             f == settings_populate(g)
  <2>1. /\ g.conn = s.conn /\ g.ssid = s.ssid /\ g.dhcp = s.dhcp /\ g.mqtt = s.mqtt
        /\ g.enabled = s.enabled /\ g.publish = s.publish
        /\ g.auth = connect_auth_mode_to_scan_auth_mode(s.auth)
        /\ g.eth = IF eth.available THEN [is_available |-> TRUE, dhcp |-> s.eth_dhcp]
                                    ELSE [is_available |-> FALSE]
    BY <1>1 DEF settings_get_fn, Saved
  <2> HIDE DEF g
  <2>2. /\ eth.available => g.eth.is_available /\ g.eth.dhcp = s.eth_dhcp
        /\ ~eth.available => ~g.eth.is_available
    BY <2>1
  <2>3. f = [conn |-> IF eth.available THEN s.conn ELSE "WIFI", ssid |-> s.ssid,
             auth |-> IF g.auth \in AuthOptions THEN g.auth ELSE NULL, dhcp |-> s.dhcp,
             eth_dhcp |-> IF eth.available THEN s.eth_dhcp ELSE FALSE,
             mqtt |-> s.mqtt, enabled |-> s.enabled,
             publish |-> [is_num |-> s.publish.is_num,
                          avg_cnt |-> IF s.publish.is_num THEN s.publish.avg_cnt ELSE NULL]]
    BY <2>1, <2>2 DEF settings_populate
  <2> HIDE DEF f
  <2>4. scan_auth_mode_to_connect_auth_mode(atoi(f.auth)) =
          IF s.auth # -1 THEN s.auth ELSE scan_auth_mode_to_connect_auth_mode(AtZero)
    <3>1. s.auth # -1 => g.auth \in AuthOptions
      BY <1>1, <2>1 DEF Saved, Modes, AuthOptions, connect_auth_mode_to_scan_auth_mode,
            CYW43_AUTH_OPEN, CYW43_AUTH_WPA_TKIP_PSK, CYW43_AUTH_WPA2_MIXED_PSK,
            CYW43_AUTH_WPA3_WPA2_AES_PSK
    <3>2. s.auth = -1 => g.auth \notin AuthOptions
      BY <2>1 DEF AuthOptions, connect_auth_mode_to_scan_auth_mode,
            CYW43_AUTH_OPEN, CYW43_AUTH_WPA_TKIP_PSK, CYW43_AUTH_WPA2_MIXED_PSK,
            CYW43_AUTH_WPA3_WPA2_AES_PSK
    <3>3. CASE s.auth # -1
      <4>1. f.auth = g.auth /\ g.auth # NULL
        BY <2>3, <3>1, <3>3, NullIsNoNumber DEF AuthOptions
      <4>2. atoi(f.auth) = connect_auth_mode_to_scan_auth_mode(s.auth)
        BY <2>1, <4>1, AtoiYields
      <4> QED BY <1>1, <3>3, <4>2, ModesUndone DEF Saved
    <3>4. CASE s.auth = -1
      BY <2>3, <3>2, <3>4 DEF atoi
    <3> QED BY <3>3, <3>4
  <2>5. atoi(f.publish.avg_cnt) = IF s.publish.is_num THEN s.publish.avg_cnt ELSE AtZero
    BY <1>1, <2>3 DEF atoi, Saved
  <2>6. (IF f.conn = "WIFI" THEN "WIFI" ELSE "ETHERNET") = IF eth.available THEN s.conn ELSE "WIFI"
    BY <1>1, <2>3 DEF Saved
  <2>7. Posted(s, f) = [conn |-> IF eth.available THEN s.conn ELSE "WIFI", ssid |-> f.ssid,
             auth |-> IF s.auth # -1 THEN s.auth ELSE scan_auth_mode_to_connect_auth_mode(AtZero),
             dhcp |-> f.dhcp, eth_dhcp |-> f.eth_dhcp, mqtt |-> f.mqtt, enabled |-> f.enabled,
             publish |-> [is_num |-> f.publish.is_num,
                          avg_cnt |-> IF s.publish.is_num THEN s.publish.avg_cnt ELSE AtZero],
             password |-> s.password]
    BY <2>4, <2>5, <2>6 DEF Posted
  <2>8. /\ f.ssid = s.ssid /\ f.dhcp = s.dhcp /\ f.mqtt = s.mqtt /\ f.enabled = s.enabled
        /\ f.eth_dhcp = IF eth.available THEN s.eth_dhcp ELSE FALSE
        /\ f.publish.is_num = s.publish.is_num
    BY <2>3
  <2> QED BY <2>7, <2>8 DEF f, g, WithoutHidden
<1>2. ASSUME NEW s, Saved(s), eth.available, s.auth # -1
      PROVE  ~needs_reboot(s, WithoutHidden(s))
  BY <1>2 DEF needs_reboot, WithoutHidden
<1>3. IInv => ResaveKeepsWhatIsShown
  BY <1>1, <1>2 DEF IInv, Contents, ResaveKeepsWhatIsShown
<1> QED BY <1>3, Invariance, PTL

(* The list of networks stays within its etl::set however often a scan is  *)
(* asked for and whatever it finds (wifi_scan_cb).                         *)
Listed == IsFiniteSet(wifi_networks) /\ Cardinality(wifi_networks) <= MAX_WIFI_NETWORKS

THEOREM ScanBounded == Spec => []Listed
<1>1. MAX_WIFI_NETWORKS \in Nat
  BY DeviceAssumption
<1>2. IsFiniteSet({}) /\ Cardinality({}) = 0
  BY FS_EmptySet
<1>3. Init => Listed
  <2>1. Init => wifi_networks = {}
    BY DEF Init
  <2> QED BY <1>1, <1>2, <2>1 DEF Listed
<1>4. Listed /\ [Next]_vars => Listed'
  <2> SUFFICES ASSUME Listed, [Next]_vars PROVE Listed'
    OBVIOUS
  <2>1. CASE wifi_networks' = wifi_networks
    BY <2>1 DEF Listed
  <2>2. CASE wifi_networks' = {}
    BY <1>1, <1>2, <2>2 DEF Listed
  <2>3. CASE ScanResult
    <3>1. PICK result \in Bssids \ wifi_networks : wifi_scan_cb(result)
      BY <2>3 DEF ScanResult
    <3>2. Cardinality(wifi_networks) \in Nat
      BY FS_CardinalityType DEF Listed
    <3>3. CASE Cardinality(wifi_networks) >= MAX_WIFI_NETWORKS
      BY <3>1, <3>3, <2>1 DEF wifi_scan_cb
    <3>4. CASE ~(Cardinality(wifi_networks) >= MAX_WIFI_NETWORKS)
      <4>1. wifi_networks' = wifi_networks \cup {result}
        BY <3>1, <3>4 DEF wifi_scan_cb
      <4>2. /\ IsFiniteSet(wifi_networks \cup {result})
            /\ Cardinality(wifi_networks \cup {result}) = Cardinality(wifi_networks) + 1
        BY <3>1, FS_AddElement DEF Listed
      <4>3. Cardinality(wifi_networks) + 1 <= MAX_WIFI_NETWORKS
        BY <1>1, <3>2, <3>4
      <4> QED BY <4>1, <4>2, <4>3 DEF Listed
    <3> QED BY <3>3, <3>4
  <2> QED BY <2>1, <2>2, <2>3 DEF Next, MainTask, Handler, Boot, StartNetwork, wifi_connect, WaitForDhcp,
        ethernet_connect, StartSensors, Monitor, Dhcp, LinkLost, settings_save_fn, restart_fn,
        flash_range_erase, flash_range_program, Decide, SuspendFeeder, feedWatchdogTask, Tick,
        WatchdogFires, PowerCut, Off, vars
<1> QED BY <1>3, <1>4, PTL DEF Spec
=============================================================================
