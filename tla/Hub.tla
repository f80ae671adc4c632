-------------------------------- MODULE Hub --------------------------------
(***************************************************************************)
(* The life of a hub from power-up to restart: app_main (main.c) loads the *)
(* configuration from flash (config_nvs.c), waits for the WiFi station     *)
(* (wifi.c), starts the web server (http_server.c) and then the packet     *)
(* forwarder (pkt_fwd.c), which configures the radio; any error waits ten  *)
(* seconds and restarts the chip. Beside it run the tasks of the WiFi      *)
(* events and of the web server, whose handlers change the configuration.  *)
(* Power may be lost at any point.                                         *)
(***************************************************************************)
EXTENDS ChannelConfig, Sequences

CONSTANTS
  Default,            \* lgw_nvs_config as compiled
  Posts,              \* the fields and values that users send to set_config
  MAXIMUM_RETRY,      \* CONFIG_WIFI_CONNECT_MAXIMUM_RETRY
  AUTOQUIT_THRESHOLD  \* autoquit_threshold

Keys == {"lns_addr", "lns_port", "chan_freq", "chan_dr", "chan_dr_2", "chan_bw", "sntp_addr"}

(* The order in which lgw_nvs_save_config writes the keys.                  *)
Order == <<"lns_addr", "lns_port", "chan_freq", "chan_dr", "chan_dr_2", "chan_bw",
           "sntp_addr">>

IsConfig(c) ==
  /\ c = [k \in Keys |-> c[k]]
  /\ \A k \in Keys : c[k] \in {Default[k]} \cup {p[k] : p \in {q \in Posts : k \in DOMAIN q}}

(* The default is a configuration that the web form would accept.           *)
ASSUME HubAssumption ==
  /\ IsConfig(Default)
  /\ \A k \in Keys : FieldAccepted(k, Default[k])
  /\ MAXIMUM_RETRY \in Nat /\ AUTOQUIT_THRESHOLD \in Nat

VARIABLES
  boot_pc,    \* app_main, then thread_pktfwd: where it is
  ram,        \* lgw_nvs_config
  flash,      \* the keys of the NVS partition; one never written reads as its default
  pending,    \* keys set since nvs_open that are not in flash before nvs_commit
  web_pc,     \* the task of the web server: idle, or where its handler is
  updated,    \* updated_config of set_config_post_handler
  saving,     \* number of keys that lgw_nvs_save_config has set
  conf,       \* rxrf_conf and rxif_conf of the HAL
  detectors,  \* main_detector_sf and side_detector_sf
  link,       \* WiFi station: idle, connecting, or up with an address
  retries,    \* wifi_connect_retry_num
  bits,       \* of wifi_event_group
  ap_up,      \* the access point answers
  acked       \* history: {} or the configuration that set_config last said was saved

bootVars == <<boot_pc, conf, detectors>>
webVars  == <<web_pc, updated, saving, pending>>
wifiVars == <<link, retries, bits>>
vars == <<bootVars, ram, flash, webVars, wifiVars, ap_up, acked>>

NoDetectors == [main |-> DR_UNDEFINED, side |-> DR_UNDEFINED]

Init ==
  /\ boot_pc = "load" /\ conf = Default /\ detectors = NoDetectors
  /\ ram = Default
  /\ flash = Default
  /\ web_pc = "down" /\ updated = Default /\ saving = 0 /\ pending = {}
  /\ link = "off" /\ retries = 0 /\ bits = {}
  /\ ap_up \in BOOLEAN
  /\ acked = {}

-----------------------------------------------------------------------------
(* app_main and thread_pktfwd                                              *)

(* lgw_nvs_load_config, then the station is started.                        *)
Load ==
  /\ boot_pc = "load"
  /\ ram' = flash
  /\ boot_pc' = "wifi"
  /\ link' = "connecting"
  /\ UNCHANGED <<conf, detectors, flash, webVars, retries, bits, ap_up, acked>>


AfterWifi == "http"

(* xEventGroupWaitBits, at the end of wifi_sta_init: the first bit set, the  *)
(* connection when both are.                                                *)
WifiReady ==
  /\ boot_pc = "wifi" /\ bits # {}
  /\ boot_pc' = IF "CONNECTED" \in bits THEN AfterWifi ELSE "error"
  /\ UNCHANGED <<conf, detectors, ram, flash, webVars, wifiVars, ap_up, acked>>

(* SNTP has its ten seconds, then http_server_init.                         *)
StartHttp ==
  /\ boot_pc = "http"
  /\ web_pc' = "idle"
  /\ boot_pc' = "radio"
  /\ UNCHANGED <<conf, detectors, ram, flash, updated, saving, pending, wifiVars, ap_up, acked>>

(* parse_radio_configuration reads the configuration field by field, while  *)
(* the web server may be copying another over it.                           *)
ParseRadio ==
  /\ boot_pc = "radio"
  /\ \E copied \in SUBSET Keys :
       /\ web_pc # "copy" => copied = {}
       /\ conf' = [k \in Keys |-> IF k \in copied THEN updated[k] ELSE ram[k]]
  /\ boot_pc' = "start"
  /\ UNCHANGED <<detectors, ram, flash, webVars, wifiVars, ap_up, acked>>

(* getaddrinfo fails when the server has no such name, or there is no link. *)
NoServer ==
  /\ boot_pc = "start"
  /\ boot_pc' = "error"
  /\ UNCHANGED <<conf, detectors, ram, flash, webVars, wifiVars, ap_up, acked>>

(* lgw_start configures the radio, or refuses the channel.                  *)
StartRadio ==
  /\ boot_pc = "start"
  /\ IF lgw_check_lora_mod_params(conf["chan_freq"], conf["chan_bw"])
     THEN /\ detectors' = Detectors(conf["chan_bw"], conf["chan_dr"], conf["chan_dr_2"])
          /\ boot_pc' = "running"
     ELSE boot_pc' = "error" /\ UNCHANGED detectors
  /\ UNCHANGED <<conf, ram, flash, webVars, wifiVars, ap_up, acked>>

AutoQuitEnabled_Never == FALSE

AutoQuitEnabled == AUTOQUIT_THRESHOLD > 0

(* thread_down gives up when its requests stay without answers (module      *)
(* PullProtocol): always so without a link, and when the server is silent.  *)
AutoQuit ==
  /\ boot_pc = "running" /\ AutoQuitEnabled
  /\ boot_pc' = "exit"
  /\ UNCHANGED <<conf, detectors, ram, flash, webVars, wifiVars, ap_up, acked>>

(* All that is in RAM is lost, and what nvs_commit had not written.         *)
Reset ==
  /\ boot_pc' = "load" /\ conf' = Default /\ detectors' = NoDetectors
  /\ ram' = Default
  /\ web_pc' = "down" /\ updated' = Default /\ saving' = 0 /\ pending' = {}
  /\ link' = "off" /\ retries' = 0 /\ bits' = {}
  /\ UNCHANGED <<flash, ap_up, acked>>

(* esp_restart: from wait_on_error, from app_main after exit_sig, and from  *)
(* the handler of reboot.                                                   *)
Restart ==
  /\ boot_pc \in {"error", "exit"} \/ web_pc = "reboot"
  /\ Reset

PowerLoss == Reset

Boot == Load \/ WifiReady \/ StartHttp \/ ParseRadio \/ NoServer \/ StartRadio \/ Restart

-----------------------------------------------------------------------------
(* The WiFi events                                                         *)

GotIp ==
  /\ link = "connecting" /\ ap_up
  /\ link' = "up"
  /\ retries' = 0
  /\ bits' = bits \cup {"CONNECTED"}
  /\ UNCHANGED <<bootVars, ram, flash, webVars, ap_up, acked>>

(* WIFI_EVENT_STA_DISCONNECTED: it tries again, or gives up for good.       *)
Disconnected ==
  /\ link \in {"connecting", "up"} /\ ~ap_up
  /\ IF retries < MAXIMUM_RETRY
     THEN link' = "connecting" /\ retries' = retries + 1 /\ UNCHANGED bits
     ELSE link' = "idle" /\ bits' = bits \cup {"FAIL"} /\ UNCHANGED retries
  /\ UNCHANGED <<bootVars, ram, flash, webVars, ap_up, acked>>

AccessPoint ==
  /\ ap_up' = ~ap_up
  /\ UNCHANGED <<bootVars, ram, flash, webVars, wifiVars, acked>>

-----------------------------------------------------------------------------
(* The web server: one task, one request at a time, when there is a link   *)

Reachable == web_pc = "idle" /\ link = "up"

Merged(post) == [k \in Keys |-> IF k \in DOMAIN post THEN post[k] ELSE ram[k]]

DualSfAccepted_Unchecked(c) == TRUE

DualSfAccepted(c) == lgw_check_lora_dualsf_conf(c["chan_bw"], c["chan_dr"], c["chan_dr_2"])

(* set_config_post_handler: every field is checked, then the pair of        *)
(* spreading factors, then lgw_nvs_set_config begins.                       *)
SetConfig(post) ==
  /\ Reachable
  /\ \A k \in DOMAIN post : FieldAccepted(k, post[k])
  /\ DualSfAccepted(Merged(post))
  /\ updated' = Merged(post)
  /\ web_pc' = "copy"
  /\ UNCHANGED <<bootVars, ram, flash, saving, pending, wifiVars, ap_up, acked>>

(* lgw_nvs_set_config: the configuration in RAM is replaced.                *)
Copy ==
  /\ web_pc = "copy"
  /\ ram' = updated
  /\ acked' = {}
  /\ web_pc' = "save"
  /\ saving' = 0
  /\ UNCHANGED <<bootVars, flash, updated, pending, wifiVars, ap_up>>

(* lgw_nvs_save_config: each nvs_set may reach the flash now or with the    *)
(* commit; it writes nothing when the key has that value already.           *)
SetKey ==
  /\ web_pc = "save" /\ saving < Len(Order)
  /\ LET k == Order[saving + 1] IN
       \/ flash' = [flash EXCEPT ![k] = ram[k]] /\ UNCHANGED pending
       \/ ram[k] # flash[k] /\ pending' = pending \cup {k} /\ UNCHANGED flash
  /\ saving' = saving + 1
  /\ UNCHANGED <<bootVars, ram, web_pc, updated, wifiVars, ap_up, acked>>

Commit_Skipped ==
  /\ web_pc = "save" /\ saving = Len(Order)
  /\ pending' = {}
  /\ acked' = {ram}
  /\ web_pc' = "idle"
  /\ UNCHANGED <<bootVars, ram, flash, updated, saving, wifiVars, ap_up>>

(* nvs_commit, and the answer "set config request ok".                      *)
Commit ==
  /\ web_pc = "save" /\ saving = Len(Order)
  /\ flash' = [k \in Keys |-> IF k \in pending THEN ram[k] ELSE flash[k]]
  /\ pending' = {}
  /\ acked' = {ram}
  /\ web_pc' = "idle"
  /\ UNCHANGED <<bootVars, ram, updated, saving, wifiVars, ap_up>>

(* nvs_open, an nvs_set or nvs_commit fails: the answer is an error.        *)
SaveFails ==
  /\ web_pc = "save"
  /\ pending' = {}
  /\ web_pc' = "idle"
  /\ UNCHANGED <<bootVars, ram, flash, updated, saving, wifiVars, ap_up, acked>>

(* The handler of reboot answers, and restarts two seconds later.           *)
Reboot ==
  /\ Reachable
  /\ web_pc' = "reboot"
  /\ UNCHANGED <<bootVars, ram, flash, updated, saving, pending, wifiVars, ap_up, acked>>

(* What the handler of get_config answers.                                  *)
GetConfig == ram

Web == Copy \/ SetKey \/ Commit \/ SaveFails \/ Reboot \/ \E p \in Posts : SetConfig(p)

Next == Boot \/ AutoQuit \/ PowerLoss \/ GotIp \/ Disconnected \/ AccessPoint \/ Web

(* The tasks run, the station reports what happens to it, and thread_down   *)
(* quits when there is no link. Nothing is assumed of the access point, of  *)
(* the power, of the users and of the server.                               *)
Fairness ==
  /\ WF_vars(Boot) /\ WF_vars(GotIp) /\ WF_vars(Disconnected)
  /\ WF_vars(Copy \/ SetKey \/ Commit \/ SaveFails)
  /\ WF_vars(AutoQuit /\ link # "up")

Spec == Init /\ [][Next]_vars /\ Fairness

-----------------------------------------------------------------------------
(* Properties *)

TypeOK ==
  /\ boot_pc \in {"load", "wifi", "http", "radio", "start", "running", "error", "exit"}
  /\ IsConfig(ram) /\ IsConfig(flash) /\ IsConfig(updated) /\ IsConfig(conf)
  /\ pending \subseteq Keys
  /\ web_pc \in {"down", "idle", "copy", "save", "reboot"}
  /\ saving \in 0 .. Len(Order)
  /\ detectors \in [main : SpreadingFactors \cup {DR_UNDEFINED},
                    side : SpreadingFactors \cup {DR_UNDEFINED}]
  /\ link \in {"off", "connecting", "up", "idle"}
  /\ retries \in 0 .. MAXIMUM_RETRY /\ bits \subseteq {"CONNECTED", "FAIL"}
  /\ link = "idle" => "FAIL" \in bits
  /\ ap_up \in BOOLEAN
  /\ \A c \in acked : IsConfig(c)

(* Once set_config has answered ok, every boot loads exactly that           *)
(* configuration, and get_config shows it, until another is being saved,    *)
(* whatever restarts and power losses come in between.                      *)
SavedIsLoaded ==
  \A c \in acked : flash = c /\ (boot_pc # "load" => ram = c)

(* The radio only ever runs a channel and a pair of detectors that work     *)
(* together, also when a save was cut short between two keys, or the        *)
(* configuration changed while it was read.                                 *)
DetectorsValid ==
  boot_pc = "running" =>
    /\ lgw_check_lora_mod_params(conf["chan_freq"], conf["chan_bw"])
    /\ lgw_check_lora_dualsf_conf(conf["chan_bw"], detectors.main, detectors.side)
    /\ detectors.main \in SpreadingFactors

(* A configuration that set_config accepted is the one the radio runs, with *)
(* both spreading factors: the check of the web form and the one of the     *)
(* radio agree, so that the silent fallback never drops one.                *)
AcceptedIsUsed ==
  boot_pc = "running" /\ conf \in acked =>
    {detectors.main, detectors.side} = {conf["chan_dr"], conf["chan_dr_2"]}


(* A station that has given up for good, which nothing reconnects, does not *)
(* leave the hub stranded: the hub restarts.                                *)
StrandedRestarts == link = "idle" ~> boot_pc = "load"

(* README.md: "/api/v1/get_config: read the current configuration from      *)
(* flash memory".                                                           *)
GetConfigShowsFlash == Reachable => GetConfig = flash
=============================================================================
