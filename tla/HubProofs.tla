----------------------------- MODULE HubProofs -----------------------------
(***************************************************************************)
(* Theorems about Hub, for any default that the web form would accept, any *)
(* posts and any thresholds.                                               *)
(***************************************************************************)
EXTENDS Hub, TLAPS

(* A configuration of which the web form accepts every field on its own.    *)
Sound(c) == IsConfig(c) /\ \A k \in Keys : FieldAccepted(k, c[k])

ConfigsSound == Sound(ram) /\ Sound(flash) /\ Sound(updated) /\ Sound(conf)

(* The key i of the save under way is in flash, or will be with the commit. *)
Written(i) == Order[i] \in pending \/ flash[Order[i]] = ram[Order[i]]

Saving ==
  /\ boot_pc \in {"load", "wifi", "http"} => web_pc = "down"
  /\ web_pc # "save" => pending = {}
  /\ web_pc \in {"copy", "save"} => DualSfAccepted(updated)
  /\ web_pc = "save" => ram = updated /\ acked = {} /\ \A i \in 1 .. saving : Written(i)

Saved ==
  \A c \in acked : flash = c /\ DualSfAccepted(c) /\ (boot_pc # "load" => ram = c)

Running ==
  boot_pc = "running" =>
    /\ lgw_check_lora_mod_params(conf["chan_freq"], conf["chan_bw"])
    /\ detectors = Detectors(conf["chan_bw"], conf["chan_dr"], conf["chan_dr_2"])

Control ==
  /\ boot_pc \in {"load", "wifi", "http", "radio", "start", "running", "error", "exit"}
  /\ web_pc \in {"down", "idle", "copy", "save", "reboot"}
  /\ pending \subseteq Keys /\ saving \in 0 .. 7
  /\ link \in {"off", "connecting", "up", "idle"}
  /\ retries \in 0 .. MAXIMUM_RETRY /\ bits \subseteq {"CONNECTED", "FAIL"}
  /\ link = "idle" => "FAIL" \in bits
  /\ ap_up \in BOOLEAN

DetectorTypes == [main : SpreadingFactors \cup {DR_UNDEFINED},
                  side : SpreadingFactors \cup {DR_UNDEFINED}]

IInv == detectors \in DetectorTypes /\ Control /\ ConfigsSound /\ Saving /\ Saved /\ Running

-----------------------------------------------------------------------------
(* The fields of a configuration are independent of each other for the web  *)
(* form: any mix of two configurations is one.                              *)
LEMMA MixSound ==
  ASSUME NEW c, NEW d, Sound(c), Sound(d), NEW S
  PROVE  Sound([k \in Keys |-> IF k \in S THEN d[k] ELSE c[k]])
BY DEF Sound, IsConfig

(* A field taken from another sound configuration leaves it sound.         *)
LEMMA ExceptSound ==
  ASSUME NEW c, NEW d, Sound(c), Sound(d), NEW j \in Keys
  PROVE  Sound([c EXCEPT ![j] = d[j]])
<1>1. c = [k \in Keys |-> c[k]]
  BY DEF Sound, IsConfig
<1>2. [c EXCEPT ![j] = d[j]] = [k \in Keys |-> IF k \in {j} THEN d[k] ELSE c[k]]
  BY <1>1
<1>3. Sound([k \in Keys |-> IF k \in {j} THEN d[k] ELSE c[k]])
  BY MixSound
<1>4. QED
  BY <1>2, <1>3

(* Accepted fields posted over a sound configuration leave it sound.       *)
LEMMA MergedSound ==
  ASSUME Sound(ram), NEW p \in Posts, \A k \in DOMAIN p : FieldAccepted(k, p[k])
  PROVE  Sound(Merged(p))
BY DEF Sound, IsConfig, Merged

(* The default is sound.                                                   *)
LEMMA DefaultSound == Sound(Default)
BY HubAssumption DEF Sound

(* The seven keys are written one after the other, each once.              *)
LEMMA KeysOrdered ==
  /\ Len(Order) = 7
  /\ \A i \in 1 .. 7 : Order[i] \in Keys
  /\ \A k \in Keys : \E i \in 1 .. 7 : Order[i] = k
<1>1. Len(Order) = 7
  BY DEF Order
<1>2. /\ Order[1] = "lns_addr" /\ Order[2] = "lns_port" /\ Order[3] = "chan_freq"
      /\ Order[4] = "chan_dr" /\ Order[5] = "chan_dr_2" /\ Order[6] = "chan_bw"
      /\ Order[7] = "sntp_addr"
  BY DEF Order
<1>3. 1 .. 7 = {1, 2, 3, 4, 5, 6, 7}
  OBVIOUS
<1>4. QED
  BY <1>1, <1>2, <1>3 DEF Keys

-----------------------------------------------------------------------------
(* The dual-SF check does not depend on the order of the detectors.         *)
LEMMA DualSfSymmetric ==
  ASSUME NEW bw \in Bandwidths,
         NEW a \in SpreadingFactors \cup {DR_UNDEFINED},
         NEW b \in SpreadingFactors \cup {DR_UNDEFINED}
  PROVE  lgw_check_lora_dualsf_conf(bw, a, b) <=> lgw_check_lora_dualsf_conf(bw, b, a)
<1>1. a \in Int /\ b \in Int
  BY DEF SpreadingFactors, DR_UNDEFINED
<1>2. Abs(a - b) = Abs(b - a)
  BY <1>1 DEF Abs
<1> DEFINE ldroA == ral_compute_lora_ldro(a, bw)
           ldroB == ral_compute_lora_ldro(b, bw)
<1>3. lgw_check_lora_dualsf_conf(bw, a, b) <=>
        \/ a = DR_UNDEFINED \/ b = DR_UNDEFINED
        \/ /\ IF bw = 800 THEN a < 10 /\ b < 10 ELSE a # 12 /\ b # 12
           /\ a # b /\ Abs(a - b) <= 4 /\ ldroA = ldroB
  BY SMT DEF lgw_check_lora_dualsf_conf
<1>4. lgw_check_lora_dualsf_conf(bw, b, a) <=>
        \/ b = DR_UNDEFINED \/ a = DR_UNDEFINED
        \/ /\ IF bw = 800 THEN b < 10 /\ a < 10 ELSE b # 12 /\ a # 12
           /\ b # a /\ Abs(b - a) <= 4 /\ ldroB = ldroA
  BY SMT DEF lgw_check_lora_dualsf_conf
<1> HIDE DEF ldroA, ldroB
<1>5. QED
  BY <1>2, <1>3, <1>4

(* The pair that the HAL ends with works, and is the requested one if that works. *)
LEMMA DetectorsWork ==
  ASSUME NEW bw \in Bandwidths, NEW dr1 \in SpreadingFactors,
         NEW dr2 \in SpreadingFactors \cup {DR_UNDEFINED}
  PROVE  LET d == Detectors(bw, dr1, dr2)
         IN  /\ d \in [main : SpreadingFactors, side : SpreadingFactors \cup {DR_UNDEFINED}]
             /\ lgw_check_lora_dualsf_conf(bw, d.main, d.side)
             /\ lgw_check_lora_dualsf_conf(bw, dr1, dr2) =>
                  (d.main = dr1 /\ d.side = dr2) \/ (d.main = dr2 /\ d.side = dr1)
<1> DEFINE pair == IF dr2 = DR_UNDEFINED THEN [main |-> dr1, side |-> DR_UNDEFINED]
                   ELSE IF dr2 < dr1 THEN [main |-> dr1, side |-> dr2]
                   ELSE [main |-> dr2, side |-> dr1]
<1>1. /\ pair \in [main : SpreadingFactors, side : SpreadingFactors \cup {DR_UNDEFINED}]
      /\ (pair.main = dr1 /\ pair.side = dr2) \/ (pair.main = dr2 /\ pair.side = dr1)
  BY DEF DR_UNDEFINED
<1>2. lgw_check_lora_dualsf_conf(bw, dr1, dr2) <=> lgw_check_lora_dualsf_conf(bw, pair.main, pair.side)
  BY <1>1, DualSfSymmetric
<1> HIDE DEF pair
<1>3. Detectors(bw, dr1, dr2) = IF lgw_check_lora_dualsf_conf(bw, pair.main, pair.side) THEN pair
                                ELSE [main |-> dr1, side |-> DR_UNDEFINED]
  BY DEF Detectors, pair
<1>4. lgw_check_lora_dualsf_conf(bw, dr1, DR_UNDEFINED)
  BY DEF lgw_check_lora_dualsf_conf
<1>5. QED
  BY <1>1, <1>2, <1>3, <1>4

(* The channel fields of a sound configuration are within their ranges.    *)
LEMMA SoundChannel ==
  ASSUME NEW c, Sound(c)
  PROVE  /\ c["chan_bw"] \in Bandwidths /\ c["chan_dr"] \in SpreadingFactors
         /\ c["chan_dr_2"] \in SpreadingFactors \cup {DR_UNDEFINED}
<1>1. /\ FieldAccepted("chan_bw", c["chan_bw"]) /\ FieldAccepted("chan_dr", c["chan_dr"])
      /\ FieldAccepted("chan_dr_2", c["chan_dr_2"])
  BY DEF Sound, Keys
<1>2. c["chan_bw"] \in Bandwidths
  BY <1>1 DEF FieldAccepted
<1>3. c["chan_dr"] \in SpreadingFactors
  BY <1>1 DEF FieldAccepted
<1>4. QED
  BY <1>1, <1>2, <1>3 DEF FieldAccepted

-----------------------------------------------------------------------------
(* The invariant holds at the first power-up.                              *)
LEMMA InvariantInit == Init => IInv
<1> SUFFICES ASSUME Init PROVE IInv
  OBVIOUS
<1>1. ConfigsSound
  BY DefaultSound DEF Init, ConfigsSound
<1>2. Control /\ Saving /\ Saved /\ Running
  BY HubAssumption DEF Init, Control, Saving, Saved, Running
<1>3. detectors \in DetectorTypes
  BY DEF Init, NoDetectors, DetectorTypes
<1>4. QED
  BY <1>1, <1>2, <1>3 DEF IInv

(* A mix, a merge or a copy of sound configurations is sound.               *)
LEMMA ConfigsInductive == ConfigsSound /\ [Next]_vars => ConfigsSound'
<1> SUFFICES ASSUME ConfigsSound, [Next]_vars PROVE ConfigsSound'
  OBVIOUS
<1> USE DEF ConfigsSound, bootVars, webVars, wifiVars
<1>1. CASE Load
  BY <1>1 DEF Load
<1>2. CASE WifiReady \/ StartHttp \/ NoServer \/ StartRadio \/ AutoQuit
  BY <1>2 DEF WifiReady, StartHttp, NoServer, StartRadio, AutoQuit
<1>3. CASE ParseRadio
  <2>1. PICK copied \in SUBSET Keys :
          conf' = [k \in Keys |-> IF k \in copied THEN updated[k] ELSE ram[k]]
    BY <1>3 DEF ParseRadio
  <2>2. Sound(conf')
    BY <2>1, MixSound
  <2>3. QED
    BY <1>3, <2>2 DEF ParseRadio
<1>4. CASE Reset
  BY <1>4, DefaultSound DEF Reset
<1>5. CASE GotIp \/ Disconnected \/ AccessPoint
  BY <1>5 DEF GotIp, Disconnected, AccessPoint
<1>6. CASE Copy
  BY <1>6 DEF Copy
<1>7. CASE SetKey
  <2> DEFINE j == Order[saving + 1]
  <2>1. flash' = [flash EXCEPT ![j] = ram[j]] \/ flash' = flash
    BY <1>7 DEF SetKey
  <2>2. Sound(flash')
    <3>1. CASE j \in Keys
      BY <2>1, <3>1, ExceptSound
    <3>2. CASE j \notin Keys
      <4>1. flash = [k \in Keys |-> flash[k]]
        BY DEF Sound, IsConfig
      <4>2. [flash EXCEPT ![j] = ram[j]] = flash
        BY <3>2, <4>1
      <4>3. QED
        BY <2>1, <4>2
    <3>3. QED
      BY <3>1, <3>2
  <2>3. QED
    BY <1>7, <2>2 DEF SetKey
<1>8. CASE Commit
  <2>1. Sound(flash')
    BY <1>8, MixSound DEF Commit
  <2>2. QED
    BY <1>8, <2>1 DEF Commit
<1>9. CASE SaveFails \/ Reboot
  BY <1>9 DEF SaveFails, Reboot
<1>10. ASSUME NEW p \in Posts, SetConfig(p) PROVE ConfigsSound'
  <2>1. Sound(Merged(p))
    BY <1>10, MergedSound DEF SetConfig
  <2>2. QED
    BY <1>10, <2>1 DEF SetConfig
<1>11. CASE UNCHANGED vars
  BY <1>11 DEF vars
<1>12. QED
  BY <1>1, <1>2, <1>3, <1>4, <1>5, <1>6, <1>7, <1>8, <1>9, <1>10, <1>11
     DEF Next, Boot, Web, Restart, PowerLoss

(* Every step keeps the types.                                             *)
LEMMA ControlInductive == Control /\ [Next]_vars => Control'
<1> SUFFICES ASSUME Control, [Next]_vars PROVE Control'
  OBVIOUS
<1> USE HubAssumption DEF Control, bootVars, webVars, wifiVars
<1>1. CASE Load
  BY <1>1 DEF Load
<1>2. CASE WifiReady \/ StartHttp \/ NoServer \/ StartRadio \/ AutoQuit \/ ParseRadio
  BY <1>2 DEF WifiReady, StartHttp, NoServer, StartRadio, AutoQuit, ParseRadio, AfterWifi
<1>3. CASE Reset
  BY <1>3 DEF Reset
<1>4. CASE GotIp
  BY <1>4 DEF GotIp
<1>5. CASE Disconnected
  <2>1. CASE retries < MAXIMUM_RETRY
    <3>1. link' = "connecting" /\ bits' = bits /\ retries' \in 0 .. MAXIMUM_RETRY
      BY <1>5, <2>1 DEF Disconnected
    <3>2. QED
      BY <1>5, <3>1 DEF Disconnected
  <2>2. CASE ~(retries < MAXIMUM_RETRY)
    <3>1. retries' = retries /\ bits' = bits \cup {"FAIL"} /\ link' = "idle"
      BY <1>5, <2>2 DEF Disconnected
    <3>2. QED
      BY <1>5, <3>1 DEF Disconnected
  <2>3. QED
    BY <2>1, <2>2
<1>6. CASE AccessPoint
  BY <1>6 DEF AccessPoint
<1>7. CASE Copy \/ Commit \/ SaveFails \/ Reboot
  <2>1. /\ web_pc' \in {"save", "idle", "reboot"}
        /\ pending' \in {{}, pending} /\ saving' \in {0, saving}
        /\ UNCHANGED <<bootVars, wifiVars, ap_up>>
    BY <1>7 DEF Copy, Commit, SaveFails, Reboot
  <2>2. QED
    BY <2>1
<1>8. CASE SetKey
  <2>1. saving < 7 /\ saving + 1 \in 1 .. 7
    BY <1>8, KeysOrdered DEF SetKey
  <2>2. pending' \subseteq Keys
    BY <1>8, <2>1, KeysOrdered DEF SetKey
  <2>3. QED
    BY <1>8, <2>1, <2>2 DEF SetKey
<1>9. ASSUME NEW p \in Posts, SetConfig(p) PROVE Control'
  BY <1>9 DEF SetConfig
<1>10. CASE UNCHANGED vars
  BY <1>10 DEF vars
<1>11. QED
  BY <1>1, <1>2, <1>3, <1>4, <1>5, <1>6, <1>7, <1>8, <1>9, <1>10
     DEF Next, Boot, Web, Restart, PowerLoss

(* A save finds the configuration it was started with until its end: none   *)
(* but Load and Copy write the one in RAM.                                  *)
LEMMA SavingInductive == Control /\ ConfigsSound /\ Saving /\ [Next]_vars => Saving'
<1> SUFFICES ASSUME Control, ConfigsSound, Saving, [Next]_vars PROVE Saving'
  OBVIOUS
<1> USE DEF Saving, bootVars, webVars, wifiVars
<1>1. CASE Load
  BY <1>1 DEF Load, Control
<1>2. CASE WifiReady \/ NoServer \/ StartRadio \/ AutoQuit \/ ParseRadio
  <2>1. /\ boot_pc' = "http" => boot_pc = "wifi"
        /\ boot_pc' \notin {"load", "wifi"}
        /\ UNCHANGED <<ram, flash, webVars, acked>>
    BY <1>2 DEF WifiReady, NoServer, StartRadio, AutoQuit, ParseRadio, AfterWifi
  <2>2. QED
    BY <2>1 DEF Written, DualSfAccepted
<1>3. CASE StartHttp
  <2>1. web_pc' = "idle" /\ boot_pc' = "radio" /\ UNCHANGED pending /\ boot_pc = "http"
    BY <1>3 DEF StartHttp
  <2>2. QED
    BY <2>1, <1>3
<1>4. CASE Reset
  BY <1>4 DEF Reset
<1>5. CASE GotIp \/ Disconnected \/ AccessPoint
  <2>1. UNCHANGED <<bootVars, ram, flash, webVars, acked>>
    BY <1>5 DEF GotIp, Disconnected, AccessPoint
  <2>2. QED
    BY <2>1 DEF Written
<1>6. CASE Copy
  BY <1>6 DEF Copy, DualSfAccepted
<1>7. CASE SetKey
  <2> DEFINE j == Order[saving + 1]
  <2>1. saving \in 0 .. 6 /\ j \in Keys /\ web_pc = "save" /\ web_pc' = "save" /\ saving' = saving + 1
    BY <1>7, KeysOrdered DEF SetKey, Control
  <2>2. UNCHANGED <<boot_pc, ram, updated, acked>>
    BY <1>7 DEF SetKey
  <2>3. /\ flash' = flash \/ flash' = [flash EXCEPT ![j] = ram[j]]
        /\ pending \subseteq pending'
        /\ j \in pending' \/ flash' = [flash EXCEPT ![j] = ram[j]]
    BY <1>7 DEF SetKey
  <2> HIDE DEF j
  <2>8. \A k \in Keys : [flash EXCEPT ![j] = ram[j]][k] = IF k = j THEN ram[k] ELSE flash[k]
    <3>1. flash = [k \in Keys |-> flash[k]]
      BY DEF ConfigsSound, Sound, IsConfig
    <3>2. QED
      BY <2>1, <3>1
  <2>4. \A k \in Keys : flash'[k] = flash[k] \/ (k = j /\ flash'[k] = ram[k])
    BY <2>3, <2>8
  <2>5. j \in pending' \/ flash'[j] = ram[j]
    BY <2>1, <2>3, <2>8
  <2>6. ASSUME NEW i \in 1 .. saving' PROVE Written(i)'
    <3>1. i \in 1 .. 7 /\ Order[i] \in Keys
      BY <2>1, KeysOrdered
    <3>2. CASE i \in 1 .. saving
      <4>1. Written(i)
        BY <2>1, <3>2
      <4>2. QED
        BY <2>2, <2>3, <2>4, <3>1, <4>1 DEF Written
    <3>3. CASE i = saving + 1
      BY <2>2, <2>5, <3>3 DEF Written, j
    <3>4. QED
      BY <2>1, <3>2, <3>3
  <2>7. QED
    BY <2>1, <2>2, <2>6 DEF DualSfAccepted
<1>8. CASE Commit \/ SaveFails \/ Reboot
  <2>1. /\ web_pc' \in {"idle", "reboot"} /\ web_pc # "down" /\ boot_pc' = boot_pc
        /\ pending' = {}
    BY <1>8 DEF Commit, SaveFails, Reboot, Reachable
  <2>2. QED
    BY <2>1
<1>9. ASSUME NEW p \in Posts, SetConfig(p) PROVE Saving'
  <2>1. /\ web_pc = "idle" /\ web_pc' = "copy" /\ UNCHANGED <<boot_pc, pending>>
        /\ DualSfAccepted(updated')
    BY <1>9 DEF SetConfig, Reachable
  <2>2. QED
    BY <2>1 DEF DualSfAccepted
<1>10. CASE UNCHANGED vars
  BY <1>10 DEF vars, Written, DualSfAccepted
<1>11. QED
  BY <1>1, <1>2, <1>3, <1>4, <1>5, <1>6, <1>7, <1>8, <1>9, <1>10
     DEF Next, Boot, Web, Restart, PowerLoss

(* The commit leaves in flash the configuration that it reports as saved.   *)
LEMMA CommitSaves ==
  ASSUME Control, ConfigsSound, Saving, Commit
  PROVE  flash' = ram
<1>1. web_pc = "save" /\ saving = 7
  BY KeysOrdered DEF Commit
<1>2. \A k \in Keys : k \in pending \/ flash[k] = ram[k]
  BY <1>1, KeysOrdered DEF Saving, Written
<1>3. ram = [k \in Keys |-> ram[k]]
  BY DEF ConfigsSound, Sound, IsConfig
<1>4. flash' = [k \in Keys |-> IF k \in pending THEN ram[k] ELSE flash[k]]
  BY DEF Commit
<1>5. flash' = [k \in Keys |-> ram[k]]
  BY <1>2, <1>4
<1>6. QED
  BY <1>3, <1>5

(* Every step keeps a saved configuration in the flash.                    *)
LEMMA SavedInductive ==
  Control /\ ConfigsSound /\ Saving /\ Saved /\ [Next]_vars => Saved'
<1> SUFFICES ASSUME Control, ConfigsSound, Saving, Saved, [Next]_vars PROVE Saved'
  OBVIOUS
<1> USE DEF Saved, bootVars, webVars, wifiVars
<1>1. CASE Load
  BY <1>1 DEF Load
<1>2. CASE WifiReady \/ NoServer \/ StartRadio \/ AutoQuit \/ ParseRadio \/ StartHttp
  <2>1. boot_pc # "load" /\ UNCHANGED <<ram, flash, acked>>
    BY <1>2 DEF WifiReady, NoServer, StartRadio, AutoQuit, ParseRadio, StartHttp
  <2>2. QED
    BY <2>1
<1>3. CASE Reset
  BY <1>3 DEF Reset
<1>4. CASE GotIp \/ Disconnected \/ AccessPoint \/ SaveFails \/ Reboot
  <2>1. UNCHANGED <<boot_pc, ram, flash, acked>>
    BY <1>4 DEF GotIp, Disconnected, AccessPoint, SaveFails, Reboot
  <2>2. QED
    BY <2>1
<1>5. CASE Copy
  BY <1>5 DEF Copy
<1>6. CASE SetKey
  BY <1>6 DEF SetKey, Saving
<1>7. CASE Commit
  <2>1. acked' = {ram} /\ ram' = ram /\ flash' = ram
    BY <1>7, CommitSaves DEF Commit
  <2>2. DualSfAccepted(ram)
    BY <1>7 DEF Commit, Saving
  <2>3. QED
    BY <2>1, <2>2
<1>8. ASSUME NEW p \in Posts, SetConfig(p) PROVE Saved'
  BY <1>8 DEF SetConfig
<1>9. CASE UNCHANGED vars
  BY <1>9 DEF vars
<1>10. QED
  BY <1>1, <1>2, <1>3, <1>4, <1>5, <1>6, <1>7, <1>8, <1>9
     DEF Next, Boot, Web, Restart, PowerLoss

(* The channel is configured on the way to running, and then kept.          *)
LEMMA RunningInductive == Running /\ [Next]_vars => Running'
<1> SUFFICES ASSUME Running, [Next]_vars PROVE Running'
  OBVIOUS
<1> USE DEF Running, bootVars, webVars, wifiVars
<1>1. CASE Load \/ WifiReady \/ StartHttp \/ ParseRadio \/ NoServer \/ AutoQuit \/ Reset
  <2>1. boot_pc' # "running"
    BY <1>1 DEF Load, WifiReady, AfterWifi, StartHttp, ParseRadio, NoServer, AutoQuit, Reset
  <2>2. QED
    BY <2>1
<1>2. CASE StartRadio
  BY <1>2 DEF StartRadio
<1>3. CASE GotIp \/ Disconnected \/ AccessPoint \/ Copy \/ SetKey \/ Commit \/ SaveFails \/ Reboot
  <2>1. UNCHANGED bootVars
    BY <1>3 DEF GotIp, Disconnected, AccessPoint, Copy, SetKey, Commit, SaveFails, Reboot
  <2>2. QED
    BY <2>1
<1>4. ASSUME NEW p \in Posts, SetConfig(p) PROVE Running'
  BY <1>4 DEF SetConfig
<1>5. CASE UNCHANGED vars
  BY <1>5 DEF vars
<1>6. QED
  BY <1>1, <1>2, <1>3, <1>4, <1>5 DEF Next, Boot, Web, Restart, PowerLoss

(* Every step keeps the type of the detectors.                             *)
LEMMA DetectorsTyped ==
  ConfigsSound /\ detectors \in DetectorTypes /\ [Next]_vars => (detectors \in DetectorTypes)'
<1> SUFFICES ASSUME ConfigsSound, detectors \in DetectorTypes, [Next]_vars
             PROVE  detectors' \in DetectorTypes
  OBVIOUS
<1>1. CASE StartRadio
  <2>1. Detectors(conf["chan_bw"], conf["chan_dr"], conf["chan_dr_2"]) \in DetectorTypes
    BY SoundChannel, DetectorsWork DEF ConfigsSound, DetectorTypes
  <2>2. QED
    BY <1>1, <2>1 DEF StartRadio
<1>2. CASE Reset
  BY <1>2 DEF Reset, NoDetectors, DetectorTypes
<1>3. CASE ~StartRadio /\ ~Reset
  BY <1>3 DEF Next, Boot, Web, Restart, PowerLoss, vars, bootVars, Load, WifiReady, StartHttp,
     ParseRadio, NoServer, AutoQuit, GotIp, Disconnected, AccessPoint, Copy, SetKey, Commit,
     SaveFails, Reboot, SetConfig
<1>4. QED
  BY <1>1, <1>2, <1>3

(* The invariant holds in every state.                                     *)
LEMMA Invariance == Spec => []IInv
<1>1. IInv /\ [Next]_vars => IInv'
  BY ConfigsInductive, ControlInductive, SavingInductive, SavedInductive, RunningInductive,
     DetectorsTyped
     DEF IInv
<1>2. QED
  BY <1>1, InvariantInit, PTL DEF Spec

-----------------------------------------------------------------------------
(* Every state of the hub has the types declared for it.                    *)
THEOREM TypeCorrect == Spec => []TypeOK
<1>1. IInv => TypeOK
  <2> SUFFICES ASSUME IInv PROVE TypeOK
    OBVIOUS
  <2>1. /\ IsConfig(ram) /\ IsConfig(flash) /\ IsConfig(updated) /\ IsConfig(conf)
        /\ \A c \in acked : IsConfig(c)
    BY DEF IInv, ConfigsSound, Sound, Saved
  <2>2. QED
    BY <2>1, KeysOrdered DEF IInv, Control, TypeOK, DetectorTypes
<1>2. QED
  BY <1>1, Invariance, PTL

(* A configuration that set_config reported as saved is the one every later *)
(* boot loads, whatever saves failed before it and wherever the power or a  *)
(* restart cut one short.                                                   *)
THEOREM SavedStays == Spec => []SavedIsLoaded
<1>1. IInv => SavedIsLoaded
  BY DEF IInv, Saved, SavedIsLoaded
<1>2. QED
  BY <1>1, Invariance, PTL

(* The radio never runs a pair of detectors that do not work together, from *)
(* any mix of configurations that the web form accepted.                    *)
THEOREM DetectorsAlwaysWork == Spec => []DetectorsValid
<1>1. IInv => DetectorsValid
  <2> SUFFICES ASSUME IInv, boot_pc = "running"
               PROVE  /\ lgw_check_lora_mod_params(conf["chan_freq"], conf["chan_bw"])
                      /\ lgw_check_lora_dualsf_conf(conf["chan_bw"], detectors.main, detectors.side)
                      /\ detectors.main \in SpreadingFactors
    BY DEF DetectorsValid
  <2>1. Sound(conf) /\ Running
    BY DEF IInv, ConfigsSound
  <2>2. QED
    BY <2>1, SoundChannel, DetectorsWork DEF Running
<1>2. QED
  BY <1>1, Invariance, PTL

(* No configuration that set_config accepted and saved loses a spreading    *)
(* factor to the silent fallback of the radio's own check.                  *)
THEOREM NoSilentFallback == Spec => []AcceptedIsUsed
<1>1. IInv => AcceptedIsUsed
  <2> SUFFICES ASSUME IInv, boot_pc = "running", conf \in acked
               PROVE  {detectors.main, detectors.side} = {conf["chan_dr"], conf["chan_dr_2"]}
    BY DEF AcceptedIsUsed
  <2>1. Sound(conf) /\ Running /\ DualSfAccepted(conf)
    BY DEF IInv, ConfigsSound, Saved
  <2>2. lgw_check_lora_dualsf_conf(conf["chan_bw"], conf["chan_dr"], conf["chan_dr_2"])
    BY <2>1 DEF DualSfAccepted
  <2>3. LET d == Detectors(conf["chan_bw"], conf["chan_dr"], conf["chan_dr_2"])
        IN  \/ d.main = conf["chan_dr"] /\ d.side = conf["chan_dr_2"]
            \/ d.main = conf["chan_dr_2"] /\ d.side = conf["chan_dr"]
    BY <2>1, <2>2, SoundChannel, DetectorsWork
  <2>4. detectors = Detectors(conf["chan_bw"], conf["chan_dr"], conf["chan_dr_2"])
    BY <2>1 DEF Running
  <2>5. QED
    BY <2>3, <2>4
<1>2. QED
  BY <1>1, Invariance, PTL

=============================================================================
