-------------------------------- MODULE Boot --------------------------------
(***************************************************************************)
(* From reset to running and back: app_main's order of steps (main.c:189-  *)
(* 374), the settings it loads, the check of a fresh image, and the update *)
(* that the test task downloads (system/system_ota.c), under restarts of   *)
(* every kind.  ESP_ERROR_CHECK turns a failed step into a restart.  The   *)
(* bootloader and the update library are external.                         *)
(*                                                                         *)
(* A definition that stands directly above the one it resembles and is     *)
(* used nowhere is a mistake the code might have made, kept to show which  *)
(* property notices it.                                                    *)
(***************************************************************************)
EXTENDS ConfigStore, Naturals

VARIABLES
  rollback, \* CONFIG_BOOTLOADER_APP_ROLLBACK_ENABLE; never changes
  at,       \* the step of app_main that is next, or "running"
  sys_cfg,  \* app_main's snapshot: [ssid, pass, broker]
  nvsBad,   \* nvs_flash_init would ask for an erasure
  running, boot, \* the slot that runs and the one to start next
  image,    \* what each slot holds
  state,    \* what the bootloader knows of each slot
  ota,      \* where the update task is
  calm      \* the environment: from now on no step fails and the power stays

imageVars == <<running, boot, image, state>>
vars == <<storeVars, rollback, at, sys_cfg, nvsBad, imageVars, ota, calm>>

Slots == {0, 1}
\* A new image may abort before its check, or after it, whenever it boots.
Kinds == {"good", "early", "late"}
CrashesAt(kind) == CASE kind = "good" -> "never" [] kind = "early" -> "config"
                     [] kind = "late" -> "drivers"

Empty   == "empty"   \* the compile-time default
Builtin == "builtin" \* the development profile of lines 211-214
Nothing == [ssid |-> Empty, pass |-> Empty, broker |-> Empty]

Passive == 1 - running

-----------------------------------------------------------------------------
\* app_main's steps; the log and the settings are set up before the check.
MarksFirst(step) ==
  CASE step = "nvs"     -> "verify"  [] step = "verify"     -> "log"
    [] step = "log"     -> "config"  [] step = "config"     -> "load"
    [] step = "load"    -> "bus"     [] step = "bus"        -> "queues"
    [] step = "queues"  -> "drivers" [] step = "drivers"    -> "transport"
    [] step = "transport" -> "supervisor" [] step = "supervisor" -> "running"
After(step) ==
  CASE step = "nvs"     -> "log"     [] step = "log"        -> "config"
    [] step = "config"  -> "load"    [] step = "load"       -> "verify"
    [] step = "verify"  -> "bus"     [] step = "bus"        -> "queues"
    [] step = "queues"  -> "drivers" [] step = "drivers"    -> "transport"
    [] step = "transport" -> "supervisor" [] step = "supervisor" -> "running"

\* The steps whose failure restarts the board, and which change nothing else here.
PlainSteps == {"log", "bus", "queues", "drivers", "transport", "supervisor"}

Init ==
  /\ StoreInit
  /\ rollback \in BOOLEAN
  /\ at = "nvs"
  /\ sys_cfg = Nothing
  /\ nvsBad \in BOOLEAN
  /\ running = 0 /\ boot = 0
  /\ image = [s \in Slots |-> IF s = 0 THEN "good" ELSE "partial"]
  /\ state = [s \in Slots |-> "valid"]
  /\ ota = "wait"
  /\ calm = FALSE

(***************************************************************************)
(* A restart.  The bootloader gives a new image one start: it must find it *)
(* confirmed at the next one, or it goes back to the other slot.           *)
(***************************************************************************)
Bootloader ==
  /\ IF state[boot] = "pending"
     THEN /\ running' = 1 - boot /\ boot' = 1 - boot
          /\ state' = [state EXCEPT ![boot] = "aborted"]
     ELSE /\ running' = boot /\ boot' = boot
          /\ state' = [state EXCEPT ![boot] = IF @ = "new" THEN "pending" ELSE @]
  /\ UNCHANGED image

\* nvs_flash_erase is at work; cut short, it may leave a partition that is taken.
Wiping == at = "nvs" /\ nvsBad

Restart ==
  /\ Bootloader /\ StoreCut(Wiping)
  /\ at' = "nvs" /\ ota' = "wait"
  /\ sys_cfg' = Nothing
  /\ nvsBad' \in {nvsBad} \union (IF calm THEN {} ELSE {TRUE}) \union (IF Wiping THEN {FALSE} ELSE {})
  /\ UNCHANGED <<rollback, calm>>

-----------------------------------------------------------------------------
\* [1] A partition that nvs_flash_init rejects is erased, settings and all.
InitNvs ==
  /\ at = "nvs" /\ at' = After(at)
  /\ IF Wiping THEN StoreWiped ELSE UNCHANGED storeVars
  /\ nvsBad' = FALSE
  /\ UNCHANGED <<rollback, sys_cfg, imageVars, ota, calm>>

\* [3] The store is opened.
OpenStore ==
  /\ at = "config" /\ CrashesAt(image[running]) # at
  /\ at' = After(at) /\ system_config_init
  /\ UNCHANGED <<rollback, sys_cfg, nvsBad, imageVars, ota, calm>>

\* [2] and [5] to [10]; app_main returns after the last, and its snapshot is gone.
Proceed ==
  /\ at \in PlainSteps /\ CrashesAt(image[running]) # at
  /\ at' = After(at)
  /\ sys_cfg' = IF at' = "running" THEN Nothing ELSE sys_cfg
  /\ UNCHANGED <<storeVars, rollback, nvsBad, imageVars, ota, calm>>

\* load_str: the default stands in for a key that is absent or cannot be read.
Resolve(key, readable) ==
  IF readable /\ flash[key] # Absent THEN flash[key] ELSE Empty

\* Without the name of an access point, all three fields become the built-in profile.
Inject(cfg) ==
  IF cfg.ssid = Empty THEN [ssid |-> Builtin, pass |-> Builtin, broker |-> Builtin] ELSE cfg

\* [3] system_config_load, which answers ESP_OK whatever it could read.
Load ==
  /\ at = "load" /\ s_initialized /\ at' = After(at)
  /\ \E unread \in SUBSET Keys :
       /\ calm => unread = {}
       /\ sys_cfg' = Inject([ssid   |-> Resolve("wifi_ssid", "wifi_ssid" \notin unread),
                             pass   |-> Resolve("wifi_pass", "wifi_pass" \notin unread),
                             broker |-> Resolve("broker_uri", "broker_uri" \notin unread)])
  /\ UNCHANGED <<storeVars, rollback, nvsBad, imageVars, ota, calm>>

\* [4] An image on trial is confirmed; a failure to do so is not looked at.
system_ota_pending_verify == state[running] = "pending"

Verify ==
  /\ at = "verify" /\ at' = After(at)
  /\ \/ /\ system_ota_pending_verify
        /\ state' = [state EXCEPT ![running] = "valid"]
        /\ UNCHANGED <<running, boot, image>>
     \/ UNCHANGED imageVars /\ (system_ota_pending_verify => ~calm)
  /\ UNCHANGED <<storeVars, rollback, sys_cfg, nvsBad, ota, calm>>

\* An image that cannot take a step aborts there.
Crash == at = CrashesAt(image[running]) /\ Restart

\* A step fails for another reason, or the power does.
Fault    == ~calm /\ at \in PlainSteps \union {"nvs", "config"} /\ Restart
PowerCut == ~calm /\ Restart

CalmDown == ~calm /\ calm' = TRUE
            /\ UNCHANGED <<storeVars, rollback, at, sys_cfg, nvsBad, imageVars, ota>>

-----------------------------------------------------------------------------
(***************************************************************************)
(* ota_test_task and system_ota_perform.  The image goes to the slot that  *)
(* does not run.  The library refuses to begin while the running image is  *)
(* on trial; it may take a short download for the end of the image, which  *)
(* the integrity check then finds; and it makes the slot the one to start  *)
(* next only when that check passes.                                       *)
(***************************************************************************)
OtaStep(from) ==
  /\ at = "running" /\ ota = from
  /\ UNCHANGED <<storeVars, rollback, at, sys_cfg, nvsBad, calm>>

\* 10 s, then at most OTA_NETWORK_WAIT_MS for a connection.
WaitForNetwork == OtaStep("wait") /\ ota' \in {"begin", "done"} /\ UNCHANGED imageVars

\* What system_ota_perform returned is logged, whichever error it is, and the task
\* deletes itself: an update is tried once per boot.
EndTask == ota' = "done"

OtaBegin ==
  /\ OtaStep("begin")
  /\ \/ /\ state[running] # "pending"
        /\ image' = [image EXCEPT ![Passive] = "partial"]
        /\ ota' = "download" /\ UNCHANGED <<running, boot, state>>
     \/ EndTask /\ UNCHANGED imageVars

\* The loop ends with all of the image, with a part of it, or with an error, after
\* which finish only releases the handle.
OtaDownload ==
  /\ OtaStep("download")
  /\ \/ \E k \in Kinds \union {"partial"} :
          image' = [image EXCEPT ![Passive] = k] /\ ota' = "finish"
     \/ EndTask /\ UNCHANGED image
  /\ UNCHANGED <<running, boot, state>>

\* `if (finish_err != ESP_OK) return finish_err`, otherwise reboot_on_success.
IgnoresFinish(ok) == ota' = "reboot"
AfterFinish(ok)   == IF ok THEN ota' = "reboot" ELSE EndTask

OtaFinish ==
  /\ OtaStep("finish")
  /\ \/ /\ image[Passive] # "partial"
        /\ boot' = Passive
        /\ state' = [state EXCEPT ![Passive] = IF rollback THEN "new" ELSE "valid"]
        /\ AfterFinish(TRUE)
     \/ AfterFinish(FALSE) /\ UNCHANGED <<boot, state>>
  /\ UNCHANGED <<running, image>>

OtaReboot == at = "running" /\ ota = "reboot" /\ Restart

StoreStep ==
  /\ at = "running" /\ Provision
  /\ UNCHANGED <<rollback, at, sys_cfg, nvsBad, imageVars, ota, calm>>

BootStep == InitNvs \/ OpenStore \/ Proceed \/ Load \/ Verify \/ Crash

Next ==
  \/ BootStep
  \/ Fault \/ PowerCut \/ CalmDown
  \/ WaitForNetwork \/ OtaBegin \/ OtaDownload \/ OtaFinish \/ OtaReboot
  \/ StoreStep

\* app_main is not starved: what it starts is created at its end.
Fairness == WF_vars(BootStep)

Spec == Init /\ [][Next]_vars /\ Fairness

-----------------------------------------------------------------------------
(***************************************************************************)
(* Type correctness, of the store's variables too; the mutex belongs to    *)
(* the task inside a call, whichever way its last call ended.              *)
(***************************************************************************)
TypeOK ==
  /\ StoreTypeOK
  /\ rollback \in BOOLEAN /\ nvsBad \in BOOLEAN /\ calm \in BOOLEAN
  /\ at \in PlainSteps \union {"nvs", "config", "load", "verify", "running"}
  /\ {sys_cfg.ssid, sys_cfg.pass} \subseteq Creds \union {Empty, Builtin}
  /\ sys_cfg.broker \in Uris \union {Empty, Builtin}
  /\ running \in Slots /\ boot \in Slots
  /\ image \in [Slots -> Kinds \union {"partial"}]
  /\ state \in [Slots -> {"valid", "new", "pending", "aborted"}]
  /\ ota \in {"wait", "begin", "download", "finish", "reboot", "done"}

(***************************************************************************)
(* The board does not give the passphrase of one network to another: the   *)
(* transport is given the passphrase stored with the name, or none.  That  *)
(* is so with several tasks in set_wifi and reset, when an erasure fails   *)
(* or is cut anywhere, at boot (main.c:195) too, and whichever keys cannot *)
(* be read.  It is not so after a set_wifi that failed, or was cut off by  *)
(* a restart, between its two writes (system_config.c:142-152), until one  *)
(* goes through or the store is erased; `sound` excepts that.  Today no    *)
(* task of the firmware calls the setters.                                 *)
(***************************************************************************)
PassphraseFits == sound => sys_cfg.pass \in {sys_cfg.ssid, Empty}

(***************************************************************************)
(* "the running image is left untouched" (system_ota.h:69): the slot to    *)
(* start next holds a whole image at every moment of an update, and the    *)
(* update restarts the board only into the image it has just stored.       *)
(***************************************************************************)
RestartsIntoNewImage ==
  /\ image[boot] # "partial"
  /\ ota = "reboot" => boot = Passive

(***************************************************************************)
(* The inductive invariant.  A stored passphrase is that of the stored     *)
(* name unless the pair is being written; while an image is on trial, or   *)
(* about to be, the slot to go back to is whole and not itself on trial;   *)
(* the store is open from its step on, and no task uses it before app_main *)
(* has ended.                                                              *)
(***************************************************************************)
PairOfOnePiece ==
  /\ sound => flash["wifi_ssid"] = Absent \/ flash["wifi_pass"] \in {flash["wifi_ssid"], Absent}
  /\ \A t \in Tasks : pc[t] = "pass" => ~sound /\ flash["wifi_ssid"] = arg[t]

OnTrial == {"new", "pending"}

WayBack ==
  /\ image[running] # "partial"
  /\ ota # "wait" => at = "running"
  /\ ota # "reboot" => boot = running /\ state[Passive] \notin OnTrial
  /\ state[running] # "new"
  /\ state[running] = "pending" =>
       /\ image[Passive] # "partial"
       /\ ota \notin {"download", "finish", "reboot"}
  /\ ota = "reboot" => state[boot] # "pending"

StoreOpens ==
  /\ at # "running" => s_mutex = NoTask
  /\ s_initialized <=> at \notin {"nvs", "log", "config"}

\* app_main's snapshot is on its stack.
SnapshotLives == at \in {"nvs", "running"} => sys_cfg = Nothing

IInv ==
  /\ TypeOK /\ PassphraseFits /\ SnapshotLives /\ RestartsIntoNewImage
  /\ PairOfOnePiece /\ WayBack /\ StoreOpens

(***************************************************************************)
(* When nothing fails any more, the board comes up: from any step it was   *)
(* cut at, with a partition to erase, and with a new image that aborts     *)
(* before the check, which the bootloader takes back (main.c:218-225).  An *)
(* image that aborts later was confirmed by then and is excluded.          *)
(***************************************************************************)
BoardComesUp ==
  calm /\ (image[boot] = "good" \/ (rollback /\ image[boot] = "early")) ~> at = "running"
=============================================================================
