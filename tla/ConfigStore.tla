---------------------------- MODULE ConfigStore ----------------------------
(***************************************************************************)
(* The configuration store (system/system_config.c): keys in flash,        *)
(* written one at a time by tasks that take turns by a mutex.  A call may  *)
(* fail at each of its writes, and the board may restart between two of    *)
(* them; module Boot says when.  No task of this firmware calls the        *)
(* setters yet: Tasks are the provisioning tasks they are there for.       *)
(*                                                                         *)
(* A definition that stands directly above the one it resembles and is     *)
(* used nowhere is a mistake the code might have made, kept to show which  *)
(* property notices it.                                                    *)
(***************************************************************************)
CONSTANTS
  Tasks,  \* the tasks that store settings
  Creds,  \* names of access points, each with its passphrase
  Uris,   \* addresses of brokers
  NoTask

ASSUME NoTaskAssumption == NoTask \notin Tasks

VARIABLES
  flash,   \* the namespace flab_cfg: key -> value, or Absent
  s_initialized, \* the namespace is open and the mutex made
  s_mutex, \* the task that owns it, or NoTask
  pc,      \* per task: the next step of its call
  arg,     \* per task: what it stores
  sound    \* history: no set_wifi has written a name and not its passphrase, since the
           \* last whole one or the last whole erasure

storeVars == <<flash, s_initialized, s_mutex, pc, arg, sound>>

Absent == "absent"
Keys   == {"wifi_ssid", "wifi_pass", "broker_uri"}
Places == {"idle", "ssid", "pass", "uri", "erase", "commit", "id"}

Erased == [k \in Keys |-> Absent]

\* What an erasure of the namespace that is cut short may leave.
PartlyErased ==
  {[k \in Keys |-> IF k \in gone THEN Absent ELSE flash[k]] : gone \in SUBSET Keys}

-----------------------------------------------------------------------------
\* The mutex is made once; what an open that fails leaves behind, a restart clears.
system_config_init ==
  s_initialized' = TRUE /\ UNCHANGED <<flash, s_mutex, pc, arg, sound>>

NoLock(t) == s_mutex' = t
Lock(t)   == s_mutex = NoTask /\ s_mutex' = t

\* ESP_ERR_INVALID_STATE before system_config_init.
Call(t, place, value) ==
  /\ s_initialized /\ pc[t] = "idle" /\ Lock(t)
  /\ pc' = [pc EXCEPT ![t] = place] /\ arg' = [arg EXCEPT ![t] = value]
  /\ UNCHANGED <<flash, s_initialized, sound>>

Leave(t) == pc' = [pc EXCEPT ![t] = "idle"] /\ arg' = [arg EXCEPT ![t] = Absent]

Return(t) == Leave(t) /\ s_mutex' = NoTask /\ UNCHANGED s_initialized

\* "release the mutex even on failure"
FailLocked(t) == Leave(t) /\ UNCHANGED <<s_mutex, s_initialized>>
Fail(t)       == Return(t)

\* nvs_set_str: the value is in flash when it returns ESP_OK.  When it returns an
\* error the key is as it was, or is written all the same: a failure to drop the old
\* value is an error too.
Put(t, key) == flash' = [flash EXCEPT ![key] = arg[t]]

Store(t, key, next) ==
  /\ Put(t, key)
  /\ pc' = [pc EXCEPT ![t] = next]
  /\ UNCHANGED <<s_initialized, s_mutex, arg>>

SetWifi(t)   == \E c \in Creds : Call(t, "ssid", c)
SetBroker(t) == \E u \in Uris : Call(t, "uri", u)
Reset(t)     == Call(t, "erase", Absent)
GetId(t)     == Call(t, "id", Absent)

WriteSsid(t) ==
  /\ pc[t] = "ssid"
  /\ \/ Store(t, "wifi_ssid", "pass") /\ sound' = FALSE
     \/ Fail(t) /\ UNCHANGED <<flash, sound>>
     \/ Fail(t) /\ Put(t, "wifi_ssid") /\ sound' = FALSE

WritePass(t) ==
  /\ pc[t] = "pass"
  /\ \/ Store(t, "wifi_pass", "commit") /\ sound' = TRUE
     \/ Fail(t) /\ UNCHANGED <<flash, sound>>
     \/ Fail(t) /\ Put(t, "wifi_pass") /\ sound' = TRUE

WriteUri(t) ==
  /\ pc[t] = "uri"
  /\ UNCHANGED sound
  /\ \/ Store(t, "broker_uri", "commit")
     \/ Fail(t) /\ (UNCHANGED flash \/ Put(t, "broker_uri"))

EraseAll(t) ==
  /\ pc[t] = "erase"
  /\ \/ /\ flash' = Erased /\ sound' = TRUE
        /\ pc' = [pc EXCEPT ![t] = "commit"]
        /\ UNCHANGED <<s_initialized, s_mutex, arg>>
     \/ flash' \in PartlyErased /\ UNCHANGED sound /\ Fail(t)

\* Whatever nvs_commit answers, the mutex is given; the writes are in flash already.
Commit(t) == pc[t] = "commit" /\ Return(t) /\ UNCHANGED <<flash, sound>>

\* The stored id, an error, or for a blank one the id derived from the MAC address.
ReadId(t) == pc[t] = "id" /\ Return(t) /\ UNCHANGED <<flash, sound>>

Provision ==
  \E t \in Tasks :
    \/ SetWifi(t) \/ SetBroker(t) \/ Reset(t) \/ GetId(t)
    \/ WriteSsid(t) \/ WritePass(t) \/ WriteUri(t) \/ EraseAll(t) \/ Commit(t)
    \/ ReadId(t)

-----------------------------------------------------------------------------
StoreInit ==
  /\ flash = Erased /\ s_initialized = FALSE /\ s_mutex = NoTask /\ sound = TRUE
  /\ pc = [t \in Tasks |-> "idle"] /\ arg = [t \in Tasks |-> Absent]

\* The board restarts: flash stays, an erasure in progress, here or at boot, has got
\* anywhere.
StoreCut(wiping) ==
  /\ flash' \in IF wiping \/ \E t \in Tasks : pc[t] = "erase" THEN PartlyErased ELSE {flash}
  /\ UNCHANGED sound
  /\ s_initialized' = FALSE /\ s_mutex' = NoTask
  /\ pc' = [t \in Tasks |-> "idle"] /\ arg' = [t \in Tasks |-> Absent]

\* nvs_flash_erase at boot, when nothing cuts it.
StoreWiped == flash' = Erased /\ sound' = TRUE /\ UNCHANGED <<s_initialized, s_mutex, pc, arg>>

FlashOK ==
  /\ flash \in [Keys -> Creds \union Uris \union {Absent}]
  /\ flash["wifi_ssid"] \in Creds \union {Absent}
  /\ flash["wifi_pass"] \in Creds \union {Absent}
  /\ flash["broker_uri"] \in Uris \union {Absent}

StoreTypeOK ==
  /\ FlashOK /\ s_initialized \in BOOLEAN
  /\ \A t \in Tasks : pc[t] # "idle" <=> s_mutex = t
  /\ pc \in [Tasks -> Places]
  /\ arg \in [Tasks -> Creds \union Uris \union {Absent}]
  /\ \A t \in Tasks :
       /\ pc[t] \in {"ssid", "pass"} => arg[t] \in Creds
       /\ pc[t] = "uri" => arg[t] \in Uris
  /\ sound \in BOOLEAN
=============================================================================
