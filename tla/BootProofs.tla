----------------------------- MODULE BootProofs -----------------------------
(***************************************************************************)
(* The safety properties of Boot, for any number of tasks, networks and    *)
(* brokers, with and without rollback.  The store and the images do not    *)
(* touch each other, so each has lemmas of its own; a restart is the one   *)
(* step that changes both.                                                 *)
(***************************************************************************)
EXTENDS Boot, TLAPS

StoreInv == StoreTypeOK /\ PairOfOnePiece

ImageTypeOK ==
  /\ rollback \in BOOLEAN
  /\ at \in PlainSteps \union {"nvs", "config", "load", "verify", "running"}
  /\ running \in Slots /\ boot \in Slots
  /\ image \in [Slots -> Kinds \union {"partial"}]
  /\ state \in [Slots -> {"valid", "new", "pending", "aborted"}]
  /\ ota \in {"wait", "begin", "download", "finish", "reboot", "done"}

ImageInv == ImageTypeOK /\ RestartsIntoNewImage /\ WayBack

SnapshotInv ==
  /\ nvsBad \in BOOLEAN /\ calm \in BOOLEAN
  /\ {sys_cfg.ssid, sys_cfg.pass} \subseteq Creds \union {Empty, Builtin}
  /\ sys_cfg.broker \in Uris \union {Empty, Builtin}
  /\ PassphraseFits /\ SnapshotLives

\* The three groups are the invariant, with the rule that tasks come last.
LEMMA Parts ==
  IInv <=> StoreInv /\ ImageInv /\ SnapshotInv /\ StoreOpens
  BY DEF IInv, TypeOK, StoreInv, ImageInv, ImageTypeOK, SnapshotInv

LEMMA PartsNext ==
  ASSUME StoreInv', ImageInv', SnapshotInv', StoreOpens'
  PROVE  IInv'
  BY DEF IInv, TypeOK, StoreInv, ImageInv, ImageTypeOK, SnapshotInv

-----------------------------------------------------------------------------
\* A call starts, with the mutex.
LEMMA CallKeeps ==
  ASSUME StoreInv, NEW t \in Tasks, NEW place \in {"ssid", "uri", "erase", "id"},
         NEW value \in Creds \union Uris \union {Absent},
         place = "ssid" => value \in Creds, place = "uri" => value \in Uris,
         Call(t, place, value)
  PROVE  StoreInv'
<1>1. StoreTypeOK'
  BY NoTaskAssumption DEF StoreInv, StoreTypeOK, FlashOK, Call, Lock, Places
<1>2. PairOfOnePiece'
  BY DEF StoreInv, StoreTypeOK, PairOfOnePiece, Call
<1> QED BY <1>1, <1>2 DEF StoreInv

\* A call ends, having changed nothing.
LEMMA ReturnKeeps ==
  ASSUME StoreInv, NEW t \in Tasks, pc[t] # "idle", Return(t), UNCHANGED <<flash, sound>>
  PROVE  StoreInv'
<1>1. StoreTypeOK'
  BY NoTaskAssumption DEF StoreInv, StoreTypeOK, FlashOK, Return, Leave, Places
<1>2. PairOfOnePiece'
  BY DEF StoreInv, StoreTypeOK, PairOfOnePiece, Return, Leave
<1> QED BY <1>1, <1>2 DEF StoreInv

\* An erasure cut short leaves keys that were there.
LEMMA PartOfFlash ==
  ASSUME FlashOK, flash' \in PartlyErased
  PROVE  FlashOK' /\ \A k \in Keys : flash'[k] \in {flash[k], Absent}
<1>1. PICK gone \in SUBSET Keys :
        flash' = [k \in Keys |-> IF k \in gone THEN Absent ELSE flash[k]]
  BY DEF PartlyErased
<1> QED BY <1>1 DEF FlashOK, Keys

\* The steps of the setters and of the reset, one task at a time.
LEMMA ProvisionKeeps ==
  ASSUME StoreInv, Provision
  PROVE  StoreInv'
<1> PICK t \in Tasks :
      \/ SetWifi(t) \/ SetBroker(t) \/ Reset(t) \/ GetId(t)
      \/ WriteSsid(t) \/ WritePass(t) \/ WriteUri(t) \/ EraseAll(t) \/ Commit(t)
      \/ ReadId(t)
  BY DEF Provision
<1>a. pc[t] # "idle" => \A u \in Tasks \ {t} : pc[u] = "idle"
  BY DEF StoreInv, StoreTypeOK
<1>b. FlashOK
  BY DEF StoreInv, StoreTypeOK
<1>d. ASSUME NEW key \in Keys, pc[t] # "idle", Fail(t), Put(t, key), sound' \in BOOLEAN, FlashOK',
             PairOfOnePiece'
      PROVE  StoreInv'
  BY <1>d, NoTaskAssumption DEF StoreInv, StoreTypeOK, Fail, Return, Leave, Places
<1>e. ASSUME Fail(t), pc[t] # "idle"
      PROVE  \A u \in Tasks : pc'[u] = "idle"
  BY <1>a, <1>e DEF Fail, Return, Leave, StoreInv, StoreTypeOK
<1>c. /\ pc[t] \in {"ssid", "pass"} => arg[t] \in Creds
      /\ pc[t] = "uri" => arg[t] \in Uris
  BY DEF StoreInv, StoreTypeOK
<1>1. CASE SetWifi(t)
  BY <1>1, CallKeeps DEF SetWifi
<1>2. CASE SetBroker(t)
  BY <1>2, CallKeeps DEF SetBroker
<1>3. CASE Reset(t)
  BY <1>3, CallKeeps DEF Reset
<1>4. CASE WriteSsid(t)
  <2>1. CASE Store(t, "wifi_ssid", "pass") /\ sound' = FALSE
    <3>0. FlashOK'
      <4>1. flash' = [flash EXCEPT !["wifi_ssid"] = arg[t]]
        BY <2>1 DEF Store, Put
      <4>2. arg[t] \in Creds
        BY <1>4, <1>c DEF WriteSsid
      <4> QED BY <1>b, <4>1, <4>2 DEF FlashOK, Keys
    <3>1. StoreTypeOK'
      BY <1>4, <2>1, <3>0 DEF StoreInv, StoreTypeOK, WriteSsid, Store, Places
    <3>2. PairOfOnePiece'
      <4>1. /\ flash \in [Keys -> Creds \union Uris \union {Absent}]
            /\ flash' = [flash EXCEPT !["wifi_ssid"] = arg[t]] /\ arg' = arg
        BY <2>1 DEF Store, Put, StoreInv, StoreTypeOK, FlashOK
      <4>2. \A u \in Tasks : pc'[u] = "pass" => u = t
        BY <1>4, <2>1, <1>a DEF WriteSsid, Store, StoreInv, StoreTypeOK
      <4> QED BY <1>4, <2>1, <4>1, <4>2 DEF StoreInv, PairOfOnePiece, WriteSsid, Store, Keys
    <3> QED BY <3>1, <3>2 DEF StoreInv
  <2>2. CASE Fail(t) /\ UNCHANGED <<flash, sound>>
    BY <1>4, <2>2, ReturnKeeps DEF WriteSsid, Fail
  <2>3. CASE Fail(t) /\ Put(t, "wifi_ssid") /\ sound' = FALSE
    <3>1. FlashOK'
      BY <1>4, <1>b, <1>c, <2>3 DEF FlashOK, Keys, Put, WriteSsid
    <3>2. PairOfOnePiece'
      BY <1>4, <1>e, <2>3 DEF PairOfOnePiece, WriteSsid
    <3> QED BY <1>4, <1>d, <2>3, <3>1, <3>2 DEF WriteSsid, Keys
  <2> QED BY <1>4, <2>1, <2>2, <2>3 DEF WriteSsid
<1>5. CASE WritePass(t)
  <2>1. CASE Store(t, "wifi_pass", "commit") /\ sound' = TRUE
    <3>0. FlashOK'
      <4>1. flash' = [flash EXCEPT !["wifi_pass"] = arg[t]]
        BY <2>1 DEF Store, Put
      <4>2. arg[t] \in Creds
        BY <1>5, <1>c DEF WritePass
      <4> QED BY <1>b, <4>1, <4>2 DEF FlashOK, Keys
    <3>1. StoreTypeOK'
      BY <1>5, <2>1, <3>0 DEF StoreInv, StoreTypeOK, WritePass, Store, Places
    <3>2. PairOfOnePiece'
      <4>1. /\ flash \in [Keys -> Creds \union Uris \union {Absent}]
            /\ flash' = [flash EXCEPT !["wifi_pass"] = arg[t]] /\ arg' = arg
        BY <2>1 DEF Store, Put, StoreInv, StoreTypeOK, FlashOK
      <4>2. \A u \in Tasks : pc'[u] # "pass"
        BY <1>5, <2>1, <1>a DEF WritePass, Store, StoreInv, StoreTypeOK
      <4>3. flash["wifi_ssid"] = arg[t]
        BY <1>5 DEF WritePass, StoreInv, PairOfOnePiece
      <4> QED BY <4>1, <4>2, <4>3 DEF PairOfOnePiece, Keys
    <3> QED BY <3>1, <3>2 DEF StoreInv
  <2>2. CASE Fail(t) /\ UNCHANGED <<flash, sound>>
    BY <1>5, <2>2, ReturnKeeps DEF WritePass, Fail
  <2>3. CASE Fail(t) /\ Put(t, "wifi_pass") /\ sound' = TRUE
    <3>1. FlashOK'
      BY <1>5, <1>b, <1>c, <2>3 DEF FlashOK, Keys, Put, WritePass
    <3>2. flash'["wifi_pass"] = arg[t] /\ flash'["wifi_ssid"] = flash["wifi_ssid"]
      BY <1>b, <2>3 DEF Put, FlashOK, Keys
    <3>3. flash["wifi_ssid"] = arg[t]
      BY <1>5 DEF WritePass, StoreInv, PairOfOnePiece
    <3>4. PairOfOnePiece'
      BY <1>5, <1>e, <2>3, <3>2, <3>3 DEF PairOfOnePiece, WritePass
    <3> QED BY <1>5, <1>d, <2>3, <3>1, <3>4 DEF WritePass, Keys
  <2> QED BY <1>5, <2>1, <2>2, <2>3 DEF WritePass
<1>6. CASE WriteUri(t)
  <2>1. CASE Store(t, "broker_uri", "commit")
    <3>0. FlashOK'
      BY <1>6, <1>b, <1>c, <2>1 DEF Store, Put, FlashOK, Keys, WriteUri
    <3>1. StoreTypeOK'
      BY <1>6, <2>1, <3>0 DEF StoreInv, StoreTypeOK, WriteUri, Store, Places
    <3>2. PairOfOnePiece'
      BY <1>6, <2>1, <1>a, <1>b
      DEF StoreInv, StoreTypeOK, FlashOK, PairOfOnePiece, WriteUri, Store, Put, Keys
    <3> QED BY <3>1, <3>2 DEF StoreInv
  <2>2. CASE Fail(t) /\ UNCHANGED flash
    BY <1>6, <2>2, ReturnKeeps DEF WriteUri, Fail
  <2>3. CASE Fail(t) /\ Put(t, "broker_uri")
    <3>1. FlashOK'
      BY <1>6, <1>b, <1>c, <2>3 DEF FlashOK, Keys, Put, WriteUri
    <3>2. flash'["wifi_ssid"] = flash["wifi_ssid"] /\ flash'["wifi_pass"] = flash["wifi_pass"]
      BY <1>b, <2>3 DEF Put, FlashOK, Keys
    <3>3. PairOfOnePiece'
      BY <1>6, <1>e, <2>3, <3>2 DEF PairOfOnePiece, StoreInv, WriteUri
    <3>4. sound' \in BOOLEAN
      BY <1>6 DEF WriteUri, StoreInv, StoreTypeOK
    <3> QED BY <1>6, <1>d, <2>3, <3>1, <3>3, <3>4 DEF WriteUri, Keys
  <2> QED BY <1>6, <2>1, <2>2, <2>3 DEF WriteUri
<1>7. CASE EraseAll(t)
  <2>1. CASE /\ flash' = Erased /\ sound' = TRUE
             /\ pc' = [pc EXCEPT ![t] = "commit"] /\ UNCHANGED <<s_initialized, s_mutex, arg>>
    <3>0. FlashOK'
      BY <2>1 DEF FlashOK, Erased, Keys
    <3>1. StoreTypeOK'
      BY <1>7, <2>1, <3>0 DEF StoreInv, StoreTypeOK, EraseAll, Places
    <3>2. PairOfOnePiece'
      BY <1>7, <2>1, <1>a DEF StoreInv, StoreTypeOK, PairOfOnePiece, EraseAll, Erased, Keys
    <3> QED BY <3>1, <3>2 DEF StoreInv
  <2>2. CASE flash' \in PartlyErased /\ UNCHANGED sound /\ Fail(t)
    <3>0. FlashOK' /\ \A k \in Keys : flash'[k] \in {flash[k], Absent}
      BY <2>2, PartOfFlash DEF StoreInv, StoreTypeOK
    <3>1. StoreTypeOK'
      BY <1>7, <2>2, <3>0, NoTaskAssumption
      DEF StoreInv, StoreTypeOK, EraseAll, Fail, Return, Leave, Places
    <3>2. PairOfOnePiece'
      BY <1>7, <1>e, <2>2, <3>0 DEF StoreInv, PairOfOnePiece, EraseAll, Keys
    <3> QED BY <3>1, <3>2 DEF StoreInv
  <2> QED BY <1>7, <2>1, <2>2 DEF EraseAll
<1>8. CASE Commit(t)
  BY <1>8, ReturnKeeps DEF Commit
<1>9. CASE GetId(t)
  BY <1>9, CallKeeps DEF GetId
<1>10. CASE ReadId(t)
  BY <1>10, ReturnKeeps DEF ReadId
<1> QED BY <1>1, <1>2, <1>3, <1>4, <1>5, <1>6, <1>7, <1>8, <1>9, <1>10

\* No call opens or closes the store.
LEMMA ProvisionLeavesOpen == Provision => UNCHANGED s_initialized
BY DEF Provision, SetWifi, SetBroker, Reset, GetId, WriteSsid, WritePass, WriteUri, EraseAll, Commit,
       ReadId, Call, Store, Put, Fail, Return

\* A restart leaves the store idle; if it cut an erasure, keys are missing.
LEMMA CutKeeps ==
  ASSUME StoreInv, NEW wiping \in BOOLEAN, StoreCut(wiping)
  PROVE  StoreInv' /\ s_mutex' = NoTask /\ s_initialized' = FALSE
<1>1. flash' = flash \/ flash' \in PartlyErased
  BY DEF StoreCut
<1>2. FlashOK' /\ \A k \in Keys : flash'[k] \in {flash[k], Absent}
  BY <1>1, PartOfFlash DEF StoreInv, StoreTypeOK, FlashOK
<1>3. StoreTypeOK'
  BY <1>2, NoTaskAssumption DEF StoreInv, StoreTypeOK, StoreCut, Places
<1>4. PairOfOnePiece'
  BY <1>2 DEF StoreInv, PairOfOnePiece, StoreCut, Keys
<1> QED BY <1>3, <1>4 DEF StoreInv, StoreCut

-----------------------------------------------------------------------------
\* A restart runs the slot to start next, or goes back to one that is whole.
LEMMA RestartKeepsImages ==
  ASSUME ImageInv, Restart
  PROVE  ImageInv'
<1>a. /\ running \in {0, 1} /\ boot \in {0, 1}
      /\ boot = running \/ boot = 1 - running
  BY DEF ImageInv, ImageTypeOK, Slots
<1>1. CASE state[boot] = "pending"
  <2>1. boot = running /\ ota # "reboot"
    BY <1>1 DEF ImageInv, WayBack
  <2>2. ImageTypeOK'
    BY <1>1, <1>a DEF ImageInv, ImageTypeOK, Restart, Bootloader, Slots
  <2>3. RestartsIntoNewImage' /\ WayBack'
    BY <1>1, <1>a, <2>1
    DEF ImageInv, ImageTypeOK, RestartsIntoNewImage, WayBack, Restart, Bootloader, Slots, Passive,
        OnTrial
  <2> QED BY <2>2, <2>3 DEF ImageInv
<1>2. CASE state[boot] # "pending"
  <2>1. ImageTypeOK'
    BY <1>2, <1>a DEF ImageInv, ImageTypeOK, Restart, Bootloader, Slots
  <2>2. CASE ota = "reboot"
    <3>1. boot = 1 - running /\ state[running] \notin OnTrial
      BY <2>2 DEF ImageInv, RestartsIntoNewImage, WayBack, Passive, OnTrial
    <3>2. RestartsIntoNewImage' /\ WayBack'
      BY <1>2, <1>a, <3>1
      DEF ImageInv, ImageTypeOK, RestartsIntoNewImage, WayBack, Restart, Bootloader, Slots, Passive,
          OnTrial
    <3> QED BY <2>1, <3>2 DEF ImageInv
  <2>3. CASE ota # "reboot"
    <3>1. boot = running /\ state[1 - running] \notin OnTrial /\ state[running] \notin OnTrial
      BY <1>2, <2>3 DEF ImageInv, WayBack, Passive, OnTrial
    <3>2. RestartsIntoNewImage' /\ WayBack'
      BY <1>2, <1>a, <3>1
      DEF ImageInv, ImageTypeOK, RestartsIntoNewImage, WayBack, Restart, Bootloader, Slots, Passive,
          OnTrial
    <3> QED BY <2>1, <3>2 DEF ImageInv
  <2> QED BY <2>2, <2>3
<1> QED BY <1>1, <1>2

\* Every kind of restart.
LEMMA RestartKeeps ==
  ASSUME IInv, Restart
  PROVE  IInv'
<1>1. StoreInv' /\ StoreOpens'
  BY CutKeeps, Parts DEF Restart, StoreOpens, Wiping, SnapshotInv
<1>2. ImageInv'
  BY RestartKeepsImages, Parts
<1>3. SnapshotInv'
  BY Parts DEF SnapshotInv, PassphraseFits, SnapshotLives, Restart, Nothing
<1> QED BY <1>1, <1>2, <1>3, PartsNext

\* A step of app_main that leaves the images alone, or confirms the one that runs.
LEMMA BootKeepsImages ==
  ASSUME ImageInv, at \in PlainSteps \union {"nvs", "config", "load", "verify"}, at' = After(at),
         UNCHANGED <<running, boot, image, rollback, ota>>,
         state' = state \/ state' = [state EXCEPT ![running] = "valid"]
  PROVE  ImageInv'
<1>1. at' \in PlainSteps \union {"nvs", "config", "load", "verify", "running"}
  BY DEF After, PlainSteps
<1>2. ImageTypeOK'
  BY <1>1 DEF ImageInv, ImageTypeOK, Slots
<1>3. at # "running" /\ ota = "wait"
  BY DEF PlainSteps, ImageInv, WayBack
<1>4. RestartsIntoNewImage' /\ WayBack'
  BY <1>3 DEF ImageInv, ImageTypeOK, RestartsIntoNewImage, WayBack, Slots, Passive, OnTrial
<1> QED BY <1>2, <1>4 DEF ImageInv

\* A step of the update, which nothing else takes part in.
LEMMA OtaKeeps ==
  ASSUME IInv, WaitForNetwork \/ OtaBegin \/ OtaDownload \/ OtaFinish
  PROVE  IInv'
<1> USE DEF OtaStep
<1>a. UNCHANGED <<storeVars, rollback, at, sys_cfg, nvsBad, calm>> /\ at = "running"
  BY DEF WaitForNetwork, OtaBegin, OtaDownload, OtaFinish
<1>b. ImageInv /\ running \in {0, 1}
  BY Parts DEF ImageInv, ImageTypeOK, Slots
<1>1. ImageInv'
  <2>1. ImageTypeOK'
    BY <1>a, <1>b DEF ImageInv, ImageTypeOK, Slots, Passive, Kinds, imageVars, WaitForNetwork,
       OtaBegin, OtaDownload, OtaFinish, AfterFinish, EndTask
  <2>2. CASE WaitForNetwork
    BY <1>a, <1>b, <2>1, <2>2
    DEF ImageInv, RestartsIntoNewImage, WayBack, Passive, imageVars, WaitForNetwork
  <2>3. CASE OtaBegin
    <3>1. RestartsIntoNewImage' /\ WayBack'
      BY <1>a, <1>b, <2>3
      DEF ImageInv, ImageTypeOK, Slots, RestartsIntoNewImage, WayBack, Passive, imageVars, OtaBegin,
         EndTask
    <3> QED BY <2>1, <3>1 DEF ImageInv
  <2>4. CASE OtaDownload
    <3>1. RestartsIntoNewImage' /\ WayBack'
      BY <1>a, <1>b, <2>4
      DEF ImageInv, ImageTypeOK, Slots, RestartsIntoNewImage, WayBack, Passive, OtaDownload, EndTask
    <3> QED BY <2>1, <3>1 DEF ImageInv
  <2>5. CASE OtaFinish
    <3>1. RestartsIntoNewImage' /\ WayBack'
      BY <1>a, <1>b, <2>5
      DEF ImageInv, ImageTypeOK, Slots, RestartsIntoNewImage, WayBack, Passive, OnTrial, OtaFinish,
          AfterFinish, EndTask
    <3> QED BY <2>1, <3>1 DEF ImageInv
  <2> QED BY <2>2, <2>3, <2>4, <2>5
<1>2. StoreInv' /\ SnapshotInv' /\ StoreOpens'
  BY <1>a, Parts DEF StoreInv, StoreTypeOK, FlashOK, PairOfOnePiece, SnapshotInv, PassphraseFits, SnapshotLives,
         storeVars, StoreOpens
<1> QED BY <1>1, <1>2, PartsNext

-----------------------------------------------------------------------------
\* The board out of the box satisfies the invariant.
THEOREM InvInit == Init => IInv
<1> SUFFICES ASSUME Init PROVE IInv
  OBVIOUS
<1>1. StoreInv
  BY NoTaskAssumption
  DEF Init, StoreInit, StoreInv, StoreTypeOK, FlashOK, PairOfOnePiece, Erased, Keys, Places
<1>2. ImageInv
  BY DEF Init, ImageInv, ImageTypeOK, RestartsIntoNewImage, WayBack, PlainSteps, Slots, Kinds,
         Passive, OnTrial
<1>3. SnapshotInv
  BY DEF Init, SnapshotInv, PassphraseFits, SnapshotLives, Nothing
<1>4. StoreOpens
  BY DEF Init, StoreInit, StoreOpens
<1> QED BY <1>1, <1>2, <1>3, <1>4, Parts

\* Every step preserves the invariant.
THEOREM InvNext == IInv /\ [Next]_vars => IInv'
<1> SUFFICES ASSUME IInv, [Next]_vars PROVE IInv'
  OBVIOUS
<1>a. StoreInv /\ ImageInv /\ SnapshotInv
  BY Parts
<1>1. CASE InitNvs
  <2>1. ImageInv'
    BY <1>1, <1>a, BootKeepsImages DEF InitNvs, imageVars
  <2>2. StoreInv' /\ StoreOpens'
    <3>1. s_mutex = NoTask /\ \A t \in Tasks : pc[t] = "idle"
      BY <1>1, <1>a, Parts, NoTaskAssumption DEF InitNvs, StoreInv, StoreTypeOK, StoreOpens
    <3> QED BY <1>1, <1>a, <3>1, Parts
            DEF InitNvs, Wiping, StoreWiped, StoreInv, StoreTypeOK, FlashOK, PairOfOnePiece, storeVars,
                Erased, Keys, StoreOpens, After
  <2>3. SnapshotInv'
    <3>1. at = "nvs" /\ at' = "log" /\ sys_cfg = Nothing /\ sys_cfg' = Nothing
      BY <1>1, <1>a DEF InitNvs, After, SnapshotInv, SnapshotLives
    <3>2. nvsBad' \in BOOLEAN /\ calm' \in BOOLEAN
      BY <1>1, <1>a DEF InitNvs, SnapshotInv
    <3> QED BY <3>1, <3>2 DEF SnapshotInv, PassphraseFits, SnapshotLives, Nothing
  <2> QED BY <2>1, <2>2, <2>3, PartsNext
<1>2. CASE Proceed
  <2>1. ImageInv'
    BY <1>2, <1>a, BootKeepsImages DEF Proceed, imageVars
  <2>2. StoreInv' /\ StoreOpens'
    BY <1>2, <1>a, Parts
    DEF Proceed, PlainSteps, StoreInv, StoreTypeOK, FlashOK, PairOfOnePiece, storeVars, StoreOpens,
        After
  <2>3. SnapshotInv'
    BY <1>2, <1>a DEF Proceed, SnapshotInv, PassphraseFits, SnapshotLives, Nothing, storeVars, PlainSteps, After
  <2> QED BY <2>1, <2>2, <2>3, PartsNext
<1>3. CASE Load
  <2>1. ImageInv'
    BY <1>3, <1>a, BootKeepsImages DEF Load, imageVars
  <2>2. StoreInv' /\ StoreOpens'
    BY <1>3, <1>a, Parts
    DEF Load, StoreInv, StoreTypeOK, FlashOK, PairOfOnePiece, storeVars, StoreOpens, After
  <2>3. SnapshotInv'
    <3>1. PICK unread \in SUBSET Keys :
            sys_cfg' = Inject([ssid   |-> Resolve("wifi_ssid", "wifi_ssid" \notin unread),
                               pass   |-> Resolve("wifi_pass", "wifi_pass" \notin unread),
                               broker |-> Resolve("broker_uri", "broker_uri" \notin unread)])
      BY <1>3 DEF Load
    <3> DEFINE ssid   == Resolve("wifi_ssid", "wifi_ssid" \notin unread)
               pass   == Resolve("wifi_pass", "wifi_pass" \notin unread)
               broker == Resolve("broker_uri", "broker_uri" \notin unread)
    <3>2. /\ {ssid, pass} \subseteq Creds \union {Empty} /\ broker \in Uris \union {Empty}
          /\ sound /\ ssid # Empty => pass \in {ssid, Empty}
      BY <1>a DEF Resolve, StoreInv, StoreTypeOK, FlashOK, PairOfOnePiece
    <3> HIDE DEF ssid, pass, broker
    <3>3. sys_cfg' = IF ssid = Empty THEN [ssid |-> Builtin, pass |-> Builtin, broker |-> Builtin]
                     ELSE [ssid |-> ssid, pass |-> pass, broker |-> broker]
      BY <3>1 DEF Inject, ssid, pass, broker
    <3>4. at' = "verify" /\ sound' = sound /\ UNCHANGED <<nvsBad, calm>>
      BY <1>3 DEF Load, After, storeVars
    <3> QED BY <1>a, <3>2, <3>3, <3>4 DEF SnapshotInv, PassphraseFits, SnapshotLives
  <2> QED BY <2>1, <2>2, <2>3, PartsNext
<1>4. CASE Verify
  <2>1. ImageInv'
    BY <1>4, <1>a, BootKeepsImages DEF Verify, imageVars
  <2>2. StoreInv' /\ StoreOpens'
    BY <1>4, <1>a, Parts
    DEF Verify, StoreInv, StoreTypeOK, FlashOK, PairOfOnePiece, storeVars, StoreOpens, After
  <2>3. SnapshotInv'
    BY <1>4, <1>a DEF Verify, SnapshotInv, PassphraseFits, SnapshotLives, storeVars, After
  <2> QED BY <2>1, <2>2, <2>3, PartsNext
<1>10. CASE OpenStore
  <2>1. ImageInv'
    BY <1>10, <1>a, BootKeepsImages DEF OpenStore, imageVars
  <2>2. StoreInv' /\ SnapshotInv'
    BY <1>10, <1>a
    DEF OpenStore, system_config_init, StoreInv, StoreTypeOK, FlashOK, PairOfOnePiece, SnapshotInv,
        PassphraseFits, SnapshotLives, After
  <2>3. StoreOpens'
    BY <1>10, Parts DEF OpenStore, system_config_init, StoreOpens, After
  <2> QED BY <2>1, <2>2, <2>3, PartsNext
<1>5. CASE Crash \/ Fault \/ PowerCut \/ OtaReboot
  BY <1>5, RestartKeeps DEF Crash, Fault, PowerCut, OtaReboot
<1>6. CASE CalmDown
  <2>1. StoreInv' /\ ImageInv' /\ SnapshotInv'
    BY <1>6, <1>a
    DEF CalmDown, StoreInv, StoreTypeOK, FlashOK, PairOfOnePiece, ImageInv, ImageTypeOK,
        RestartsIntoNewImage, WayBack, Passive, SnapshotInv, PassphraseFits, SnapshotLives, storeVars, imageVars
  <2>2. StoreOpens'
    BY <1>6, Parts DEF CalmDown, storeVars, StoreOpens
  <2> QED BY <2>1, <2>2, PartsNext
<1>7. CASE WaitForNetwork \/ OtaBegin \/ OtaDownload \/ OtaFinish
  BY <1>7, OtaKeeps
<1>8. CASE StoreStep
  <2>1. StoreInv'
    BY <1>8, <1>a, ProvisionKeeps DEF StoreStep
  <2>2. ImageInv' /\ SnapshotInv'
    BY <1>8, <1>a
    DEF StoreStep, ImageInv, ImageTypeOK, RestartsIntoNewImage, WayBack, Passive, SnapshotInv,
        PassphraseFits, SnapshotLives, Nothing, imageVars
  <2>3. StoreOpens'
    BY <1>8, Parts, ProvisionLeavesOpen DEF StoreStep, StoreOpens
  <2> QED BY <2>1, <2>2, <2>3, PartsNext
<1>9. CASE UNCHANGED vars
  <2>1. StoreInv' /\ ImageInv' /\ SnapshotInv'
    BY <1>9, <1>a
    DEF vars, StoreInv, StoreTypeOK, FlashOK, PairOfOnePiece, ImageInv, ImageTypeOK,
        RestartsIntoNewImage, WayBack, Passive, SnapshotInv, PassphraseFits, SnapshotLives, storeVars, imageVars
  <2>2. StoreOpens'
    BY <1>9, Parts DEF vars, storeVars, StoreOpens
  <2> QED BY <2>1, <2>2, PartsNext
<1> QED BY <1>1, <1>2, <1>3, <1>4, <1>5, <1>6, <1>7, <1>8, <1>9, <1>10 DEF Next, BootStep

\* The invariant holds for ever, whatever fails.
THEOREM Invariance == Spec => []IInv
BY InvInit, InvNext, PTL DEF Spec

\* The variables keep their types, and the mutex follows the calls.
THEOREM TypeCorrect == Spec => []TypeOK
BY Invariance, PTL DEF IInv

\* The transport is given the passphrase stored with the name, or none, unless a
\* set_wifi that failed or was cut between its two writes has not been made good
\* (PassphraseFits): whatever else fails or is cut, the erasures too.
THEOREM NoForeignPassphrase == Spec => []PassphraseFits
BY Invariance, PTL DEF IInv

\* The slot to start next is whole, and an update restarts only into its own image.
THEOREM WholeImages == Spec => []RestartsIntoNewImage
BY Invariance, PTL DEF IInv

\* An image on trial always has a whole image to go back to.
THEOREM TrialHasWayBack == Spec => [](state[running] = "pending" => image[Passive] # "partial")
BY Invariance, PTL DEF IInv, WayBack
=============================================================================
