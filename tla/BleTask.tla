------------------------------ MODULE BleTask ------------------------------
(***************************************************************************)
(* The BLE task of src/BleTask.c with the parts it shares state with: the  *)
(* advertiser (Advertisement.tla), the system work queue that runs         *)
(* QueuedUpdateAdvertisement, the connection callbacks of the Bluetooth    *)
(* receive thread, the five kernel timers whose interrupt handlers post to *)
(* the task, and the attributes a reboot starts from.                      *)
(*                                                                         *)
(* The task is preemptible and the receive thread is not: a callback can   *)
(* come between any two statements of a handler.  A handler is one step    *)
(* where the order of the two cannot be told apart.  Two are cut: entering *)
(* active mode where it blocks in the HCI before it arms its timer, and    *)
(* the sensor update between its look at the event queue and its blocking  *)
(* take.  The connected callback is cut where it blocks to set the         *)
(* transmit power, the work item where it blocks to install the data.      *)
(*                                                                         *)
(* A definition named Mutant... is the one below it with a slip a          *)
(* programmer could make; no specification uses it.                        *)
(***************************************************************************)
EXTENDS Advertisement, Sequences, FiniteSets

CONSTANTS QueueDepth,    \* BLE_TASK_QUEUE_DEPTH
          AdvertDepth,   \* BLE_TASK_ADVERT_QUEUE_SIZE
          PoolMayFail,   \* whether BufferPool_Take can find the pool exhausted
          MaxStimuli     \* bound: how often the environment acts

ASSUME BleTaskAssumption ==
  /\ QueueDepth \in Nat \ {0}
  /\ AdvertDepth \in Nat \ {0}
  /\ PoolMayFail \in BOOLEAN
  /\ MaxStimuli \in Nat

VARIABLES
  attr,      \* the attributes: active_mode, advertising_phy, boot_phy, mobile_app_disconnect
  ble,       \* bto and where the task is
  timers,    \* the running timers
  bleQ,      \* bleTaskQueue
  lost,      \* history: a message to the task was dropped
  advertQ,   \* ble_task_advert_queue, the ids of the events
  adv,       \* the advertiser
  work,      \* ad_update_work_item
  shown,     \* enc_ad.id, 0 before the first event
  nextId,    \* event_task_event_id
  btPc,      \* where the connected callback is
  closing,   \* bt_conn_disconnect was called, the callback has not come yet
  upload,    \* history: PHY of the connection a new image came over, until the reboot
  stimuli    \* how often the environment has acted

vars == <<attr, ble, timers, bleQ, lost, advertQ, adv, work, shown, nextId, btPc, closing, upload, stimuli>>

Timers == {"duration", "boot", "enterActive", "upgrade", "app"}
Codes  == {"START", "END", "END_CONNECTION", "EVENT", "UPDATE", "ENTER_ACTIVE",
           "ATTR_DATA", "ATTR_INTERVAL", "ATTR_PHY", "ATTR_DISCONNECT"}

Attributes == [active : BOOLEAN, phy : Phy, bootPhy : {"Default"} \cup Phy, appDisc : BOOLEAN]
BleTaskObj == [active : BOOLEAN, cfgPhy : Phy, conn : BOOLEAN, durLeft : BOOLEAN,
               connCoded : BOOLEAN, pc : {"receive", "arm", "take"}]
WorkItem   == [pending : BOOLEAN, running : BOOLEAN, event : Nat]

Message == [code : Codes, id : Nat]

Msg(code) == [code |-> code, id |-> 0]

HasMsg(code) == \E i \in DOMAIN bleQ : bleQ[i].code = code

----------------------------------------------------------------------------
(* Messages                                                                *)

\* What is left of the messages a handler sends when the pool or the queue gives out.
Fragments(ms) == {<<>>} \cup (IF Len(ms) > 1 THEN {<<ms[i]>> : i \in DOMAIN ms} ELSE {})

\* FRAMEWORK_MSG_CREATE_AND_SEND of each of ms to the task, whose queue is q: a message
\* that finds no buffer or no room is dropped, and the sender is not told.
Post(q, ms) ==
  \/ /\ Len(q) + Len(ms) <= QueueDepth
     /\ bleQ' = q \o ms
     /\ UNCHANGED lost
  \/ /\ ms # <<>> /\ (PoolMayFail \/ Len(q) + Len(ms) > QueueDepth)
     /\ \E some \in Fragments(ms) : Len(q) + Len(some) <= QueueDepth /\ bleQ' = q \o some
     /\ lost' = TRUE

\* The task is at the top of its loop and the first message has this code.
Receives(code) == ble.pc = "receive" /\ bleQ # <<>> /\ Head(bleQ).code = code

\* Bound on the environment; every finite behaviour is within some value of MaxStimuli.
Stimulus == stimuli < MaxStimuli /\ stimuli' = stimuli + 1

\* Advertisement_Update: the one work item takes the event (0 for the dummy) and is queued.
Advertisement_Update(id) == work' = [work EXCEPT !.pending = TRUE, !.event = id]

----------------------------------------------------------------------------
(* Start-up                                                                *)

\* A boot PHY wins for the first 30 s; otherwise shelf mode starts on 1M and active mode
\* on the configured PHY.
BootAdvertiser(at) ==
  LET a == Advertisement_IntervalUpdate(Advertisement_Init(at.phy))
  IN  Advertisement_Start(
        IF at.bootPhy # "Default" THEN Advertisement_ExtendedSet(a, at.bootPhy)
        ELSE IF ~at.active THEN Advertisement_ExtendedSet(a, "1M")
        ELSE a)

BootTimers(at) ==
  IF at.bootPhy # "Default" THEN {"upgrade"} ELSE IF ~at.active THEN {"boot"} ELSE {}

BootTask(at) ==
  [active |-> at.active, cfgPhy |-> at.phy, conn |-> FALSE, durLeft |-> FALSE,
   connCoded |-> FALSE, pc |-> "receive"]

\* Flags_Set(FLAG_ACTIVE_MODE) changes the bluetooth_flags attribute, which is broadcast.
BootQueue(at) == IF at.active THEN <<Msg("ATTR_DATA")>> ELSE <<>>

NoWork == [pending |-> FALSE, running |-> FALSE, event |-> 0]

Init ==
  /\ \E active \in BOOLEAN, phy \in Phy, bootPhy \in {"Default"} \cup Phy :
       LET at == [active |-> active, phy |-> phy, bootPhy |-> bootPhy, appDisc |-> FALSE]
       IN  /\ attr = [at EXCEPT !.bootPhy = "Default"]
           /\ adv = BootAdvertiser(at)
           /\ ble = BootTask(at)
           /\ timers = BootTimers(at)
           /\ bleQ = BootQueue(at)
  /\ lost = FALSE
  /\ advertQ = <<>>
  /\ work = NoWork
  /\ shown = 0
  /\ nextId = 1
  /\ btPc = "idle"
  /\ closing = FALSE
  /\ upload = "None"
  /\ stimuli = 0

\* A reset: the attributes survive, everything else starts over and boot_phy is used up.
Boot ==
  /\ attr' = [attr EXCEPT !.bootPhy = "Default", !.appDisc = FALSE]
  /\ adv' = BootAdvertiser(attr)
  /\ ble' = BootTask(attr)
  /\ timers' = BootTimers(attr)
  /\ bleQ' = BootQueue(attr)
  /\ lost' = FALSE
  /\ advertQ' = <<>>
  /\ work' = NoWork
  /\ shown' = 0
  /\ nextId' = 1
  /\ btPc' = "idle"
  /\ closing' = FALSE
  /\ upload' = "None"

----------------------------------------------------------------------------
(* The message handlers                                                    *)

StartAdvertisingMsgHandler ==
  /\ Receives("START")
  /\ bleQ' = Tail(bleQ)
  /\ adv' = Advertisement_Start(Advertisement_IntervalUpdate(
              IF ble.active THEN Advertisement_ExtendedSet(adv, ble.cfgPhy) ELSE adv))
  /\ timers' = timers \cup
       (IF ~ble.active THEN {"boot"} ELSE IF ble.durLeft THEN {"duration"} ELSE {})
  /\ UNCHANGED <<attr, ble, lost, advertQ, work, shown, nextId, btPc, closing, upload, stimuli>>

EndAdvertisingMsgHandler ==
  /\ Receives("END")
  /\ bleQ' = Tail(bleQ)
  /\ adv' = Advertisement_End(adv)
  /\ UNCHANGED <<attr, ble, timers, lost, advertQ, work, shown, nextId, btPc, closing, upload, stimuli>>

\* The broadcast of sensor_name, network_id, config_version or bluetooth_flags.
DataAttrChanged ==
  /\ Receives("ATTR_DATA")
  /\ bleQ' = Tail(bleQ)
  /\ Advertisement_Update(0)
  /\ UNCHANGED <<attr, ble, timers, lost, advertQ, adv, shown, nextId, btPc, closing, upload, stimuli>>

IntervalAttrChanged ==
  /\ Receives("ATTR_INTERVAL")
  /\ bleQ' = Tail(bleQ)
  /\ adv' = Advertisement_IntervalUpdate(adv)
  /\ UNCHANGED <<attr, ble, timers, lost, advertQ, work, shown, nextId, btPc, closing, upload, stimuli>>

\* The value is read when the message is handled; shelf mode keeps its PHY.
PhyAttrChanged ==
  /\ Receives("ATTR_PHY")
  /\ bleQ' = Tail(bleQ)
  /\ ble' = [ble EXCEPT !.cfgPhy = attr.phy]
  /\ adv' = IF ble.active THEN Advertisement_ExtendedSet(adv, attr.phy) ELSE adv
  /\ UNCHANGED <<attr, timers, lost, advertQ, work, shown, nextId, btPc, closing, upload, stimuli>>

\* StartDisconnectTimer, whether or not a central is connected.
DisconnectAttrChanged ==
  /\ Receives("ATTR_DISCONNECT")
  /\ bleQ' = Tail(bleQ)
  /\ timers' = timers \cup (IF attr.appDisc THEN {"app"} ELSE {})
  /\ UNCHANGED <<attr, ble, lost, advertQ, adv, work, shown, nextId, btPc, closing, upload, stimuli>>

MutantPeek == advertQ
EventsAfterTake == Tail(advertQ)

\* While the duration timer runs the message only says that an event was stored.  Once it
\* has expired the task looks whether there is an event to take.
BleSensorUpdateMsgHandler ==
  /\ Receives("UPDATE")
  /\ bleQ' = Tail(bleQ)
  /\ LET due == ble.active /\ "duration" \notin timers
     IN  /\ ble' = [ble EXCEPT !.pc = IF due /\ advertQ # <<>> THEN "take" ELSE "receive"]
         /\ timers' = timers \cup (IF due /\ advertQ = <<>> THEN {"duration"} ELSE {})
  /\ UNCHANGED <<attr, lost, advertQ, adv, work, shown, nextId, btPc, closing, upload, stimuli>>

\* k_msgq_get(..., K_FOREVER) and the rest of the handler: it waits for an event if a
\* disconnection has purged the queue since the look at it.
TakeEvent ==
  /\ ble.pc = "take"
  /\ advertQ # <<>>
  /\ ble' = [ble EXCEPT !.pc = "receive"]
  /\ Advertisement_Update(Head(advertQ))
  /\ advertQ' = EventsAfterTake
  /\ timers' = timers \cup {"duration"}
  /\ UNCHANGED <<attr, bleQ, lost, adv, shown, nextId, btPc, closing, upload, stimuli>>

MutantNoSever ==
  /\ Receives("END_CONNECTION")
  /\ bleQ' = Tail(bleQ)
  /\ UNCHANGED <<attr, ble, timers, lost, advertQ, adv, work, shown, nextId, btPc, closing, upload, stimuli>>

SeverConnectionHandler ==
  /\ Receives("END_CONNECTION")
  /\ bleQ' = Tail(bleQ)
  /\ closing' = (closing \/ ble.conn)
  /\ UNCHANGED <<attr, ble, timers, lost, advertQ, adv, work, shown, nextId, btPc, upload, stimuli>>

MutantOneTooMany == Len(advertQ) <= AdvertDepth
EventQueueHasRoom == Len(advertQ) < AdvertDepth

MutantNewestFirst(e) == <<e>> \o advertQ
EventsAfterStore(e) == Append(advertQ, e)

\* An event that finds the queue full, shelf mode or a connection goes no further.
BleSensorEventMsgHandler ==
  /\ Receives("EVENT")
  /\ IF ble.active /\ ~ble.conn /\ EventQueueHasRoom
     THEN /\ advertQ' = EventsAfterStore(Head(bleQ).id)
          /\ Post(Tail(bleQ), <<Msg("UPDATE")>>)
     ELSE bleQ' = Tail(bleQ) /\ UNCHANGED <<advertQ, lost>>
  /\ UNCHANGED <<attr, ble, timers, adv, work, shown, nextId, btPc, closing, upload, stimuli>>

\* Without a connection: restart on 1M at the default interval, then arm the 30 s timer.
BleEnterActiveModeMsgHandler ==
  /\ Receives("ENTER_ACTIVE")
  /\ bleQ' = Tail(bleQ)
  /\ ble' = [ble EXCEPT !.active = TRUE, !.pc = IF ble.conn THEN "receive" ELSE "arm"]
  /\ IF ble.conn
     THEN UNCHANGED <<timers, adv>>
     ELSE /\ timers' = timers \ {"boot"}
          /\ adv' = Advertisement_Start(Advertisement_IntervalDefault(
                      Advertisement_ExtendedSet(Advertisement_End(adv), "1M")))
  /\ UNCHANGED <<attr, lost, advertQ, work, shown, nextId, btPc, closing, upload, stimuli>>

ArmEnterActiveModeTimer ==
  /\ ble.pc = "arm"
  /\ ble' = [ble EXCEPT !.pc = "receive"]
  /\ timers' = timers \cup {"enterActive"}
  /\ UNCHANGED <<attr, bleQ, lost, advertQ, adv, work, shown, nextId, btPc, closing, upload, stimuli>>

----------------------------------------------------------------------------
(* The timers' interrupt handlers                                          *)

MutantSilentExpiry ==
  /\ "duration" \in timers
  /\ timers' = timers \ {"duration"}
  /\ UNCHANGED <<attr, ble, bleQ, lost, advertQ, adv, work, shown, nextId, btPc, closing, upload, stimuli>>

DurationTimerCallbackIsr ==
  /\ "duration" \in timers
  /\ timers' = timers \ {"duration"}
  /\ Post(bleQ, <<Msg("UPDATE")>>)
  /\ UNCHANGED <<attr, ble, advertQ, adv, work, shown, nextId, btPc, closing, upload, stimuli>>

BootAdvertTimerCallbackIsr ==
  /\ "boot" \in timers
  /\ timers' = timers \ {"boot"}
  /\ IF ble.active THEN UNCHANGED <<bleQ, lost>> ELSE Post(bleQ, <<Msg("END")>>)
  /\ UNCHANGED <<attr, ble, advertQ, adv, work, shown, nextId, btPc, closing, upload, stimuli>>

EnterActiveModeTimerCallbackIsr ==
  /\ "enterActive" \in timers
  /\ timers' = timers \ {"enterActive"}
  /\ Post(bleQ, <<Msg("START")>>)
  /\ UNCHANGED <<attr, ble, advertQ, adv, work, shown, nextId, btPc, closing, upload, stimuli>>

MutantEndOnly == <<Msg("END")>>
AfterUpgradeWindow == IF ble.active THEN <<Msg("END"), Msg("START")>> ELSE <<Msg("END")>>

upgrade_advert_phy_timer_callback_isr ==
  /\ "upgrade" \in timers
  /\ timers' = timers \ {"upgrade"}
  /\ Post(bleQ, AfterUpgradeWindow)
  /\ UNCHANGED <<attr, ble, advertQ, adv, work, shown, nextId, btPc, closing, upload, stimuli>>

AppDisconnectCallbackIsr ==
  /\ "app" \in timers
  /\ timers' = timers \ {"app"}
  /\ Post(bleQ, <<Msg("END_CONNECTION")>>)
  /\ UNCHANGED <<attr, ble, advertQ, adv, work, shown, nextId, btPc, closing, upload, stimuli>>

----------------------------------------------------------------------------
(* The system work queue                                                   *)

\* The work item leaves the queue, reads the event and stops the advertiser.
QueuedUpdateAdvertisement ==
  /\ work.pending /\ ~work.running
  /\ work' = [work EXCEPT !.pending = FALSE, !.running = TRUE]
  /\ shown' = IF work.event = 0 THEN shown ELSE work.event
  /\ adv' = UpdateBefore(adv)
  /\ UNCHANGED <<attr, ble, timers, bleQ, lost, advertQ, nextId, btPc, closing, upload, stimuli>>

\* The data is installed; the advertiser starts again.
QueuedUpdateDone ==
  /\ work.running
  /\ work' = [work EXCEPT !.running = FALSE]
  /\ adv' = UpdateAfter(adv)
  /\ UNCHANGED <<attr, ble, timers, bleQ, lost, advertQ, shown, nextId, btPc, closing, upload, stimuli>>

----------------------------------------------------------------------------
(* The connection callbacks, in the Bluetooth receive thread               *)

\* AdvConnected, then ConnectedCallback up to the HCI command in TransmitPower.
ConnectedCallback ==
  /\ btPc = "idle"
  /\ adv.advertising /\ adv.links < MaxLinks
  /\ Stimulus
  /\ adv' = AdvConnected(adv)
  /\ ble' = [ble EXCEPT !.conn = TRUE, !.connCoded = (adv.phy = "Coded")]
  /\ btPc' = "stopTimers"
  /\ UNCHANGED <<attr, timers, bleQ, lost, advertQ, work, shown, nextId, closing, upload>>

\* The rest of it: clearing mobile_app_disconnect is broadcast if it was set; the upgrade
\* timer is not among those it stops.
ConnectedStopTimers ==
  /\ btPc = "stopTimers"
  /\ attr' = [attr EXCEPT !.appDisc = FALSE]
  /\ ble' = [ble EXCEPT !.durLeft = ("duration" \in timers)]
  /\ timers' = timers \ {"boot", "enterActive", "duration"}
  /\ btPc' = "idle"
  /\ Post(bleQ, IF attr.appDisc THEN <<Msg("ATTR_DISCONNECT")>> ELSE <<>>)
  /\ UNCHANGED <<advertQ, adv, work, shown, nextId, closing, upload, stimuli>>

MutantNoPurge == advertQ
EventsAfterDisconnect == <<>>

MutantNoRestart == <<>>
AfterDisconnect == <<Msg("START")>>

DisconnectedCallback ==
  /\ btPc = "idle"
  /\ adv.links > 0 /\ ble.conn
  /\ adv' = AdvDisconnected(adv)
  /\ advertQ' = EventsAfterDisconnect
  /\ ble' = [ble EXCEPT !.conn = FALSE]
  /\ timers' = timers \ {"app"}
  /\ closing' = FALSE
  /\ Post(bleQ, AfterDisconnect)
  /\ UNCHANGED <<attr, work, shown, nextId, btPc, upload, stimuli>>

\* A second link ends after the first one's callback cleared bto.conn: bt_conn_unref(NULL)
\* faults under CONFIG_NULL_POINTER_EXCEPTION_DETECTION_MPU, and the fault resets the device.
DisconnectedUnrefNull ==
  /\ btPc = "idle"
  /\ adv.links > 0 /\ ~ble.conn
  /\ Boot
  /\ UNCHANGED stimuli

----------------------------------------------------------------------------
(* What reaches the task from outside                                      *)

\* EventTask numbers an event the filter lets through and sends it.
SendEventDataAdvert ==
  /\ Stimulus
  /\ nextId' = nextId + 1
  /\ Post(bleQ, <<[code |-> "EVENT", id |-> nextId]>>)
  /\ UNCHANGED <<attr, ble, timers, advertQ, adv, work, shown, btPc, closing, upload>>

\* A client or another task writes an attribute and the change is broadcast.
WriteAttribute ==
  /\ Stimulus
  /\ \/ Post(bleQ, <<Msg("ATTR_DATA")>>) /\ UNCHANGED attr
     \/ Post(bleQ, <<Msg("ATTR_INTERVAL")>>) /\ UNCHANGED attr
     \/ \E phy \in Phy \ {attr.phy} :
          attr' = [attr EXCEPT !.phy = phy] /\ Post(bleQ, <<Msg("ATTR_PHY")>>)
     \/ /\ ~attr.appDisc
        /\ attr' = [attr EXCEPT !.appDisc = TRUE]
        /\ Post(bleQ, <<Msg("ATTR_DISCONNECT")>>)
  /\ UNCHANGED <<ble, timers, advertQ, adv, work, shown, nextId, btPc, closing, upload>>

\* The sensor task relays a write of active_mode: true reaches this task as a message,
\* false ends in a reset.
EnterActiveMode ==
  /\ Stimulus
  /\ attr' = [attr EXCEPT !.active = TRUE]
  /\ Post(bleQ, <<Msg("ENTER_ACTIVE")>>)
  /\ UNCHANGED <<ble, timers, advertQ, adv, work, shown, nextId, btPc, closing, upload>>

EnterShelfMode ==
  /\ Stimulus
  /\ attr.active
  /\ attr' = [attr EXCEPT !.active = FALSE]
  /\ UNCHANGED <<ble, timers, bleQ, lost, advertQ, adv, work, shown, nextId, btPc, closing, upload>>

\* mcumgr_mgmt_callback of ControlTask.c: an image has come over the connection. The
\* enumerator it stores for a connection on 1M is the one that means Default.
mcumgr_mgmt_callback ==
  /\ Stimulus
  /\ ble.conn /\ btPc = "idle"
  /\ attr' = [attr EXCEPT !.bootPhy = IF ble.connCoded THEN "Coded" ELSE "Default"]
  /\ upload' = IF ble.connCoded THEN "Coded" ELSE "1M"
  /\ UNCHANGED <<ble, timers, bleQ, lost, advertQ, adv, work, shown, nextId, btPc, closing>>

\* sys_reboot of any kind: sys_reboot_notification has saved the attributes.
Reboot == Stimulus /\ Boot

----------------------------------------------------------------------------

HandleMessage ==
  \/ StartAdvertisingMsgHandler
  \/ EndAdvertisingMsgHandler
  \/ DataAttrChanged
  \/ IntervalAttrChanged
  \/ PhyAttrChanged
  \/ DisconnectAttrChanged
  \/ BleSensorUpdateMsgHandler
  \/ TakeEvent
  \/ SeverConnectionHandler
  \/ BleSensorEventMsgHandler
  \/ BleEnterActiveModeMsgHandler
  \/ ArmEnterActiveModeTimer

TimerFires ==
  \/ DurationTimerCallbackIsr
  \/ BootAdvertTimerCallbackIsr
  \/ EnterActiveModeTimerCallbackIsr
  \/ upgrade_advert_phy_timer_callback_isr
  \/ AppDisconnectCallbackIsr

\* What the device does by itself once it has been set going.
Device ==
  \/ HandleMessage
  \/ TimerFires
  \/ QueuedUpdateAdvertisement
  \/ QueuedUpdateDone
  \/ ConnectedStopTimers

\* What centrals, clients, sensors and resets do to it.
Environment ==
  \/ ConnectedCallback
  \/ DisconnectedCallback
  \/ DisconnectedUnrefNull
  \/ SendEventDataAdvert
  \/ WriteAttribute
  \/ EnterActiveMode
  \/ EnterShelfMode
  \/ mcumgr_mgmt_callback
  \/ Reboot

Next == Device \/ Environment

Spec == Init /\ [][Next]_vars

----------------------------------------------------------------------------
(* Fairness: the task, the work queue and the receive thread run when they *)
(* have something to do, a running timer expires, and a disconnection that *)
(* was asked for is reported.  Nothing says that a take returns: the task  *)
(* is not enabled while it waits for an event.                             *)

Fairness ==
  /\ WF_vars(HandleMessage)
  /\ WF_vars(DurationTimerCallbackIsr)
  /\ WF_vars(BootAdvertTimerCallbackIsr)
  /\ WF_vars(EnterActiveModeTimerCallbackIsr)
  /\ WF_vars(upgrade_advert_phy_timer_callback_isr)
  /\ WF_vars(AppDisconnectCallbackIsr)
  /\ WF_vars(QueuedUpdateAdvertisement)
  /\ WF_vars(QueuedUpdateDone)
  /\ WF_vars(ConnectedStopTimers)
  /\ WF_vars(closing /\ DisconnectedCallback)

FairSpec == Spec /\ Fairness

----------------------------------------------------------------------------
(* Properties                                                              *)

\* The state has the types the declarations of bto, the queues and the flags give it.
TypeOK ==
  /\ attr \in Attributes
  /\ ble \in BleTaskObj
  /\ timers \in SUBSET Timers
  /\ bleQ \in Seq(Message) /\ Len(bleQ) <= QueueDepth
  /\ lost \in BOOLEAN
  /\ advertQ \in Seq(Nat) /\ Len(advertQ) <= AdvertDepth
  /\ adv \in Advertiser
  /\ work \in WorkItem
  /\ shown \in Nat
  /\ nextId \in Nat \ {0}
  /\ btPc \in {"idle", "stopTimers"}
  /\ closing \in BOOLEAN
  /\ upload \in {"None"} \cup Phy
  /\ stimuli \in 0 .. MaxStimuli

\* Something is under way that ends in StartAdvertisingMsgHandler.
Restoring ==
  \/ timers \cap {"enterActive", "upgrade"} # {}
  \/ ble.pc = "arm"
  \/ ble.conn
  \/ HasMsg("START")

\* As long as no message is dropped, an active device that advertises on another PHY than
\* the configured one, or at the default interval, has a timer, a message or a connection
\* that will put it back: neither a connection nor a timer that expires around one strands
\* it on the PHY of the 30 s windows.
PhyRestored ==
  ~lost /\ ble.active /\ (adv.phy # ble.cfgPhy \/ adv.fast) => Restoring

\* As long as no message is dropped, events that wait have something that will take the
\* next one: the duration timer, its message, the task about to take, or the connection
\* whose end purges them.
PumpArmed ==
  ~lost /\ advertQ # <<>> =>
    "duration" \in timers \/ HasMsg("UPDATE") \/ ble.pc = "take" \/ ble.conn

\* The task waits for an event that only the task itself could store: for good.
Starved == ble.pc = "take" /\ advertQ = <<>>

\* From one boot to the next the advertised event is never replaced by an older one, however
\* dummy updates, purges and restarts of the duration timer interleave.
AdvertNeverGoesBack == [][shown' >= shown \/ Boot]_vars

\* The events on their way to the advertisement.
Waiting == {advertQ[i] : i \in DOMAIN advertQ} \cup {e \in {work.event} : e > shown}

Feed == INSTANCE EventFeed WITH
  EventIds <- 1 .. MaxStimuli, Capacity <- AdvertDepth + 1, waiting <- Waiting

\* The task, its queue and the work item implement the ordered lossy feed.
ImplementsFeed == Feed!Spec

OnTheWay(e) ==
  \/ \E i \in DOMAIN advertQ : advertQ[i] = e
  \/ \E i \in DOMAIN bleQ : bleQ[i] = [code |-> "EVENT", id |-> e]

\* An event sent to the task is taken for the advertisement or turned away, unless a message
\* was dropped, a connection holds the duration timer or a purge has starved the task.
EventsFlow == \A e \in 1 .. MaxStimuli :
  OnTheWay(e) ~> (~OnTheWay(e) \/ lost \/ ble.conn \/ Starved)

\* An active device that is off the air gets back on it or is connected, unless a message
\* was dropped or a purge has starved the task.
ActiveOnAir ==
  (ble.active /\ ~adv.advertising) ~> (adv.advertising \/ ble.conn \/ lost \/ Starved)

\* The mobile application's request to be disconnected ends the connection, unless a message
\* was dropped or a purge has starved the task.
AppDisconnectHonoured ==
  (attr.appDisc /\ ble.conn) ~> (~ble.conn \/ ~attr.appDisc \/ lost \/ Starved)

----------------------------------------------------------------------------
(* What the comments of the source say of it                               *)

\* "If a firmware update has taken place, re-advertise in PHY that was used prior to
\* upgrade" (BleTask.c, BleTaskThread).
UpgradePhyRestored == [][upload # "None" /\ upload' = "None" => adv'.phy = upload]_vars

\* "Start the advertisement again" (BleTask.c, DisconnectedCallback): an active device whose
\* connection has ended advertises again, as long as no message is dropped.
AdvertisesAgain ==
  (ble.active /\ ~ble.conn /\ ~adv.advertising) ~> (adv.advertising \/ ble.conn \/ lost)
=============================================================================
