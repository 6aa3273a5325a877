--------------------------- MODULE BleTask_proofs ---------------------------
(***************************************************************************)
(* Theorems about BleTask.tla for any number of links, any depth of the    *)
(* queues, any number of stimuli, and messages that are lost or not.       *)
(***************************************************************************)
EXTENDS BleTask, TLAPS

----------------------------------------------------------------------------
(* Lemmas about the advertiser and the message queue                       *)

\* Every function of Advertisement.c but the connection callbacks maps an advertiser to one.
LEMMA AdvertiserClosed ==
  ASSUME NEW a \in Advertiser
  PROVE  /\ Advertisement_End(a) \in Advertiser
         /\ Advertisement_Start(a) \in Advertiser
         /\ \A phy \in Phy : Advertisement_ExtendedSet(a, phy) \in Advertiser
         /\ Advertisement_IntervalUpdate(a) \in Advertiser
         /\ Advertisement_IntervalDefault(a) \in Advertiser
         /\ UpdateBefore(a) \in Advertiser
         /\ UpdateAfter(a) \in Advertiser
<1>. USE MaxLinksAssumption DEF Advertiser
<1>1. \A b \in Advertiser : Advertisement_End(b) \in Advertiser
  BY DEF Advertisement_End
<1>2. \A b \in Advertiser : Advertisement_Start(b) \in Advertiser
  BY DEF Advertisement_Start
<1>3. ASSUME NEW phy \in Phy PROVE Advertisement_ExtendedSet(a, phy) \in Advertiser
  <2>1. [Advertisement_End(a) EXCEPT !.phy = phy] \in Advertiser
    BY <1>1
  <2>. QED  BY <2>1, <1>2 DEF Advertisement_ExtendedSet
<1>4. Advertisement_IntervalUpdate(a) \in Advertiser
  <2>1. [a EXCEPT !.fast = FALSE] \in Advertiser
    OBVIOUS
  <2>. QED  BY <2>1, <1>1, <1>2 DEF Advertisement_IntervalUpdate
<1>5. Advertisement_IntervalDefault(a) \in Advertiser
  <2>1. [a EXCEPT !.fast = TRUE] \in Advertiser
    OBVIOUS
  <2>. QED  BY <2>1, <1>1 DEF Advertisement_IntervalDefault
<1>. QED  BY <1>1, <1>2, <1>3, <1>4, <1>5 DEF UpdateBefore, UpdateAfter

\* The connection callbacks count a link that is there to be counted.
LEMMA AdvConnectedType ==
  ASSUME NEW a \in Advertiser
  PROVE  /\ a.links < MaxLinks => AdvConnected(a) \in Advertiser
         /\ a.links > 0 => AdvDisconnected(a) \in Advertiser
<1>1. a.links \in 0 .. MaxLinks
  BY DEF Advertiser
<1>2. a.links < MaxLinks => a.links + 1 \in 0 .. MaxLinks
  BY <1>1, MaxLinksAssumption
<1>3. a.links > 0 => a.links - 1 \in 0 .. MaxLinks
  BY <1>1, MaxLinksAssumption
<1>4. ASSUME NEW l \in 0 .. MaxLinks, NEW on \in BOOLEAN, NEW up \in BOOLEAN
      PROVE  [a EXCEPT !.advertising = on, !.connected = up, !.links = l] \in Advertiser
  BY <1>4 DEF Advertiser
<1>5. ASSUME NEW l \in 0 .. MaxLinks
      PROVE  [a EXCEPT !.connected = FALSE, !.links = l] \in Advertiser
  BY <1>5 DEF Advertiser
<1>. QED  BY <1>2, <1>3, <1>4, <1>5 DEF AdvConnected, AdvDisconnected

\* Nothing in Advertisement.c but ExtendedSet moves the set to another PHY, and nothing but
\* the two interval functions touches the interval.
LEMMA AdvertiserFrame ==
  ASSUME NEW a \in Advertiser
  PROVE  /\ Advertisement_End(a).phy = a.phy /\ Advertisement_End(a).fast = a.fast
         /\ Advertisement_Start(a).phy = a.phy /\ Advertisement_Start(a).fast = a.fast
         /\ \A phy \in Phy : /\ Advertisement_ExtendedSet(a, phy).phy = phy
                            /\ Advertisement_ExtendedSet(a, phy).fast = a.fast
         /\ Advertisement_IntervalUpdate(a).phy = a.phy
         /\ Advertisement_IntervalUpdate(a).fast = FALSE
         /\ UpdateBefore(a).phy = a.phy /\ UpdateBefore(a).fast = a.fast
         /\ UpdateAfter(a).phy = a.phy /\ UpdateAfter(a).fast = a.fast
BY DEF Advertiser, Advertisement_End, Advertisement_Start, Advertisement_ExtendedSet,
       Advertisement_IntervalUpdate, UpdateBefore, UpdateAfter

\* The advertiser a boot leaves behind: on the air on the PHY of the window, or on the
\* configured one.
LEMMA BootAdvertiserType ==
  ASSUME NEW at \in Attributes
  PROVE  /\ BootAdvertiser(at) \in Advertiser
         /\ BootAdvertiser(at).fast = FALSE
         /\ at.bootPhy = "Default" /\ at.active => BootAdvertiser(at).phy = at.phy
<1>1. Advertisement_Init(at.phy) \in Advertiser /\ Advertisement_Init(at.phy).phy = at.phy
  BY MaxLinksAssumption DEF Advertisement_Init, Advertiser, Attributes
<1>. DEFINE a == Advertisement_IntervalUpdate(Advertisement_Init(at.phy))
<1>2. a \in Advertiser /\ a.phy = at.phy /\ a.fast = FALSE
  BY <1>1, AdvertiserClosed, AdvertiserFrame DEF Attributes
<1>3. "1M" \in Phy /\ (at.bootPhy # "Default" => at.bootPhy \in Phy)
  BY DEF Phy, Attributes
<1>. HIDE DEF a
<1>. DEFINE b == IF at.bootPhy # "Default" THEN Advertisement_ExtendedSet(a, at.bootPhy)
                 ELSE IF ~at.active THEN Advertisement_ExtendedSet(a, "1M")
                 ELSE a
<1>4. b \in Advertiser /\ b.fast = FALSE /\ (at.bootPhy = "Default" /\ at.active => b.phy = at.phy)
  BY <1>2, <1>3, AdvertiserClosed, AdvertiserFrame
<1>5. BootAdvertiser(at) = Advertisement_Start(b)
  BY DEF BootAdvertiser, a
<1>. HIDE DEF b
<1>6. Advertisement_Start(b) \in Advertiser
  BY <1>3, <1>4, AdvertiserClosed
<1>7. Advertisement_Start(b).phy = b.phy /\ Advertisement_Start(b).fast = b.fast
  BY <1>3, <1>4, AdvertiserFrame
<1>. QED  BY <1>4, <1>5, <1>6, <1>7

\* What a handler sends is appended as it is, or part of it is lost and the loss recorded;
\* the queue never exceeds its depth.
LEMMA PostAppends ==
  ASSUME NEW q \in Seq(Message), Len(q) <= QueueDepth, NEW ms \in Seq(Message), Post(q, ms)
  PROVE  \E some \in Seq(Message) :
           /\ bleQ' = q \o some
           /\ Len(bleQ') <= QueueDepth
           /\ (some = ms /\ lost' = lost) \/ lost' = TRUE
           /\ some = ms \/ some = <<>> \/ \E i \in DOMAIN ms : some = <<ms[i]>>
<1>. USE BleTaskAssumption
<1>1. CASE Len(q) + Len(ms) <= QueueDepth /\ bleQ' = q \o ms /\ lost' = lost
  <2>1. Len(q \o ms) = Len(q) + Len(ms)
    OBVIOUS
  <2>. WITNESS ms \in Seq(Message)
  <2>. QED  BY <1>1, <2>1
<1>2. CASE /\ \E some \in Fragments(ms) : Len(q) + Len(some) <= QueueDepth /\ bleQ' = q \o some
           /\ lost' = TRUE
  <2>1. PICK some \in Fragments(ms) : Len(q) + Len(some) <= QueueDepth /\ bleQ' = q \o some
    BY <1>2
  <2>2. some = <<>> \/ \E i \in DOMAIN ms : some = <<ms[i]>>
    BY <2>1 DEF Fragments
  <2>3. \A i \in DOMAIN ms : ms[i] \in Message /\ <<ms[i]>> \in Seq(Message)
    OBVIOUS
  <2>4. <<>> \in Seq(Message)
    OBVIOUS
  <2>5. some \in Seq(Message)
    BY <2>2, <2>3, <2>4, Zenon
  <2>. QED  BY <1>2, <2>1, <2>2, <2>5
<1>. QED  BY <1>1, <1>2 DEF Post

\* Sending messages leaves a well-typed queue within its depth.
LEMMA PostType ==
  ASSUME NEW q \in Seq(Message), Len(q) <= QueueDepth, NEW ms \in Seq(Message), Post(q, ms),
         lost \in BOOLEAN
  PROVE  bleQ' \in Seq(Message) /\ Len(bleQ') <= QueueDepth /\ lost' \in BOOLEAN
<1>1. PICK some \in Seq(Message) :
        /\ bleQ' = q \o some /\ Len(bleQ') <= QueueDepth
        /\ (some = ms /\ lost' = lost) \/ lost' = TRUE
  BY PostAppends
<1>2. lost' \in BOOLEAN
  BY <1>1, Zenon
<1>3. q \o some \in Seq(Message)
  OBVIOUS
<1>. QED  BY <1>1, <1>2, <1>3

\* What the handlers and the timers send are messages.
LEMMA MsgType ==
  /\ \A code \in Codes : Msg(code) \in Message /\ <<Msg(code)>> \in Seq(Message)
  /\ <<Msg("END"), Msg("START")>> \in Seq(Message)
  /\ <<>> \in Seq(Message)
<1>1. \A code \in Codes : Msg(code) \in Message
  BY DEF Msg, Message
<1>2. "END" \in Codes /\ "START" \in Codes
  BY DEF Codes
<1>. QED  BY <1>1, <1>2

\* The first message leaves a queue that is no longer than before.
LEMMA TailType ==
  ASSUME TypeOK, bleQ # <<>>
  PROVE  /\ Tail(bleQ) \in Seq(Message) /\ Len(Tail(bleQ)) <= QueueDepth
         /\ Head(bleQ) \in Message
BY BleTaskAssumption DEF TypeOK

----------------------------------------------------------------------------
(* Type correctness                                                        *)

\* A reset, which loses all but the attributes, leaves a well-typed state.
LEMMA BootType ==
  ASSUME TypeOK, Boot, stimuli' \in 0 .. MaxStimuli
  PROVE  TypeOK'
<1>1. BootAdvertiser(attr) \in Advertiser
  BY BootAdvertiserType DEF TypeOK
<1>2. BootQueue(attr) \in Seq(Message) /\ Len(BootQueue(attr)) <= QueueDepth
  BY MsgType, BleTaskAssumption DEF BootQueue, Codes
<1>3. BootTimers(attr) \in SUBSET Timers
  BY DEF BootTimers, Timers
<1>4. BootTask(attr)  \in BleTaskObj
  BY DEF BootTask, TypeOK, Attributes, BleTaskObj
<1>5. NoWork \in WorkItem
  BY DEF NoWork, WorkItem
<1>6. attr' \in Attributes
  BY DEF Boot, TypeOK, Attributes
<1>7. advertQ' \in Seq(Nat) /\ Len(advertQ') <= AdvertDepth
  BY BleTaskAssumption DEF Boot
<1>8. /\ shown' \in Nat /\ nextId' \in Nat \ {0}
      /\ btPc' \in {"idle", "stopTimers"}
      /\ upload' \in {"None"} \cup Phy
  BY DEF Boot
<1>10. lost' \in BOOLEAN /\ closing' \in BOOLEAN
  BY Zenon DEF Boot
<1>9. /\ adv' = BootAdvertiser(attr) /\ ble' = BootTask(attr) /\ timers' = BootTimers(attr)
      /\ bleQ' = BootQueue(attr) /\ work' = NoWork
  BY DEF Boot
<1>. QED  BY <1>1, <1>2, <1>3, <1>4, <1>5, <1>6, <1>7, <1>8, <1>9, <1>10 DEF TypeOK

\* The state at power-up is well-typed.
LEMMA InitType == Init => TypeOK
<1>. SUFFICES ASSUME Init PROVE TypeOK
  OBVIOUS
<1>1. PICK active \in BOOLEAN, phy \in Phy, bootPhy \in {"Default"} \cup Phy :
        LET at == [active |-> active, phy |-> phy, bootPhy |-> bootPhy, appDisc |-> FALSE]
        IN  /\ attr = [at EXCEPT !.bootPhy = "Default"]
            /\ adv = BootAdvertiser(at)
            /\ ble = BootTask(at)
            /\ timers = BootTimers(at)
            /\ bleQ = BootQueue(at)
  BY DEF Init
<1>. DEFINE at == [active |-> active, phy |-> phy, bootPhy |-> bootPhy, appDisc |-> FALSE]
<1>2. at \in Attributes
  BY DEF Attributes
<1>3. attr \in Attributes
  BY <1>1 DEF Attributes
<1>4. adv \in Advertiser
  BY <1>1, <1>2, BootAdvertiserType
<1>5. bleQ \in Seq(Message) /\ Len(bleQ) <= QueueDepth
  BY <1>1, MsgType, BleTaskAssumption DEF BootQueue, Codes
<1>6. timers \in SUBSET Timers
  BY <1>1 DEF BootTimers, Timers
<1>7. ble \in BleTaskObj
  BY <1>1 DEF BootTask, BleTaskObj
<1>8. work \in WorkItem
  BY DEF Init, NoWork, WorkItem
<1>9. advertQ \in Seq(Nat) /\ Len(advertQ) <= AdvertDepth
  BY BleTaskAssumption DEF Init
<1>10. /\ shown \in Nat /\ nextId \in Nat \ {0}
       /\ btPc \in {"idle", "stopTimers"}
       /\ upload \in {"None"} \cup Phy /\ stimuli \in 0 .. MaxStimuli
  BY BleTaskAssumption DEF Init
<1>11. lost \in BOOLEAN /\ closing \in BOOLEAN
  BY Zenon DEF Init
<1>. QED  BY <1>3, <1>4, <1>5, <1>6, <1>7, <1>8, <1>9, <1>10, <1>11 DEF TypeOK

\* A handler that only takes its message off the queue leaves a well-typed queue.
LEMMA ReceiveType ==
  ASSUME TypeOK, NEW code, Receives(code)
  PROVE  /\ Tail(bleQ) \in Seq(Message) /\ Len(Tail(bleQ)) <= QueueDepth
         /\ Head(bleQ) \in Message
BY TailType DEF Receives

\* Submitting the work item, which overwrites what it held, leaves a work item.
LEMMA UpdateType ==
  ASSUME NEW id \in Nat, work \in WorkItem, Advertisement_Update(id)
  PROVE  work' \in WorkItem
BY DEF Advertisement_Update, WorkItem

\* Every message handler of BleTask.c preserves the types.
LEMMA HandleMessageType ==
  ASSUME TypeOK, HandleMessage
  PROVE  TypeOK'
<1>1. CASE StartAdvertisingMsgHandler
  <2>1. ble.cfgPhy \in Phy /\ adv \in Advertiser
    BY DEF TypeOK, BleTaskObj
  <2>2. adv' \in Advertiser
    BY <1>1, <2>1, AdvertiserClosed DEF StartAdvertisingMsgHandler
  <2>3. timers' \in SUBSET Timers
    BY <1>1 DEF StartAdvertisingMsgHandler, Timers, TypeOK
  <2>4. bleQ' \in Seq(Message) /\ Len(bleQ') <= QueueDepth
    BY <1>1, ReceiveType DEF StartAdvertisingMsgHandler
  <2>. QED  BY <1>1, <2>2, <2>3, <2>4 DEF StartAdvertisingMsgHandler, TypeOK
<1>2. CASE EndAdvertisingMsgHandler
  BY <1>2, ReceiveType, AdvertiserClosed
     DEF EndAdvertisingMsgHandler, TypeOK
<1>3. CASE DataAttrChanged
  <2>1. work' \in WorkItem
    BY <1>3, UpdateType DEF DataAttrChanged, TypeOK
  <2>. QED  BY <1>3, <2>1, ReceiveType DEF DataAttrChanged, TypeOK
<1>4. CASE IntervalAttrChanged
  BY <1>4, ReceiveType, AdvertiserClosed
     DEF IntervalAttrChanged, TypeOK, Attributes, BleTaskObj
<1>5. CASE PhyAttrChanged
  BY <1>5, ReceiveType, AdvertiserClosed
     DEF PhyAttrChanged, TypeOK, Attributes, BleTaskObj
<1>6. CASE DisconnectAttrChanged
  BY <1>6, ReceiveType, AdvertiserClosed
     DEF DisconnectAttrChanged, Timers, TypeOK
<1>7. CASE BleSensorUpdateMsgHandler
  <2>1. timers' \in SUBSET Timers
    BY <1>7 DEF BleSensorUpdateMsgHandler, Timers, TypeOK
  <2>2. ble' \in BleTaskObj
    BY <1>7 DEF BleSensorUpdateMsgHandler, BleTaskObj, TypeOK
  <2>. QED  BY <1>7, <2>1, <2>2, ReceiveType DEF BleSensorUpdateMsgHandler, TypeOK
<1>8. CASE SeverConnectionHandler
  BY <1>8, ReceiveType, AdvertiserClosed
     DEF SeverConnectionHandler, TypeOK
<1>9. CASE BleSensorEventMsgHandler
  <2>1. CASE UNCHANGED <<advertQ, lost>> /\ bleQ' = Tail(bleQ)
    BY <1>9, <2>1, ReceiveType DEF BleSensorEventMsgHandler, TypeOK
  <2>2. CASE /\ Len(advertQ) < AdvertDepth
             /\ advertQ' = Append(advertQ, Head(bleQ).id)
             /\ Post(Tail(bleQ), <<Msg("UPDATE")>>)
    <3>1. <<Msg("UPDATE")>> \in Seq(Message)
      BY MsgType DEF Codes
    <3>2. bleQ' \in Seq(Message) /\ Len(bleQ') <= QueueDepth /\ lost' \in BOOLEAN
      BY <1>9, <2>2, <3>1, ReceiveType, PostType DEF BleSensorEventMsgHandler, TypeOK
    <3>3. Head(bleQ).id \in Nat
      BY <1>9, ReceiveType DEF BleSensorEventMsgHandler, Message
    <3>4. advertQ' \in Seq(Nat) /\ Len(advertQ') <= AdvertDepth
      BY <2>2, <3>3, BleTaskAssumption DEF TypeOK
    <3>. QED  BY <1>9, <3>2, <3>4 DEF BleSensorEventMsgHandler, TypeOK
  <2>. QED  BY <1>9, <2>1, <2>2
            DEF BleSensorEventMsgHandler, EventsAfterStore, EventQueueHasRoom
<1>10. CASE BleEnterActiveModeMsgHandler
  <2>1. ble' \in BleTaskObj
    BY <1>10 DEF BleEnterActiveModeMsgHandler, BleTaskObj, TypeOK
  <2>2. adv' \in Advertiser
    BY <1>10, AdvertiserClosed DEF BleEnterActiveModeMsgHandler, Phy, TypeOK
  <2>3. timers' \in SUBSET Timers
    BY <1>10 DEF BleEnterActiveModeMsgHandler, TypeOK
  <2>. QED  BY <1>10, <2>1, <2>2, <2>3, ReceiveType DEF BleEnterActiveModeMsgHandler, TypeOK
<1>11. CASE ArmEnterActiveModeTimer
  BY <1>11 DEF ArmEnterActiveModeTimer, Timers, TypeOK, BleTaskObj
<1>12. CASE TakeEvent
  <2>1. advertQ \in Seq(Nat) /\ advertQ # <<>> /\ Len(advertQ) <= AdvertDepth
    BY <1>12 DEF TakeEvent, TypeOK
  <2>2. Head(advertQ) \in Nat /\ Tail(advertQ) \in Seq(Nat) /\ Len(Tail(advertQ)) <= AdvertDepth
    BY <2>1, BleTaskAssumption
  <2>3. work' \in WorkItem
    BY <1>12, <2>2, UpdateType DEF TakeEvent, TypeOK
  <2>4. timers' \in SUBSET Timers /\ ble' \in BleTaskObj
    BY <1>12 DEF TakeEvent, Timers, BleTaskObj, TypeOK
  <2>. QED  BY <1>12, <2>2, <2>3, <2>4 DEF TakeEvent, EventsAfterTake, TypeOK
<1>. QED  BY <1>1, <1>2, <1>3, <1>4, <1>5, <1>6, <1>7, <1>8, <1>9, <1>10, <1>11, <1>12
          DEF HandleMessage

\* So does every expiry of a timer.
LEMMA TimerFiresType ==
  ASSUME TypeOK, TimerFires
  PROVE  TypeOK'
<1>1. ASSUME NEW ms \in Seq(Message), NEW t,
             timers' = timers \ {t}, Post(bleQ, ms),
             UNCHANGED <<attr, ble, advertQ, adv, work, shown, nextId, btPc, closing, upload,
                         stimuli>>
      PROVE  TypeOK'
  <2>1. bleQ' \in Seq(Message) /\ Len(bleQ') <= QueueDepth /\ lost' \in BOOLEAN
    BY <1>1, PostType DEF TypeOK
  <2>. QED  BY <1>1, <2>1 DEF TypeOK
<1>2. CASE DurationTimerCallbackIsr
  BY <1>1, <1>2, MsgType DEF DurationTimerCallbackIsr, Codes
<1>3. CASE BootAdvertTimerCallbackIsr
  <2>1. CASE ble.active
    BY <1>3, <2>1 DEF BootAdvertTimerCallbackIsr, TypeOK
  <2>2. CASE ~ble.active
    BY <1>1, <1>3, <2>2, MsgType DEF BootAdvertTimerCallbackIsr, Codes
  <2>. QED  BY <2>1, <2>2
<1>4. CASE EnterActiveModeTimerCallbackIsr
  BY <1>1, <1>4, MsgType DEF EnterActiveModeTimerCallbackIsr, Codes
<1>5. CASE upgrade_advert_phy_timer_callback_isr
  <2>1. AfterUpgradeWindow \in Seq(Message)
    BY MsgType DEF AfterUpgradeWindow, Codes
  <2>. QED  BY <1>1, <1>5, <2>1 DEF upgrade_advert_phy_timer_callback_isr
<1>6. CASE AppDisconnectCallbackIsr
  BY <1>1, <1>6, MsgType DEF AppDisconnectCallbackIsr, Codes
<1>. QED  BY <1>2, <1>3, <1>4, <1>5, <1>6 DEF TimerFires

\* So do both halves of QueuedUpdateAdvertisement.
LEMMA WorkQueueType ==
  ASSUME TypeOK, QueuedUpdateAdvertisement \/ QueuedUpdateDone
  PROVE  TypeOK'
<1>1. CASE QueuedUpdateAdvertisement
  <2>1. work' \in WorkItem /\ shown' \in Nat
    BY <1>1 DEF QueuedUpdateAdvertisement, WorkItem, TypeOK
  <2>. QED  BY <1>1, <2>1, AdvertiserClosed DEF QueuedUpdateAdvertisement, TypeOK
<1>2. CASE QueuedUpdateDone
  <2>1. work' \in WorkItem
    BY <1>2 DEF QueuedUpdateDone, WorkItem, TypeOK
  <2>. QED  BY <1>2, <2>1, AdvertiserClosed DEF QueuedUpdateDone, TypeOK
<1>. QED  BY <1>1, <1>2

\* So do the connection callbacks: a link that closes was counted when it was made.
LEMMA CallbackType ==
  ASSUME TypeOK, ConnectedCallback \/ ConnectedStopTimers \/ DisconnectedCallback
  PROVE  TypeOK'
<1>1. CASE ConnectedCallback
  <2>1. adv' \in Advertiser
    BY <1>1, AdvConnectedType DEF ConnectedCallback, TypeOK
  <2>2. ble' \in BleTaskObj
    BY <1>1 DEF ConnectedCallback, BleTaskObj, TypeOK
  <2>3. stimuli' \in 0 .. MaxStimuli
    BY <1>1, BleTaskAssumption DEF ConnectedCallback, Stimulus, TypeOK
  <2>. QED  BY <1>1, <2>1, <2>2, <2>3 DEF ConnectedCallback, TypeOK
<1>2. CASE ConnectedStopTimers
  <2>1. attr' \in Attributes
    BY <1>2 DEF ConnectedStopTimers, Attributes, TypeOK
  <2>4. ble' \in BleTaskObj
    <3>. DEFINE left == "duration" \in timers
    <3>1. left \in BOOLEAN
      OBVIOUS
    <3>2. ble' = [ble EXCEPT !.durLeft = left]
      BY <1>2 DEF ConnectedStopTimers
    <3>. HIDE DEF left
    <3>. QED  BY <3>1, <3>2 DEF BleTaskObj, TypeOK
  <2>2. (IF attr.appDisc THEN <<Msg("ATTR_DISCONNECT")>> ELSE <<>>) \in Seq(Message)
    BY MsgType DEF Codes
  <2>3. bleQ' \in Seq(Message) /\ Len(bleQ') <= QueueDepth /\ lost' \in BOOLEAN
    BY <1>2, <2>2, PostType DEF ConnectedStopTimers, TypeOK
  <2>. QED  BY <1>2, <2>1, <2>3, <2>4 DEF ConnectedStopTimers, TypeOK
<1>3. CASE DisconnectedCallback
  <2>1. adv' \in Advertiser
    BY <1>3, AdvConnectedType DEF DisconnectedCallback, TypeOK
  <2>2. ble' \in BleTaskObj
    BY <1>3 DEF DisconnectedCallback, BleTaskObj, TypeOK
  <2>3. AfterDisconnect \in Seq(Message)
    BY MsgType DEF AfterDisconnect, Codes
  <2>4. bleQ' \in Seq(Message) /\ Len(bleQ') <= QueueDepth /\ lost' \in BOOLEAN
    BY <1>3, <2>3, PostType DEF DisconnectedCallback, TypeOK
  <2>5. advertQ' \in Seq(Nat) /\ Len(advertQ') <= AdvertDepth
    BY <1>3, BleTaskAssumption DEF DisconnectedCallback, EventsAfterDisconnect
  <2>6. closing' \in BOOLEAN
    BY <1>3, Zenon DEF DisconnectedCallback
  <2>. QED  BY <1>3, <2>1, <2>2, <2>4, <2>5, <2>6 DEF DisconnectedCallback, TypeOK
<1>. QED  BY <1>1, <1>2, <1>3

\* So does what the other tasks and the clients do.
LEMMA OutsideType ==
  ASSUME TypeOK,
         \/ SendEventDataAdvert \/ WriteAttribute \/ EnterActiveMode \/ EnterShelfMode
         \/ mcumgr_mgmt_callback
  PROVE  TypeOK'
<1>1. Stimulus => stimuli' \in 0 .. MaxStimuli
  BY BleTaskAssumption DEF Stimulus, TypeOK
<1>2. ASSUME NEW ms \in Seq(Message), Stimulus, Post(bleQ, ms), attr' \in Attributes,
             nextId' \in Nat \ {0},
             UNCHANGED <<ble, timers, advertQ, adv, work, shown, btPc, closing, upload>>
      PROVE  TypeOK'
  <2>1. bleQ' \in Seq(Message) /\ Len(bleQ') <= QueueDepth /\ lost' \in BOOLEAN
    BY <1>2, PostType DEF TypeOK
  <2>. QED  BY <1>1, <1>2, <2>1 DEF TypeOK
<1>3. CASE SendEventDataAdvert
  <2>1. <<[code |-> "EVENT", id |-> nextId]>> \in Seq(Message)
    BY DEF TypeOK, Message, Codes
  <2>2. nextId + 1 \in Nat \ {0}
    BY DEF TypeOK
  <2>. QED  BY <1>2, <1>3, <2>1, <2>2 DEF SendEventDataAdvert, TypeOK
<1>4. CASE WriteAttribute
  <2>1. attr' \in Attributes
    BY <1>4 DEF WriteAttribute, Attributes, TypeOK
  <2>2. PICK code \in Codes : Post(bleQ, <<Msg(code)>>)
    BY <1>4 DEF WriteAttribute, Codes
  <2>. QED  BY <1>2, <1>4, <2>1, <2>2, MsgType DEF WriteAttribute, TypeOK
<1>5. CASE EnterActiveMode
  <2>1. attr' \in Attributes
    BY <1>5 DEF EnterActiveMode, Attributes, TypeOK
  <2>. QED  BY <1>2, <1>5, <2>1, MsgType DEF EnterActiveMode, Codes, TypeOK
<1>6. CASE EnterShelfMode
  <2>1. attr' \in Attributes
    BY <1>6 DEF EnterShelfMode, Attributes, TypeOK
  <2>. QED  BY <1>1, <1>6, <2>1 DEF EnterShelfMode, TypeOK
<1>7. CASE mcumgr_mgmt_callback
  <2>1. attr' \in Attributes
    BY <1>7 DEF mcumgr_mgmt_callback, Attributes, Phy, TypeOK
  <2>2. upload' \in {"None"} \cup Phy
    BY <1>7 DEF mcumgr_mgmt_callback, Phy
  <2>. QED  BY <1>1, <1>7, <2>1, <2>2 DEF mcumgr_mgmt_callback, TypeOK
<1>. QED  BY <1>3, <1>4, <1>5, <1>6, <1>7

\* So does every step.
LEMMA NextType ==
  ASSUME TypeOK, [Next]_vars
  PROVE  TypeOK'
<1>1. CASE Device
  BY <1>1, HandleMessageType, TimerFiresType, WorkQueueType, CallbackType DEF Device
<1>2. CASE ConnectedCallback \/ DisconnectedCallback
  BY <1>2, CallbackType
<1>3. CASE DisconnectedUnrefNull \/ Reboot
  <2>1. stimuli' \in 0 .. MaxStimuli
    BY <1>3, BleTaskAssumption DEF DisconnectedUnrefNull, Reboot, Stimulus, TypeOK
  <2>. QED  BY <1>3, <2>1, BootType DEF DisconnectedUnrefNull, Reboot
<1>4. CASE \/ SendEventDataAdvert \/ WriteAttribute \/ EnterActiveMode \/ EnterShelfMode
           \/ mcumgr_mgmt_callback
  BY <1>4, OutsideType
<1>5. CASE UNCHANGED vars
  BY <1>5 DEF vars, TypeOK
<1>. QED  BY <1>1, <1>2, <1>3, <1>4, <1>5 DEF Next, Environment

\* Every reachable state has the types of the declarations.
THEOREM TypeCorrect == Spec => []TypeOK
<1>. QED  BY InitType, NextType, PTL DEF Spec

----------------------------------------------------------------------------
(* The PHY is restored and the pump stays armed                            *)

Holds(q, code) == \E i \in DOMAIN q : q[i].code = code

\* Taking a message off the queue keeps those of another code.
LEMMA HoldsTail ==
  ASSUME NEW q \in Seq(Message), q # <<>>, NEW code, Holds(q, code), Head(q).code # code
  PROVE  Holds(Tail(q), code)
<1>1. PICK i \in 1 .. Len(q) : q[i].code = code
  BY DEF Holds
<1>2. i # 1
  BY <1>1
<1>3. i - 1 \in DOMAIN Tail(q) /\ Tail(q)[i - 1] = q[i]
  BY <1>2
<1>. QED  BY <1>1, <1>3 DEF Holds

\* A queue holds the messages it held and those appended to it.
LEMMA HoldsConcat ==
  ASSUME NEW q \in Seq(Message), NEW some \in Seq(Message), NEW code,
         Holds(q, code) \/ Holds(some, code)
  PROVE  Holds(q \o some, code)
<1>1. CASE Holds(q, code)
  <2>1. PICK i \in 1 .. Len(q) : q[i].code = code
    BY <1>1 DEF Holds
  <2>2. i \in DOMAIN (q \o some) /\ (q \o some)[i] = q[i]
    OBVIOUS
  <2>. QED  BY <2>1, <2>2 DEF Holds
<1>2. CASE Holds(some, code)
  <2>1. PICK i \in 1 .. Len(some) : some[i].code = code
    BY <1>2 DEF Holds
  <2>2. Len(q) + i \in DOMAIN (q \o some) /\ (q \o some)[Len(q) + i] = some[i]
    OBVIOUS
  <2>. QED  BY <2>1, <2>2 DEF Holds
<1>. QED  BY <1>1, <1>2

\* Sending keeps what the queue holds, and unless a message is dropped adds all that was sent.
LEMMA PostHolds ==
  ASSUME NEW q \in Seq(Message), Len(q) <= QueueDepth, NEW ms \in Seq(Message), Post(q, ms)
  PROVE  /\ \A code : Holds(q, code) => Holds(bleQ', code)
         /\ ~lost' => ~lost /\ \A code : Holds(ms, code) => Holds(bleQ', code)
<1>1. PICK some \in Seq(Message) :
        /\ bleQ' = q \o some
        /\ (some = ms /\ lost' = lost) \/ lost' = TRUE
  BY PostAppends
<1>2. \A code : Holds(q, code) \/ Holds(some, code) => Holds(bleQ', code)
  BY <1>1, HoldsConcat
<1>3. ~lost' => some = ms /\ ~lost
  BY <1>1, Zenon
<1>. QED  BY <1>2, <1>3

\* A list of messages holds them.
LEMMA MsgHolds ==
  /\ \A code : Holds(<<Msg(code)>>, code)
  /\ Holds(<<Msg("END"), Msg("START")>>, "START")
<1>1. \A code : DOMAIN <<Msg(code)>> = {1} /\ <<Msg(code)>>[1].code = code
  BY DEF Msg
<1>2. /\ 2 \in DOMAIN <<Msg("END"), Msg("START")>>
      /\ <<Msg("END"), Msg("START")>>[2].code = "START"
  BY DEF Msg
<1>. QED  BY <1>1, <1>2 DEF Holds

\* A handler takes off the queue nothing but a message of its own code.
LEMMA ReceiveHolds ==
  ASSUME TypeOK, NEW c, Receives(c)
  PROVE  \A code : HasMsg(code) /\ code # c => Holds(Tail(bleQ), code)
<1>1. bleQ \in Seq(Message) /\ bleQ # <<>> /\ Head(bleQ).code = c
  BY DEF TypeOK, Receives
<1>. SUFFICES ASSUME NEW code, HasMsg(code), code # c PROVE Holds(Tail(bleQ), code)
  OBVIOUS
<1>2. Holds(bleQ, code)
  BY DEF HasMsg, Holds
<1>. QED  BY <1>1, <1>2, HoldsTail

\* Every step that is not a reset sends something, possibly nothing, after taking at most
\* the message it handles off the queue; an event is only sent by the event task.
LEMMA StepPosts ==
  ASSUME TypeOK, Next
  PROVE  \/ Boot
         \/ \E ms \in Seq(Message) :
              /\ SendEventDataAdvert \/ ~Holds(ms, "EVENT")
              /\ \/ Post(bleQ, ms)
                 \/ \E code \in Codes : HandleMessage /\ Receives(code) /\ Post(Tail(bleQ), ms)
<1>. DEFINE Sends == \E ms \in Seq(Message) :
              /\ SendEventDataAdvert \/ ~Holds(ms, "EVENT")
              /\ \/ Post(bleQ, ms)
                 \/ \E code \in Codes : HandleMessage /\ Receives(code) /\ Post(Tail(bleQ), ms)
<1>0. /\ ~Holds(<<>>, "EVENT")
      /\ \A code \in Codes \ {"EVENT"} : ~Holds(<<Msg(code)>>, "EVENT")
      /\ ~Holds(<<Msg("END"), Msg("START")>>, "EVENT")
  BY DEF Holds, Msg
<1>1. ASSUME bleQ' = bleQ, lost' = lost PROVE Sends
  <2>1. bleQ' = bleQ \o <<>> /\ Len(bleQ) + Len(<<>>) <= QueueDepth
    BY <1>1, BleTaskAssumption DEF TypeOK
  <2>2. Post(bleQ, <<>>)
    BY <1>1, <2>1 DEF Post
  <2>. QED  BY <1>0, <2>2, MsgType
<1>2. ASSUME NEW code \in Codes, Receives(code), bleQ' = Tail(bleQ), lost' = lost, HandleMessage
      PROVE  Sends
  <2>1. Tail(bleQ) \in Seq(Message) /\ Len(Tail(bleQ)) <= QueueDepth
    BY <1>2, ReceiveType
  <2>2. bleQ' = Tail(bleQ) \o <<>> /\ Len(Tail(bleQ)) + Len(<<>>) <= QueueDepth
    BY <1>2, <2>1, BleTaskAssumption
  <2>3. Post(Tail(bleQ), <<>>)
    BY <1>2, <2>2 DEF Post
  <2>. QED  BY <1>0, <1>2, <2>3, MsgType
<1>3. ASSUME NEW ms \in Seq(Message), Post(bleQ, ms),
             SendEventDataAdvert \/ ~Holds(ms, "EVENT")
      PROVE  Sends
  BY <1>3
<1>4. ASSUME NEW code \in Codes \ {"EVENT"}, Post(bleQ, <<Msg(code)>>) PROVE Sends
  BY <1>0, <1>3, <1>4, MsgType
<1>. SUFFICES Boot \/ Sends
  OBVIOUS
<1>. HIDE DEF Sends
<1>5. CASE HandleMessage
  <2>1. CASE ArmEnterActiveModeTimer \/ TakeEvent
    BY <1>1, <2>1 DEF ArmEnterActiveModeTimer, TakeEvent
  <2>2. CASE BleSensorEventMsgHandler
    <3>1. CASE bleQ' = Tail(bleQ) /\ lost' = lost
      BY <1>2, <1>5, <2>2, <3>1 DEF BleSensorEventMsgHandler, Codes
    <3>2. CASE Post(Tail(bleQ), <<Msg("UPDATE")>>)
      BY <1>0, <1>5, <2>2, <3>2, MsgType DEF BleSensorEventMsgHandler, Codes, Sends
    <3>. QED  BY <2>2, <3>1, <3>2 DEF BleSensorEventMsgHandler
  <2>3. CASE StartAdvertisingMsgHandler
    BY <1>2, <1>5, <2>3 DEF StartAdvertisingMsgHandler, Codes
  <2>4. CASE EndAdvertisingMsgHandler
    BY <1>2, <1>5, <2>4 DEF EndAdvertisingMsgHandler, Codes
  <2>5. CASE DataAttrChanged
    BY <1>2, <1>5, <2>5 DEF DataAttrChanged, Codes
  <2>6. CASE IntervalAttrChanged
    BY <1>2, <1>5, <2>6 DEF IntervalAttrChanged, Codes
  <2>7. CASE PhyAttrChanged
    BY <1>2, <1>5, <2>7 DEF PhyAttrChanged, Codes
  <2>8. CASE DisconnectAttrChanged
    BY <1>2, <1>5, <2>8 DEF DisconnectAttrChanged, Codes
  <2>9. CASE BleSensorUpdateMsgHandler
    BY <1>2, <1>5, <2>9 DEF BleSensorUpdateMsgHandler, Codes
  <2>10. CASE SeverConnectionHandler
    BY <1>2, <1>5, <2>10 DEF SeverConnectionHandler, Codes
  <2>11. CASE BleEnterActiveModeMsgHandler
    BY <1>2, <1>5, <2>11 DEF BleEnterActiveModeMsgHandler, Codes
  <2>. QED  BY <1>5, <2>1, <2>2, <2>3, <2>4, <2>5, <2>6, <2>7, <2>8, <2>9, <2>10, <2>11
            DEF HandleMessage
<1>6. CASE TimerFires
  <2>1. AfterUpgradeWindow \in Seq(Message) /\ ~Holds(AfterUpgradeWindow, "EVENT")
    BY <1>0, MsgType DEF AfterUpgradeWindow, Codes
  <2>2. {"UPDATE", "END", "START", "END_CONNECTION"} \subseteq Codes \ {"EVENT"}
    BY DEF Codes
  <2>. QED  BY <1>1, <1>3, <1>4, <1>6, <2>1, <2>2
            DEF TimerFires, DurationTimerCallbackIsr, BootAdvertTimerCallbackIsr,
                EnterActiveModeTimerCallbackIsr, upgrade_advert_phy_timer_callback_isr,
                AppDisconnectCallbackIsr
<1>7. CASE QueuedUpdateAdvertisement \/ QueuedUpdateDone
  BY <1>1, <1>7 DEF QueuedUpdateAdvertisement, QueuedUpdateDone
<1>8. CASE ConnectedCallback \/ EnterShelfMode \/ mcumgr_mgmt_callback
  BY <1>1, <1>8 DEF ConnectedCallback, EnterShelfMode, mcumgr_mgmt_callback
<1>9. CASE ConnectedStopTimers
  <2>1. LET ms == IF attr.appDisc THEN <<Msg("ATTR_DISCONNECT")>> ELSE <<>>
        IN  ms \in Seq(Message) /\ ~Holds(ms, "EVENT")
    BY <1>0, MsgType DEF Codes
  <2>. QED  BY <1>3, <1>9, <2>1 DEF ConnectedStopTimers
<1>10. CASE DisconnectedCallback
  BY <1>4, <1>10 DEF DisconnectedCallback, AfterDisconnect, Codes
<1>11. CASE SendEventDataAdvert
  <2>1. <<[code |-> "EVENT", id |-> nextId]>> \in Seq(Message)
    BY DEF TypeOK, Message, Codes
  <2>. QED  BY <1>3, <1>11, <2>1 DEF SendEventDataAdvert
<1>12. CASE WriteAttribute \/ EnterActiveMode
  <2>1. {"ATTR_DATA", "ATTR_INTERVAL", "ATTR_PHY", "ATTR_DISCONNECT", "ENTER_ACTIVE"}
          \subseteq Codes \ {"EVENT"}
    BY DEF Codes
  <2>. QED  BY <1>4, <1>12, <2>1 DEF WriteAttribute, EnterActiveMode
<1>13. CASE Reboot \/ DisconnectedUnrefNull
  BY <1>13 DEF Reboot, DisconnectedUnrefNull
<1>. QED  BY <1>5, <1>6, <1>7, <1>8, <1>9, <1>10, <1>11, <1>12, <1>13
          DEF Next, Device, Environment

\* Between resets a message stays in the queue until it is the one handled, and a loss is
\* never forgotten.
LEMMA MessagesKept ==
  ASSUME TypeOK, Next, ~Boot
  PROVE  /\ \A code : HasMsg(code) /\ ~(HandleMessage /\ Receives(code)) => HasMsg(code)'
         /\ ~lost' => ~lost
<1>1. PICK ms \in Seq(Message) :
        \/ Post(bleQ, ms)
        \/ \E code \in Codes : HandleMessage /\ Receives(code) /\ Post(Tail(bleQ), ms)
  BY StepPosts
<1>2. \A code : (HasMsg(code) <=> Holds(bleQ, code)) /\ (HasMsg(code)' <=> Holds(bleQ', code))
  BY DEF HasMsg, Holds
<1>3. CASE Post(bleQ, ms)
  BY <1>2, <1>3, PostHolds DEF TypeOK
<1>4. ASSUME NEW c \in Codes, HandleMessage, Receives(c), Post(Tail(bleQ), ms)
      PROVE  /\ \A code : HasMsg(code) /\ ~(HandleMessage /\ Receives(code)) => HasMsg(code)'
             /\ ~lost' => ~lost
  <2>1. Tail(bleQ) \in Seq(Message) /\ Len(Tail(bleQ)) <= QueueDepth
    BY <1>4, ReceiveType
  <2>2. \A code : Holds(Tail(bleQ), code) => Holds(bleQ', code)
    BY <1>4, <2>1, PostHolds
  <2>3. ~lost' => ~lost
    BY <1>4, <2>1, PostHolds
  <2>4. \A code : HasMsg(code) /\ ~Receives(code) => Holds(Tail(bleQ), code)
    BY <1>4, ReceiveHolds
  <2>. QED  BY <1>2, <1>4, <2>2, <2>3, <2>4
<1>. QED  BY <1>1, <1>3, <1>4

\* While the connected callback runs the connection is there, and only an active device
\* stores events.
CallbackConnected == btPc = "stopTimers" => ble.conn
StoredWhenActive == advertQ # <<>> => ble.active

PumpInv == PumpArmed /\ CallbackConnected /\ StoredWhenActive

\* Nothing is stored at power-up, so the pump need not be armed.
LEMMA PumpInit == Init => PumpInv
BY DEF Init, PumpInv, PumpArmed, CallbackConnected, StoredWhenActive

\* No step leaves stored events without a timer, a message or a callback that takes them out.
LEMMA PumpStep ==
  ASSUME TypeOK, PumpInv, Next
  PROVE  PumpInv'
<1>1. CASE Boot
  BY <1>1 DEF Boot, PumpInv, PumpArmed, CallbackConnected, StoredWhenActive
<1>. SUFFICES ASSUME ~Boot PROVE PumpInv'
  BY <1>1
<1>. USE DEF PumpInv, CallbackConnected, StoredWhenActive
<1>2. /\ HasMsg("UPDATE") /\ ~(HandleMessage /\ Receives("UPDATE")) => HasMsg("UPDATE")'
      /\ ~lost' => ~lost
  BY MessagesKept
\* A step that leaves the stored events, the connection and the duration timer alone.
<1>3. ASSUME advertQ' = advertQ, btPc' = btPc, ble'.conn = ble.conn,
             ble.active => ble'.active, ble.pc = "take" => ble'.pc = "take",
             "duration" \in timers => "duration" \in timers',
             ~(HandleMessage /\ Receives("UPDATE"))
      PROVE  PumpInv'
  BY <1>2, <1>3 DEF PumpArmed
<1>. USE DEF TypeOK, BleTaskObj
<1>4. CASE BleSensorUpdateMsgHandler \/ TakeEvent
  <2>1. advertQ' # <<>> => advertQ # <<>>
    BY <1>4 DEF BleSensorUpdateMsgHandler, TakeEvent, EventsAfterTake
  <2>2. ble.active /\ advertQ # <<>> => "duration" \in timers' \/ ble'.pc = "take"
    BY <1>4 DEF BleSensorUpdateMsgHandler, TakeEvent
  <2>3. btPc' = btPc /\ ble'.active = ble.active /\ ble'.conn = ble.conn
    BY <1>4 DEF BleSensorUpdateMsgHandler, TakeEvent
  <2>. QED  BY <2>1, <2>2, <2>3 DEF PumpArmed
<1>5. CASE BleSensorEventMsgHandler
  <2>1. CASE advertQ' = advertQ
    <3>1. ~Receives("UPDATE")
      BY <1>5 DEF BleSensorEventMsgHandler, Receives
    <3>. QED  BY <1>3, <1>5, <2>1, <3>1 DEF BleSensorEventMsgHandler
  <2>2. CASE ble.active /\ Post(Tail(bleQ), <<Msg("UPDATE")>>)
    <3>1. <<Msg("UPDATE")>> \in Seq(Message) /\ Holds(<<Msg("UPDATE")>>, "UPDATE")
      BY MsgType, MsgHolds DEF Codes
    <3>2. ~lost' => Holds(bleQ', "UPDATE")
      BY <1>5, <2>2, <3>1, PostHolds, ReceiveType DEF BleSensorEventMsgHandler
    <3>3. UNCHANGED <<ble, btPc>>
      BY <1>5 DEF BleSensorEventMsgHandler
    <3>. QED  BY <2>2, <3>2, <3>3 DEF PumpArmed, HasMsg, Holds
  <2>. QED  BY <1>5, <2>1, <2>2 DEF BleSensorEventMsgHandler
<1>6. CASE DurationTimerCallbackIsr
  <2>1. <<Msg("UPDATE")>> \in Seq(Message) /\ Holds(<<Msg("UPDATE")>>, "UPDATE")
    BY MsgType, MsgHolds DEF Codes
  <2>2. ~lost' => Holds(bleQ', "UPDATE")
    BY <1>6, <2>1, PostHolds DEF DurationTimerCallbackIsr
  <2>. QED  BY <1>6, <2>2 DEF DurationTimerCallbackIsr, PumpArmed, HasMsg, Holds
<1>7. CASE ConnectedCallback
  BY <1>7 DEF ConnectedCallback, PumpArmed
<1>8. CASE ConnectedStopTimers
  BY <1>8 DEF ConnectedStopTimers, PumpArmed
<1>9. CASE DisconnectedCallback
  BY <1>9 DEF DisconnectedCallback, EventsAfterDisconnect, PumpArmed
<1>10. CASE \/ StartAdvertisingMsgHandler \/ EndAdvertisingMsgHandler \/ DataAttrChanged
            \/ IntervalAttrChanged \/ PhyAttrChanged \/ DisconnectAttrChanged
            \/ SeverConnectionHandler
  BY <1>3, <1>10
     DEF StartAdvertisingMsgHandler, EndAdvertisingMsgHandler, DataAttrChanged,
         IntervalAttrChanged, PhyAttrChanged, DisconnectAttrChanged,
         SeverConnectionHandler, Receives
<1>11. CASE BleEnterActiveModeMsgHandler \/ ArmEnterActiveModeTimer
  BY <1>3, <1>11 DEF BleEnterActiveModeMsgHandler, ArmEnterActiveModeTimer, Receives
<1>12. CASE HandleMessage
  BY <1>4, <1>5, <1>10, <1>11, <1>12 DEF HandleMessage
<1>13. CASE ~HandleMessage
  <2>1. CASE \/ BootAdvertTimerCallbackIsr \/ EnterActiveModeTimerCallbackIsr
             \/ upgrade_advert_phy_timer_callback_isr \/ AppDisconnectCallbackIsr
    BY <1>3, <1>13, <2>1
       DEF BootAdvertTimerCallbackIsr, EnterActiveModeTimerCallbackIsr,
           upgrade_advert_phy_timer_callback_isr, AppDisconnectCallbackIsr
  <2>2. CASE QueuedUpdateAdvertisement \/ QueuedUpdateDone
    BY <1>3, <1>13, <2>2 DEF QueuedUpdateAdvertisement, QueuedUpdateDone
  <2>3. CASE \/ SendEventDataAdvert \/ WriteAttribute \/ EnterActiveMode \/ EnterShelfMode
             \/ mcumgr_mgmt_callback
    BY <1>3, <1>13, <2>3
       DEF SendEventDataAdvert, WriteAttribute, EnterActiveMode, EnterShelfMode,
           mcumgr_mgmt_callback
  <2>. QED  BY <1>6, <1>7, <1>8, <1>9, <1>13, <2>1, <2>2, <2>3
            DEF Next, Device, Environment, TimerFires, Reboot, DisconnectedUnrefNull
<1>. QED  BY <1>12, <1>13

\* Events that wait are never stranded: while none of its messages is dropped, an active
\* device with stored events has the duration timer, its message or a connection.
THEOREM PumpNeverStalls == Spec => []PumpArmed
<1>1. Init => PumpInv
  BY PumpInit
<1>2. TypeOK /\ PumpInv /\ [Next]_vars => PumpInv'
  <2>. SUFFICES ASSUME TypeOK, PumpInv, [Next]_vars PROVE PumpInv'
    OBVIOUS
  <2>1. CASE Next
    BY <2>1, PumpStep
  <2>2. CASE UNCHANGED vars
    BY <2>2 DEF vars, PumpInv, PumpArmed, CallbackConnected, StoredWhenActive, HasMsg
  <2>. QED  BY <2>1, <2>2
<1>3. PumpInv => PumpArmed
  BY DEF PumpInv
<1>. QED  BY <1>1, <1>2, <1>3, TypeCorrect, PTL DEF Spec

\* At power-up the set is on the configured PHY, or the timer of the window runs.
LEMMA PhyInit == Init => PhyRestored
<1>. SUFFICES ASSUME Init PROVE PhyRestored
  OBVIOUS
<1>1. PICK active \in BOOLEAN, phy \in Phy, bootPhy \in {"Default"} \cup Phy :
        LET at == [active |-> active, phy |-> phy, bootPhy |-> bootPhy, appDisc |-> FALSE]
        IN  /\ adv = BootAdvertiser(at)
            /\ ble = BootTask(at)
            /\ timers = BootTimers(at)
  BY DEF Init
<1>. DEFINE at == [active |-> active, phy |-> phy, bootPhy |-> bootPhy, appDisc |-> FALSE]
<1>2. at \in Attributes
  BY DEF Attributes
<1>3. /\ adv.fast = FALSE
      /\ at.bootPhy = "Default" /\ at.active => adv.phy = at.phy
  BY <1>1, <1>2, BootAdvertiserType
<1>4. ble.active = at.active /\ ble.cfgPhy = at.phy
  BY <1>1 DEF BootTask
<1>5. at.bootPhy # "Default" => "upgrade" \in timers
  BY <1>1 DEF BootTimers
<1>. QED  BY <1>3, <1>4, <1>5 DEF PhyRestored, Restoring

\* No step leaves the set on a PHY other than the configured one with nothing to move it back.
LEMMA PhyStep ==
  ASSUME TypeOK, PumpInv, PhyRestored, Next
  PROVE  PhyRestored'
<1>1. CASE Boot
  <2>1. /\ adv'.fast = FALSE
        /\ attr.bootPhy = "Default" /\ attr.active => adv'.phy = attr.phy
    BY <1>1, BootAdvertiserType DEF Boot, TypeOK
  <2>2. ble'.active = attr.active /\ ble'.cfgPhy = attr.phy
    BY <1>1 DEF Boot, BootTask
  <2>3. attr.bootPhy # "Default" => "upgrade" \in timers'
    BY <1>1 DEF Boot, BootTimers
  <2>. QED  BY <2>1, <2>2, <2>3 DEF PhyRestored, Restoring
<1>. SUFFICES ASSUME ~Boot PROVE PhyRestored'
  BY <1>1
<1>2. /\ HasMsg("START") /\ ~(HandleMessage /\ Receives("START")) => HasMsg("START")'
      /\ ~lost' => ~lost
  BY MessagesKept
\* A step that leaves the task's state alone and neither moves the advertiser nor stops a
\* timer that restores it.
<1>3. ASSUME UNCHANGED ble, adv'.phy = adv.phy, adv'.fast => adv.fast,
             timers \cap {"enterActive", "upgrade"} \subseteq timers',
             ~(HandleMessage /\ Receives("START"))
      PROVE  PhyRestored'
  BY <1>2, <1>3 DEF PhyRestored, Restoring
<1>. USE DEF TypeOK
<1>4. CASE StartAdvertisingMsgHandler
  <2>1. CASE ble.active
    <3>. DEFINE onPhy == Advertisement_ExtendedSet(adv, ble.cfgPhy)
                retimed == Advertisement_IntervalUpdate(onPhy)
    <3>1. onPhy \in Advertiser /\ onPhy.phy = ble.cfgPhy
      BY AdvertiserClosed, AdvertiserFrame DEF BleTaskObj
    <3>3. adv' = Advertisement_Start(retimed)
      BY <1>4, <2>1 DEF StartAdvertisingMsgHandler
    <3>. HIDE DEF onPhy
    <3>4. retimed \in Advertiser /\ retimed.phy = onPhy.phy /\ retimed.fast = FALSE
      BY <3>1, AdvertiserClosed, AdvertiserFrame
    <3>. HIDE DEF retimed
    <3>2. adv'.phy = ble.cfgPhy /\ adv'.fast = FALSE
      BY <3>1, <3>3, <3>4, AdvertiserFrame
    <3>. QED  BY <1>4, <3>2 DEF StartAdvertisingMsgHandler, PhyRestored
  <2>2. CASE ~ble.active
    BY <1>4, <2>2 DEF StartAdvertisingMsgHandler, PhyRestored
  <2>. QED  BY <2>1, <2>2
<1>5. CASE PhyAttrChanged
  <2>1. ~(HandleMessage /\ Receives("START"))
    BY <1>5 DEF PhyAttrChanged, Receives
  <2>2. ble.active => adv'.phy = attr.phy /\ adv'.fast = adv.fast
    BY <1>5, AdvertiserFrame DEF PhyAttrChanged, Attributes
  <2>3. /\ ble'.active = ble.active /\ ble'.cfgPhy = attr.phy
        /\ ble'.conn = ble.conn /\ ble'.pc = ble.pc
    BY <1>5 DEF PhyAttrChanged, BleTaskObj
  <2>4. timers' = timers
    BY <1>5 DEF PhyAttrChanged
  <2>. QED  BY <1>2, <2>1, <2>2, <2>3, <2>4 DEF PhyRestored, Restoring
<1>6. CASE BleEnterActiveModeMsgHandler
  <2>1. CASE ble.conn
    <3>1. ble'.conn
      BY <1>6, <2>1 DEF BleEnterActiveModeMsgHandler, BleTaskObj
    <3>. QED  BY <3>1 DEF PhyRestored, Restoring
  <2>2. CASE ~ble.conn
    <3>1. ble'.pc = "arm"
      BY <1>6, <2>2 DEF BleEnterActiveModeMsgHandler, BleTaskObj
    <3>. QED  BY <3>1 DEF PhyRestored, Restoring
  <2>. QED  BY <2>1, <2>2
<1>7. CASE ArmEnterActiveModeTimer
  BY <1>7 DEF ArmEnterActiveModeTimer, PhyRestored, Restoring
<1>8. CASE EnterActiveModeTimerCallbackIsr
  <2>1. <<Msg("START")>> \in Seq(Message) /\ Holds(<<Msg("START")>>, "START")
    BY MsgType, MsgHolds DEF Codes
  <2>2. ~lost' => Holds(bleQ', "START")
    BY <1>8, <2>1, PostHolds DEF EnterActiveModeTimerCallbackIsr
  <2>. QED  BY <2>2 DEF PhyRestored, Restoring, HasMsg, Holds
<1>9. CASE upgrade_advert_phy_timer_callback_isr
  <2>1. CASE ble.active
    <3>1. ~lost' => Holds(bleQ', "START")
      BY <1>9, <2>1, MsgType, MsgHolds, PostHolds
         DEF upgrade_advert_phy_timer_callback_isr, AfterUpgradeWindow
    <3>. QED  BY <3>1 DEF PhyRestored, Restoring, HasMsg, Holds
  <2>2. CASE ~ble.active
    BY <1>9, <2>2 DEF upgrade_advert_phy_timer_callback_isr, PhyRestored
  <2>. QED  BY <2>1, <2>2
<1>10. CASE ConnectedCallback \/ ConnectedStopTimers
  <2>1. ble'.conn
    BY <1>10 DEF ConnectedCallback, ConnectedStopTimers, BleTaskObj, PumpInv, CallbackConnected
  <2>. QED  BY <2>1 DEF PhyRestored, Restoring
<1>11. CASE DisconnectedCallback
  <2>1. <<Msg("START")>> \in Seq(Message) /\ Holds(<<Msg("START")>>, "START")
    BY MsgType, MsgHolds DEF Codes
  <2>2. ~lost' => Holds(bleQ', "START")
    BY <1>11, <2>1, PostHolds DEF DisconnectedCallback, AfterDisconnect
  <2>. QED  BY <2>2 DEF PhyRestored, Restoring, HasMsg, Holds
<1>12. CASE EndAdvertisingMsgHandler \/ IntervalAttrChanged
  <2>1. ~Receives("START")
    BY <1>12 DEF EndAdvertisingMsgHandler, IntervalAttrChanged, Receives
  <2>2. adv'.phy = adv.phy /\ (adv'.fast => adv.fast)
    BY <1>12, AdvertiserFrame DEF EndAdvertisingMsgHandler, IntervalAttrChanged
  <2>. QED  BY <1>3, <1>12, <2>1, <2>2 DEF EndAdvertisingMsgHandler, IntervalAttrChanged
<1>13. CASE \/ DataAttrChanged \/ DisconnectAttrChanged
            \/ SeverConnectionHandler \/ BleSensorEventMsgHandler
  <2>1. ~Receives("START")
    BY <1>13 DEF DataAttrChanged, DisconnectAttrChanged,
                 SeverConnectionHandler, BleSensorEventMsgHandler, Receives
  <2>2. timers \subseteq timers' /\ UNCHANGED <<ble, adv>>
    BY <1>13 DEF DataAttrChanged, DisconnectAttrChanged,
                 SeverConnectionHandler, BleSensorEventMsgHandler
  <2>. QED  BY <1>3, <2>1, <2>2
<1>16. CASE BleSensorUpdateMsgHandler \/ TakeEvent
  <2>1. ~Receives("START") /\ ble.pc # "arm"
    BY <1>16 DEF BleSensorUpdateMsgHandler, TakeEvent, Receives
  <2>2. /\ timers \subseteq timers' /\ UNCHANGED adv
        /\ ble'.active = ble.active /\ ble'.cfgPhy = ble.cfgPhy /\ ble'.conn = ble.conn
    BY <1>16 DEF BleSensorUpdateMsgHandler, TakeEvent, BleTaskObj
  <2>. QED  BY <1>2, <2>1, <2>2 DEF PhyRestored, Restoring
<1>14. CASE HandleMessage
  BY <1>4, <1>5, <1>6, <1>7, <1>12, <1>13, <1>14, <1>16 DEF HandleMessage
<1>15. CASE ~HandleMessage
  <2>1. CASE \/ DurationTimerCallbackIsr \/ BootAdvertTimerCallbackIsr \/ AppDisconnectCallbackIsr
    BY <1>3, <1>15, <2>1
       DEF DurationTimerCallbackIsr, BootAdvertTimerCallbackIsr, AppDisconnectCallbackIsr
  <2>2. CASE QueuedUpdateAdvertisement \/ QueuedUpdateDone
    <3>1. adv'.phy = adv.phy /\ adv'.fast = adv.fast
      BY <2>2, AdvertiserFrame DEF QueuedUpdateAdvertisement, QueuedUpdateDone
    <3>. QED  BY <1>3, <1>15, <2>2, <3>1 DEF QueuedUpdateAdvertisement, QueuedUpdateDone
  <2>3. CASE \/ SendEventDataAdvert \/ WriteAttribute \/ EnterActiveMode \/ EnterShelfMode
             \/ mcumgr_mgmt_callback
    BY <1>3, <1>15, <2>3
       DEF SendEventDataAdvert, WriteAttribute, EnterActiveMode, EnterShelfMode,
           mcumgr_mgmt_callback
  <2>. QED  BY <1>8, <1>9, <1>10, <1>11, <1>15, <2>1, <2>2, <2>3
            DEF Next, Device, Environment, TimerFires, Reboot, DisconnectedUnrefNull
<1>. QED  BY <1>14, <1>15

\* An active device is never stranded on the PHY or the interval of a 30 s window: while
\* none of its messages is dropped, something is under way that ends the window.
THEOREM PhyAlwaysRestored == Spec => []PhyRestored
<1>1. Init => PumpInv /\ PhyRestored
  BY PumpInit, PhyInit
<1>2. TypeOK /\ PumpInv /\ PhyRestored /\ [Next]_vars => PumpInv' /\ PhyRestored'
  <2>. SUFFICES ASSUME TypeOK, PumpInv, PhyRestored, [Next]_vars PROVE PumpInv' /\ PhyRestored'
    OBVIOUS
  <2>1. CASE Next
    BY <2>1, PumpStep, PhyStep
  <2>2. CASE UNCHANGED vars
    BY <2>2 DEF vars, PumpInv, PumpArmed, CallbackConnected, StoredWhenActive, HasMsg,
                PhyRestored, Restoring
  <2>. QED  BY <2>1, <2>2
<1>. QED  BY <1>1, <1>2, TypeCorrect, PTL DEF Spec
=============================================================================
