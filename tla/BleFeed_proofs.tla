--------------------------- MODULE BleFeed_proofs ---------------------------
(***************************************************************************)
(* The path from the event task to the advertisement keeps its order: the  *)
(* BLE task implements EventFeed.tla, for any depth of the queues, any     *)
(* number of stimuli, and messages that are lost or not.                   *)
(***************************************************************************)
EXTENDS BleTask_proofs, FiniteSetTheorems

----------------------------------------------------------------------------
(* The inductive invariant                                                 *)

\* Ids increase from the advertisement over the work item, ble_task_advert_queue and the messages
\* in bleTaskQueue up to the next one.
ShownFirst == shown < nextId /\ work.event < nextId /\ (work.event = 0 \/ shown <= work.event)

StoredOrdered ==
  /\ \A i \in DOMAIN advertQ : shown < advertQ[i] /\ work.event < advertQ[i] /\ advertQ[i] < nextId
  /\ \A i, j \in DOMAIN advertQ : i < j => advertQ[i] < advertQ[j]

\* What lies between the queue of messages and the advertisement, and the advertisement.
Stored == {shown, work.event} \cup {advertQ[i] : i \in DOMAIN advertQ}

\* An event on its way to the task is behind everything that is stored.
SentOrdered ==
  /\ \A i \in DOMAIN bleQ : bleQ[i].code = "EVENT" =>
       bleQ[i].id < nextId /\ \A e \in Stored : e < bleQ[i].id
  /\ \A i, j \in DOMAIN bleQ :
       i < j /\ bleQ[i].code = "EVENT" /\ bleQ[j].code = "EVENT" => bleQ[i].id < bleQ[j].id

FeedInv == ShownFirst /\ StoredOrdered /\ SentOrdered /\ nextId <= stimuli + 1

----------------------------------------------------------------------------
(* The queue of messages                                                   *)

\* q holds the events of p from the place d on, and no other.
EventsFrom(q, p, d) ==
  \A i \in DOMAIN q : q[i].code = "EVENT" => i + d \in DOMAIN p /\ q[i] = p[i + d]

\* Sending messages none of which is an event adds no event.
LEMMA PostKeepsEvents ==
  ASSUME NEW q \in Seq(Message), Len(q) <= QueueDepth, NEW ms \in Seq(Message),
         Post(q, ms), ~Holds(ms, "EVENT")
  PROVE  bleQ' \in Seq(Message) /\ EventsFrom(bleQ', q, 0)
<1>1. PICK some \in Seq(Message) :
        /\ bleQ' = q \o some
        /\ some = ms \/ some = <<>> \/ \E i \in DOMAIN ms : some = <<ms[i]>>
  BY PostAppends
<1>2. \A i \in DOMAIN some : some[i].code # "EVENT"
  BY <1>1 DEF Holds
<1>3. bleQ' \in Seq(Message)
  BY <1>1
<1>. SUFFICES ASSUME NEW i \in DOMAIN bleQ', bleQ'[i].code = "EVENT"
              PROVE  i + 0 \in DOMAIN q /\ bleQ'[i] = q[i + 0]
  BY <1>3 DEF EventsFrom
<1>4. i \in 1 .. Len(q) + Len(some)
  BY <1>1
<1>5. CASE i <= Len(q)
  BY <1>1, <1>4, <1>5
<1>6. CASE i > Len(q)
  <2>1. i - Len(q) \in DOMAIN some /\ bleQ'[i] = some[i - Len(q)]
    BY <1>1, <1>4, <1>6
  <2>. QED  BY <1>2, <2>1
<1>. QED  BY <1>4, <1>5, <1>6

\* So does sending them after the first message was taken off, of which no event is left.
LEMMA TailKeepsEvents ==
  ASSUME TypeOK, NEW code \in Codes, Receives(code), bleQ' \in Seq(Message),
         EventsFrom(bleQ', Tail(bleQ), 0)
  PROVE  EventsFrom(bleQ', bleQ, 1)
<1>1. bleQ \in Seq(Message) /\ bleQ # <<>>
  BY DEF TypeOK, Receives
<1>. SUFFICES ASSUME NEW i \in DOMAIN bleQ', bleQ'[i].code = "EVENT"
              PROVE  i + 1 \in DOMAIN bleQ /\ bleQ'[i] = bleQ[i + 1]
  BY DEF EventsFrom
<1>2. i + 0 \in DOMAIN Tail(bleQ) /\ bleQ'[i] = Tail(bleQ)[i + 0]
  BY DEF EventsFrom
<1>3. DOMAIN Tail(bleQ) = 1 .. Len(bleQ) - 1
  BY <1>1
<1>. QED  BY <1>1, <1>2, <1>3

\* Between resets nothing but the event task puts an event in the queue.
LEMMA EventsKept ==
  ASSUME TypeOK, Next, ~Boot, ~SendEventDataAdvert
  PROVE  EventsFrom(bleQ', bleQ, 0) \/ EventsFrom(bleQ', bleQ, 1)
<1>1. PICK ms \in Seq(Message) :
        /\ ~Holds(ms, "EVENT")
        /\ \/ Post(bleQ, ms)
           \/ \E code \in Codes : Receives(code) /\ Post(Tail(bleQ), ms)
  BY StepPosts
<1>2. CASE Post(bleQ, ms)
  BY <1>1, <1>2, PostKeepsEvents DEF TypeOK
<1>3. ASSUME NEW code \in Codes, Receives(code), Post(Tail(bleQ), ms)
      PROVE  EventsFrom(bleQ', bleQ, 1)
  BY <1>1, <1>3, ReceiveType, PostKeepsEvents, TailKeepsEvents
<1>. QED  BY <1>1, <1>2, <1>3

\* Nor does a handler that sends nothing.
LEMMA MessageTaken ==
  ASSUME TypeOK, NEW code \in Codes, Receives(code), bleQ' = Tail(bleQ)
  PROVE  EventsFrom(bleQ', bleQ, 1)
<1>1. Tail(bleQ) \in Seq(Message)
  BY ReceiveType
<1>2. EventsFrom(Tail(bleQ), Tail(bleQ), 0)
  BY <1>1 DEF EventsFrom
<1>. QED  BY <1>1, <1>2, TailKeepsEvents

\* The event that is handled is taken out.
LEMMA EventTaken ==
  ASSUME TypeOK, BleSensorEventMsgHandler
  PROVE  EventsFrom(bleQ', bleQ, 1)
<1>1. Receives("EVENT") /\ "EVENT" \in Codes /\ "UPDATE" \in Codes
  BY DEF BleSensorEventMsgHandler, Codes
<1>2. Tail(bleQ) \in Seq(Message) /\ Len(Tail(bleQ)) <= QueueDepth
  BY <1>1, ReceiveType
<1>3. CASE bleQ' = Tail(bleQ)
  BY <1>1, <1>3, MessageTaken
<1>4. CASE Post(Tail(bleQ), <<Msg("UPDATE")>>)
  <2>1. <<Msg("UPDATE")>> \in Seq(Message) /\ ~Holds(<<Msg("UPDATE")>>, "EVENT")
    BY <1>1, MsgType DEF Holds, Msg
  <2>. QED  BY <1>1, <1>2, <1>4, <2>1, PostKeepsEvents, TailKeepsEvents
<1>. QED  BY <1>3, <1>4 DEF BleSensorEventMsgHandler

----------------------------------------------------------------------------
(* Every step preserves the order                                          *)

\* A step that invents no event, and stores none that is not before those that are sent, keeps
\* the messages behind everything that is stored.
LEMMA SentKept ==
  ASSUME TypeOK, SentOrdered, bleQ' \in Seq(Message), NEW d \in {0, 1},
         EventsFrom(bleQ', bleQ, d), nextId' \in Nat, nextId' >= nextId,
         \A i \in DOMAIN bleQ' : bleQ'[i].code = "EVENT" =>
            \A e \in Stored' \ Stored : e < bleQ'[i].id
  PROVE  SentOrdered'
<1>1. bleQ \in Seq(Message) /\ nextId \in Nat
  BY DEF TypeOK
<1>2. \A i \in DOMAIN bleQ' : bleQ'[i].code = "EVENT" =>
         i + d \in DOMAIN bleQ /\ bleQ'[i] = bleQ[i + d]
  BY DEF EventsFrom
<1>3. ASSUME NEW i \in DOMAIN bleQ', NEW j \in DOMAIN bleQ', i < j,
             bleQ'[i].code = "EVENT", bleQ'[j].code = "EVENT"
      PROVE  bleQ'[i].id < bleQ'[j].id
  BY <1>1, <1>2, <1>3 DEF SentOrdered
<1>4. ASSUME NEW i \in DOMAIN bleQ', bleQ'[i].code = "EVENT"
      PROVE  bleQ'[i].id < nextId' /\ \A e \in Stored' : e < bleQ'[i].id
  <2>1. i + d \in DOMAIN bleQ /\ bleQ'[i] = bleQ[i + d]
    BY <1>2, <1>4
  <2>2. /\ bleQ[i + d].id \in Nat /\ bleQ[i + d].id < nextId
        /\ \A e \in Stored : e < bleQ[i + d].id
    <3>1. bleQ[i + d] \in Message
      BY <1>1, <2>1
    <3>2. bleQ[i + d].id \in Nat
      BY <3>1 DEF Message
    <3>. QED  BY <1>4, <2>1, <3>2 DEF SentOrdered
  <2>. QED  BY <1>1, <1>4, <2>1, <2>2
<1>. QED  BY <1>3, <1>4 DEF SentOrdered

\* A step that stores nothing new but the dummy keeps the order of what is left.
LEMMA OrderKept ==
  ASSUME TypeOK, TypeOK', FeedInv, NEW d \in {0, 1}, EventsFrom(bleQ', bleQ, d),
         Stored' \subseteq Stored \cup {0}, nextId' = nextId
  PROVE  SentOrdered'
<1>1. /\ bleQ \in Seq(Message) /\ bleQ' \in Seq(Message)
      /\ nextId \in Nat /\ shown \in Nat
  BY DEF TypeOK
<1>2. ASSUME NEW i \in DOMAIN bleQ', bleQ'[i].code = "EVENT", NEW e \in Stored' \ Stored
      PROVE  e < bleQ'[i].id
  <2>1. e = 0
    BY <1>2
  <2>2. i + d \in DOMAIN bleQ /\ bleQ'[i] = bleQ[i + d]
    BY <1>2 DEF EventsFrom
  <2>3. bleQ[i + d] \in Message
    BY <1>1, <2>2
  <2>4. bleQ[i + d].id \in Nat /\ shown < bleQ[i + d].id
    BY <1>2, <2>2, <2>3 DEF FeedInv, SentOrdered, Stored, Message
  <2>. QED  BY <1>1, <2>1, <2>2, <2>4
<1>3. nextId' \in Nat /\ nextId' >= nextId /\ SentOrdered
  BY <1>1 DEF FeedInv
<1>. QED  BY <1>1, <1>2, <1>3, SentKept

\* All but six of the steps leave the advertisement, the work item's event and the queue of
\* events alone.
LEMMA FeedFrame ==
  ASSUME TypeOK, Next, ~Boot, ~DataAttrChanged, ~TakeEvent,
         ~BleSensorEventMsgHandler, ~QueuedUpdateAdvertisement, ~DisconnectedCallback,
         ~SendEventDataAdvert
  PROVE  /\ UNCHANGED <<shown, advertQ, nextId>>
         /\ work'.event = work.event
         /\ stimuli' >= stimuli
<1>1. stimuli \in Nat
  BY BleTaskAssumption DEF TypeOK
<1>2. CASE HandleMessage
  BY <1>1, <1>2 DEF HandleMessage, StartAdvertisingMsgHandler, EndAdvertisingMsgHandler,
     IntervalAttrChanged, PhyAttrChanged, DisconnectAttrChanged, SeverConnectionHandler,
     BleEnterActiveModeMsgHandler, ArmEnterActiveModeTimer, BleSensorUpdateMsgHandler
<1>3. CASE TimerFires
  BY <1>1, <1>3 DEF TimerFires, DurationTimerCallbackIsr, BootAdvertTimerCallbackIsr,
     EnterActiveModeTimerCallbackIsr, upgrade_advert_phy_timer_callback_isr,
     AppDisconnectCallbackIsr
<1>4. CASE QueuedUpdateDone
  BY <1>1, <1>4 DEF QueuedUpdateDone, TypeOK, WorkItem
<1>5. CASE ConnectedStopTimers \/ ConnectedCallback
  BY <1>1, <1>5 DEF ConnectedStopTimers, ConnectedCallback, Stimulus
<1>6. CASE WriteAttribute \/ EnterActiveMode \/ EnterShelfMode \/ mcumgr_mgmt_callback
  BY <1>1, <1>6 DEF WriteAttribute, EnterActiveMode, EnterShelfMode, mcumgr_mgmt_callback,
     Stimulus
<1>. QED  BY <1>2, <1>3, <1>4, <1>5, <1>6
          DEF Next, Device, Environment, DisconnectedUnrefNull, Reboot

\* What a message carries on its way to the task is behind what is stored, and before what
\* follows it in the queue.
LEMMA HeadFollows ==
  ASSUME TypeOK, FeedInv, Receives("EVENT")
  PROVE  /\ Head(bleQ).id \in Nat /\ Head(bleQ).id < nextId
         /\ \A e \in Stored : e < Head(bleQ).id
         /\ \A i \in DOMAIN bleQ : i > 1 /\ bleQ[i].code = "EVENT" => Head(bleQ).id < bleQ[i].id
<1>1. bleQ \in Seq(Message) /\ bleQ # <<>> /\ Head(bleQ).code = "EVENT"
  BY DEF TypeOK, Receives
<1>2. 1 \in DOMAIN bleQ /\ Head(bleQ) = bleQ[1] /\ bleQ[1] \in Message
  BY <1>1
<1>3. Head(bleQ).id \in Nat
  BY <1>2 DEF Message
<1>. QED  BY <1>1, <1>2, <1>3 DEF FeedInv, SentOrdered

----------------------------------------------------------------------------
(* The steps that move an event                                            *)

\* The task stores the event it is handed, or drops it.
LEMMA EventStep ==
  ASSUME TypeOK, TypeOK', FeedInv, BleSensorEventMsgHandler
  PROVE  FeedInv'
<1>. DEFINE id == Head(bleQ).id
<1>1. Receives("EVENT") /\ EventsFrom(bleQ', bleQ, 1) /\ UNCHANGED <<shown, work, nextId, stimuli>>
  BY EventTaken DEF BleSensorEventMsgHandler
<1>2. /\ id \in Nat /\ id < nextId
      /\ \A e \in Stored : e < id
      /\ \A i \in DOMAIN bleQ : i > 1 /\ bleQ[i].code = "EVENT" => id < bleQ[i].id
  BY <1>1, HeadFollows
<1>3. /\ bleQ \in Seq(Message) /\ bleQ' \in Seq(Message) /\ advertQ \in Seq(Nat)
      /\ nextId \in Nat /\ shown \in Nat /\ work.event \in Nat /\ stimuli \in Nat
  BY BleTaskAssumption DEF TypeOK, WorkItem
<1>. HIDE DEF id
<1>4. CASE advertQ' = advertQ
  <2>1. ShownFirst' /\ StoredOrdered' /\ Stored' = Stored
    BY <1>1, <1>4 DEF FeedInv, ShownFirst, StoredOrdered, Stored
  <2>2. SentOrdered'
    BY <1>1, <1>3, <2>1, OrderKept
  <2>. QED  BY <1>1, <2>1, <2>2 DEF FeedInv
<1>5. CASE advertQ' = Append(advertQ, id)
  <2>1. \A i \in DOMAIN advertQ' :
          \/ i \in DOMAIN advertQ /\ advertQ'[i] = advertQ[i]
          \/ i = Len(advertQ) + 1 /\ advertQ'[i] = id
    <3>1. DOMAIN advertQ' = 1 .. Len(advertQ) + 1 /\ DOMAIN advertQ = 1 .. Len(advertQ)
      BY <1>2, <1>3, <1>5
    <3>. QED  BY <1>2, <1>3, <1>5, <3>1
  <2>2. \A i \in DOMAIN advertQ : advertQ[i] \in Nat /\ advertQ[i] < id
    BY <1>2, <1>3 DEF Stored
  <2>3. shown < id /\ work.event < id
    BY <1>2 DEF Stored
  <2>4. \A i \in DOMAIN advertQ :
          shown < advertQ[i] /\ work.event < advertQ[i] /\ advertQ[i] < nextId
    BY DEF FeedInv, StoredOrdered
  <2>5. StoredOrdered'
    <3>1. ASSUME NEW i \in DOMAIN advertQ'
          PROVE  shown' < advertQ'[i] /\ work'.event < advertQ'[i] /\ advertQ'[i] < nextId'
      BY <1>1, <1>2, <2>1, <2>3, <2>4
    <3>2. ASSUME NEW i \in DOMAIN advertQ', NEW j \in DOMAIN advertQ', i < j
          PROVE  advertQ'[i] < advertQ'[j]
      <4>1. i \in DOMAIN advertQ /\ advertQ'[i] = advertQ[i]
        <5>1. DOMAIN advertQ' = 1 .. Len(advertQ) + 1
          BY <1>2, <1>3, <1>5
        <5>. QED  BY <1>3, <2>1, <3>2, <5>1
      <4>. QED  BY <2>1, <2>2, <3>2, <4>1 DEF FeedInv, StoredOrdered
    <3>. QED  BY <3>1, <3>2 DEF StoredOrdered
  <2>6. \A e \in Stored' \ Stored : e = id
    BY <1>1, <2>1 DEF Stored
  <2>7. ASSUME NEW i \in DOMAIN bleQ', bleQ'[i].code = "EVENT"
        PROVE  id < bleQ'[i].id
    BY <1>1, <1>2, <1>3, <2>7 DEF EventsFrom
  <2>8. SentOrdered'
    BY <1>1, <1>3, <2>6, <2>7, SentKept DEF FeedInv
  <2>. QED  BY <1>1, <2>5, <2>8 DEF FeedInv, ShownFirst
<1>. QED  BY <1>4, <1>5 DEF BleSensorEventMsgHandler, EventsAfterStore, id

\* The task gives the first stored event to the work item.
LEMMA TakeStep ==
  ASSUME TypeOK, TypeOK', FeedInv, TakeEvent
  PROVE  FeedInv'
<1>1. /\ UNCHANGED <<shown, nextId, stimuli, bleQ>>
      /\ advertQ # <<>> /\ Advertisement_Update(Head(advertQ)) /\ advertQ' = Tail(advertQ)
  BY DEF TakeEvent, EventsAfterTake
<1>2. /\ advertQ \in Seq(Nat) /\ nextId \in Nat /\ shown \in Nat /\ work \in WorkItem
      /\ stimuli \in Nat /\ bleQ \in Seq(Message)
  BY BleTaskAssumption DEF TypeOK
<1>3. EventsFrom(bleQ', bleQ, 0)
  BY <1>1, <1>2 DEF EventsFrom
<1>4. /\ work'.event = advertQ[1] /\ 1 \in DOMAIN advertQ
      /\ \A i \in DOMAIN advertQ' : i + 1 \in DOMAIN advertQ /\ advertQ'[i] = advertQ[i + 1]
  BY <1>1, <1>2 DEF Advertisement_Update, WorkItem
<1>5. DOMAIN advertQ \subseteq Nat /\ DOMAIN advertQ' \subseteq Nat \ {0}
  BY <1>1, <1>2
<1>6. \A i \in DOMAIN advertQ : advertQ[i] \in Nat
  BY <1>2
<1>7. ShownFirst' /\ StoredOrdered'
  BY <1>1, <1>2, <1>4, <1>5, <1>6 DEF FeedInv, ShownFirst, StoredOrdered
<1>8. Stored' \subseteq Stored
  BY <1>1, <1>4 DEF Stored
<1>9. SentOrdered'
  BY <1>1, <1>3, <1>8, OrderKept
<1>. QED  BY <1>1, <1>7, <1>9 DEF FeedInv

\* A dummy update overwrites what the work item held.
LEMMA DummyStep ==
  ASSUME TypeOK, TypeOK', FeedInv, DataAttrChanged
  PROVE  FeedInv'
<1>1. /\ UNCHANGED <<shown, advertQ, nextId, stimuli>>
      /\ work'.event = 0
  BY DEF DataAttrChanged, Advertisement_Update, TypeOK, WorkItem
<1>2. EventsFrom(bleQ', bleQ, 1)
  BY MessageTaken DEF DataAttrChanged, Codes
<1>3. advertQ \in Seq(Nat) /\ shown \in Nat /\ nextId \in Nat \ {0}
  BY DEF TypeOK
<1>4. Stored' \subseteq Stored \cup {0}
  BY <1>1 DEF Stored
<1>5. SentOrdered'
  BY <1>1, <1>2, <1>4, OrderKept
<1>6. \A i \in DOMAIN advertQ : advertQ[i] \in Nat
  BY <1>3
<1>7. ShownFirst' /\ StoredOrdered'
  BY <1>1, <1>3, <1>6 DEF FeedInv, ShownFirst, StoredOrdered
<1>. QED  BY <1>1, <1>5, <1>7 DEF FeedInv

\* The work item shows its event.
LEMMA ShowStep ==
  ASSUME TypeOK, TypeOK', FeedInv, QueuedUpdateAdvertisement
  PROVE  FeedInv'
<1>1. /\ UNCHANGED <<bleQ, advertQ, nextId, stimuli>>
      /\ work'.event = work.event
      /\ shown' = IF work.event = 0 THEN shown ELSE work.event
  BY DEF QueuedUpdateAdvertisement, TypeOK, WorkItem
<1>2. EventsFrom(bleQ', bleQ, 0)
  BY <1>1 DEF EventsFrom, TypeOK
<1>3. Stored' \subseteq Stored
  BY <1>1 DEF Stored
<1>4. SentOrdered'
  BY <1>1, <1>2, <1>3, OrderKept
<1>5. ShownFirst' /\ StoredOrdered'
  BY <1>1 DEF FeedInv, ShownFirst, StoredOrdered, TypeOK, WorkItem
<1>. QED  BY <1>1, <1>4, <1>5 DEF FeedInv

\* The end of a connection purges the queue of events.
LEMMA PurgeStep ==
  ASSUME TypeOK, TypeOK', FeedInv, DisconnectedCallback
  PROVE  FeedInv'
<1>1. /\ UNCHANGED <<shown, work, nextId, stimuli>>
      /\ advertQ' = <<>>
      /\ Post(bleQ, <<Msg("START")>>)
  BY DEF DisconnectedCallback, EventsAfterDisconnect, AfterDisconnect
<1>2. <<Msg("START")>> \in Seq(Message) /\ ~Holds(<<Msg("START")>>, "EVENT")
  BY MsgType DEF Codes, Holds, Msg
<1>3. EventsFrom(bleQ', bleQ, 0)
  BY <1>1, <1>2, PostKeepsEvents DEF TypeOK
<1>4. Stored' \subseteq Stored
  BY <1>1 DEF Stored
<1>5. SentOrdered'
  BY <1>1, <1>3, <1>4, OrderKept
<1>6. ShownFirst' /\ StoredOrdered'
  BY <1>1 DEF FeedInv, ShownFirst, StoredOrdered
<1>. QED  BY <1>1, <1>5, <1>6 DEF FeedInv

\* The event task numbers a new event, which the queue takes or does not.
LEMMA SendStep ==
  ASSUME TypeOK, TypeOK', FeedInv, SendEventDataAdvert
  PROVE  FeedInv'
<1>. DEFINE new == [code |-> "EVENT", id |-> nextId]
<1>1. /\ UNCHANGED <<shown, work, advertQ>>
      /\ nextId' = nextId + 1 /\ stimuli' = stimuli + 1
      /\ Post(bleQ, <<new>>)
  BY DEF SendEventDataAdvert, Stimulus
<1>2. /\ bleQ \in Seq(Message) /\ Len(bleQ) <= QueueDepth /\ nextId \in Nat /\ stimuli \in Nat
      /\ shown \in Nat /\ work.event \in Nat /\ advertQ \in Seq(Nat)
  BY BleTaskAssumption DEF TypeOK, WorkItem
<1>3. new \in Message
  BY <1>2 DEF Message, Codes
<1>4. new.code = "EVENT" /\ new.id = nextId
  OBVIOUS
<1>. HIDE DEF new
<1>5. bleQ' = bleQ \/ bleQ' = Append(bleQ, new)
  <2>. DEFINE ms == <<new>>
  <2>0. ms \in Seq(Message) /\ DOMAIN ms = {1} /\ ms[1] = new /\ Post(bleQ, ms)
    BY <1>1, <1>3
  <2>. HIDE DEF ms
  <2>1. PICK some \in Seq(Message) :
          /\ bleQ' = bleQ \o some
          /\ some = ms \/ some = <<>> \/ \E i \in DOMAIN ms : some = <<ms[i]>>
    BY <1>2, <2>0, PostAppends
  <2>2. some = <<new>> \/ some = <<>>
    BY <2>0, <2>1 DEF ms
  <2>3. bleQ \o <<>> = bleQ /\ bleQ \o <<new>> = Append(bleQ, new)
    BY <1>2, <1>3
  <2>. QED  BY <2>1, <2>2, <2>3
<1>6. \A e \in Stored : e \in Nat /\ e < nextId
  <2>1. \A i \in DOMAIN advertQ : advertQ[i] \in Nat /\ advertQ[i] < nextId
    BY <1>2 DEF FeedInv, StoredOrdered
  <2>. QED  BY <1>2, <2>1 DEF FeedInv, ShownFirst, Stored
<1>7. Stored' = Stored
  BY <1>1 DEF Stored
<1>8. ShownFirst' /\ StoredOrdered'
  <2>1. \A i \in DOMAIN advertQ : advertQ[i] \in Nat
    BY <1>2
  <2>. QED  BY <1>1, <1>2, <2>1 DEF FeedInv, ShownFirst, StoredOrdered
<1>9. SentOrdered'
  <2>1. CASE bleQ' = bleQ
    <3>1. EventsFrom(bleQ', bleQ, 0) /\ bleQ' \in Seq(Message)
      BY <1>2, <2>1 DEF EventsFrom
    <3>2. nextId' \in Nat /\ nextId' >= nextId /\ SentOrdered
      BY <1>1, <1>2 DEF FeedInv
    <3>3. \A i \in DOMAIN bleQ' : bleQ'[i].code = "EVENT" =>
             \A e \in Stored' \ Stored : e < bleQ'[i].id
      BY <1>7
    <3>. QED  BY <3>1, <3>2, <3>3, SentKept
  <2>2. CASE bleQ' = Append(bleQ, new)
    <3>1. \A i \in DOMAIN bleQ' :
             \/ i \in DOMAIN bleQ /\ bleQ'[i] = bleQ[i]
             \/ i = Len(bleQ) + 1 /\ bleQ'[i] = new
      <4>1. DOMAIN bleQ' = 1 .. Len(bleQ) + 1 /\ DOMAIN bleQ = 1 .. Len(bleQ)
        BY <1>2, <1>3, <2>2
      <4>. QED  BY <1>2, <1>3, <2>2, <4>1
    <3>2. \A i \in DOMAIN bleQ : bleQ[i].code = "EVENT" =>
             bleQ[i].id \in Nat /\ bleQ[i].id < nextId /\ \A e \in Stored : e < bleQ[i].id
      <4>1. \A i \in DOMAIN bleQ : bleQ[i] \in Message
        BY <1>2
      <4>2. \A i \in DOMAIN bleQ : bleQ[i].id \in Nat
        BY <4>1 DEF Message
      <4>. QED  BY <4>2 DEF FeedInv, SentOrdered
    <3>3. ASSUME NEW i \in DOMAIN bleQ', bleQ'[i].code = "EVENT"
          PROVE  bleQ'[i].id < nextId' /\ \A e \in Stored' : e < bleQ'[i].id
      BY <1>1, <1>2, <1>4, <1>6, <1>7, <3>1, <3>2, <3>3
    <3>4. ASSUME NEW i \in DOMAIN bleQ', NEW j \in DOMAIN bleQ', i < j,
                 bleQ'[i].code = "EVENT", bleQ'[j].code = "EVENT"
          PROVE  bleQ'[i].id < bleQ'[j].id
      <4>1. i \in DOMAIN bleQ /\ bleQ'[i] = bleQ[i]
        <5>1. DOMAIN bleQ' = 1 .. Len(bleQ) + 1 /\ DOMAIN bleQ = 1 .. Len(bleQ)
          BY <1>2, <1>3, <2>2
        <5>. QED  BY <1>2, <3>1, <3>4, <5>1
      <4>2. CASE j \in DOMAIN bleQ /\ bleQ'[j] = bleQ[j]
        BY <3>4, <4>1, <4>2 DEF FeedInv, SentOrdered
      <4>3. CASE bleQ'[j] = new
        BY <1>4, <3>2, <3>4, <4>1, <4>3
      <4>. QED  BY <3>1, <4>2, <4>3
    <3>. QED  BY <3>3, <3>4 DEF SentOrdered
  <2>. QED  BY <1>5, <2>1, <2>2
<1>. QED  BY <1>1, <1>2, <1>8, <1>9 DEF FeedInv

\* A reset forgets every event, and the message a boot may post is none.
LEMMA FeedBoot ==
  ASSUME TypeOK, Boot, stimuli' \in Nat
  PROVE  FeedInv'
<1>1. /\ shown' = 0 /\ work'.event = 0 /\ advertQ' = <<>> /\ nextId' = 1
      /\ bleQ' = BootQueue(attr)
  BY DEF Boot, NoWork
<1>2. \A i \in DOMAIN bleQ' : bleQ'[i].code # "EVENT"
  BY <1>1 DEF BootQueue, Msg
<1>3. ShownFirst' /\ StoredOrdered' /\ SentOrdered'
  BY <1>1, <1>2 DEF ShownFirst, StoredOrdered, SentOrdered
<1>4. nextId' <= stimuli' + 1
  <2>1. \A n \in Nat : 1 <= n + 1
    OBVIOUS
  <2>. QED  BY <1>1, <2>1
<1>. QED  BY <1>3, <1>4 DEF FeedInv

\* The order holds in every reachable state.
LEMMA FeedInvariant == Spec => []FeedInv
<1>1. Init => FeedInv
  <2>. SUFFICES ASSUME Init PROVE FeedInv
    OBVIOUS
  <2>1. shown = 0 /\ work.event = 0 /\ advertQ = <<>> /\ nextId = 1 /\ stimuli = 0
    BY DEF Init, NoWork
  <2>2. \A i \in DOMAIN bleQ : bleQ[i].code # "EVENT"
    BY DEF Init, BootQueue, Msg
  <2>. QED  BY <2>1, <2>2 DEF FeedInv, ShownFirst, StoredOrdered, SentOrdered
<1>2. TypeOK /\ TypeOK' /\ FeedInv /\ [Next]_vars => FeedInv'
  <2>. SUFFICES ASSUME TypeOK, TypeOK', FeedInv, [Next]_vars PROVE FeedInv'
    OBVIOUS
  <2>1. CASE Boot
    BY <2>1, BleTaskAssumption, FeedBoot DEF TypeOK
  <2>2. CASE \/ DataAttrChanged \/ TakeEvent \/ BleSensorEventMsgHandler
             \/ QueuedUpdateAdvertisement \/ DisconnectedCallback \/ SendEventDataAdvert
    BY <2>2, DummyStep, TakeStep, EventStep, ShowStep, PurgeStep, SendStep
  <2>3. CASE UNCHANGED vars
    BY <2>3 DEF vars, FeedInv, ShownFirst, StoredOrdered, SentOrdered, Stored
  <2>4. CASE Next /\ ~Boot /\ ~(\/ DataAttrChanged \/ TakeEvent
                               \/ BleSensorEventMsgHandler \/ QueuedUpdateAdvertisement
                               \/ DisconnectedCallback \/ SendEventDataAdvert)
    <3>1. UNCHANGED <<shown, advertQ, nextId>> /\ work'.event = work.event /\ stimuli' >= stimuli
      BY <2>4, FeedFrame
    <3>2. PICK d \in {0, 1} : EventsFrom(bleQ', bleQ, d)
      BY <2>4, EventsKept
    <3>3. Stored' = Stored /\ ShownFirst' /\ StoredOrdered'
      BY <3>1 DEF FeedInv, ShownFirst, StoredOrdered, Stored
    <3>4. SentOrdered'
      BY <3>1, <3>2, <3>3, OrderKept
    <3>5. stimuli \in Nat /\ stimuli' \in Nat /\ nextId \in Nat
      BY BleTaskAssumption DEF TypeOK
    <3>6. \A m, n, k \in Nat : m >= n /\ k <= n + 1 => k <= m + 1
      OBVIOUS
    <3>7. nextId' <= stimuli' + 1
      <4>1. nextId <= stimuli + 1
        BY DEF FeedInv
      <4>. QED  BY <3>1, <3>5, <3>6, <4>1
    <3>. QED  BY <3>3, <3>4, <3>7 DEF FeedInv
  <2>. QED  BY <2>1, <2>2, <2>3, <2>4
<1>. QED  BY <1>1, <1>2, TypeCorrect, PTL DEF Spec

----------------------------------------------------------------------------
(* What the advertisement shows                                            *)

\* A step changes what is shown only when the work item runs, or in a reset.
LEMMA ShownFrame ==
  ASSUME TypeOK, [Next]_vars, ~Boot, ~QueuedUpdateAdvertisement
  PROVE  shown' = shown
<1>1. CASE UNCHANGED vars
  BY <1>1 DEF vars
<1>2. CASE \/ DataAttrChanged \/ TakeEvent \/ BleSensorEventMsgHandler
           \/ DisconnectedCallback \/ SendEventDataAdvert
  BY <1>2 DEF DataAttrChanged, TakeEvent, BleSensorEventMsgHandler,
     DisconnectedCallback, SendEventDataAdvert
<1>. QED  BY <1>1, <1>2, FeedFrame

\* From one boot to the next the advertised event is never replaced by an older one, however
\* dummy updates, purges and restarts of the duration timer interleave.
THEOREM AdvertOrdered == Spec => AdvertNeverGoesBack
<1>1. ASSUME TypeOK, FeedInv, [Next]_vars
      PROVE  [shown' >= shown \/ Boot]_vars
  <2>1. CASE QueuedUpdateAdvertisement
    <3>1. shown' = IF work.event = 0 THEN shown ELSE work.event
      BY <2>1 DEF QueuedUpdateAdvertisement
    <3>2. /\ shown \in Nat /\ work.event \in Nat
          /\ work.event = 0 \/ shown <= work.event
      BY <1>1 DEF FeedInv, ShownFirst, TypeOK, WorkItem
    <3>. QED  BY <3>1, <3>2
  <2>. QED  BY <1>1, <2>1, ShownFrame DEF TypeOK
<1>. QED  BY <1>1, TypeCorrect, FeedInvariant, PTL DEF Spec, AdvertNeverGoesBack

----------------------------------------------------------------------------
(* The refinement of EventFeed.tla                                         *)

\* What waits fits: the queue of events and the work item.
LEMMA WaitingBound ==
  ASSUME TypeOK
  PROVE  IsFiniteSet(Waiting) /\ Cardinality(Waiting) <= Len(advertQ) + 1
<1>. DEFINE queued == {advertQ[i] : i \in 1 .. Len(advertQ)}
<1>1. advertQ \in Seq(Nat) /\ Len(advertQ) \in Nat
  BY DEF TypeOK
<1>2. IsFiniteSet(1 .. Len(advertQ)) /\ Cardinality(1 .. Len(advertQ)) = Len(advertQ)
  <2>1. /\ IsFiniteSet(1 .. Len(advertQ))
        /\ Cardinality(1 .. Len(advertQ)) = IF 1 > Len(advertQ) THEN 0 ELSE Len(advertQ) - 1 + 1
    BY <1>1, FS_Interval
  <2>. QED  BY <1>1, <2>1
<1>3. advertQ \in Surjection(1 .. Len(advertQ), queued)
  BY <1>1 DEF Surjection
<1>4. IsFiniteSet(queued) /\ Cardinality(queued) <= Len(advertQ)
  BY <1>2, <1>3, FS_Surjection
<1>. HIDE DEF queued
<1>5. /\ IsFiniteSet(queued \cup {work.event})
      /\ Cardinality(queued \cup {work.event}) \in {Cardinality(queued), Cardinality(queued) + 1}
  BY <1>4, FS_AddElement
<1>6. Waiting \in SUBSET (queued \cup {work.event})
  BY <1>1 DEF Waiting, queued
<1>7. IsFiniteSet(Waiting) /\ Cardinality(Waiting) <= Cardinality(queued \cup {work.event})
  BY <1>5, <1>6, FS_Subset
<1>8. Cardinality(queued) \in Nat /\ Cardinality(Waiting) \in Nat
  BY <1>4, <1>7, FS_CardinalityType
<1>. QED  BY <1>1, <1>4, <1>5, <1>7, <1>8

\* Storing an event is accepting it.
LEMMA EventAccepted ==
  ASSUME TypeOK, FeedInv, BleSensorEventMsgHandler
  PROVE  Feed!Next
<1>. DEFINE id == Head(bleQ).id
<1>1. /\ Receives("EVENT") /\ UNCHANGED <<shown, work>>
      /\ \/ Len(advertQ) < AdvertDepth /\ advertQ' = Append(advertQ, id)
         \/ advertQ' = advertQ
  BY DEF BleSensorEventMsgHandler, EventQueueHasRoom, EventsAfterStore
<1>2. id \in Nat /\ id < nextId /\ \A e \in Stored : e < id
  BY <1>1, HeadFollows
<1>3. /\ advertQ \in Seq(Nat) /\ Len(advertQ) <= AdvertDepth /\ nextId \in Nat /\ shown \in Nat
      /\ stimuli \in 0 .. MaxStimuli
  BY DEF TypeOK
<1>. HIDE DEF id
<1>4. CASE Len(advertQ) < AdvertDepth /\ advertQ' = Append(advertQ, id)
  <2>1. Cardinality(Waiting) < AdvertDepth + 1
    <3>1. Cardinality(Waiting) \in Nat /\ Cardinality(Waiting) <= Len(advertQ) + 1
      BY WaitingBound, FS_CardinalityType
    <3>. QED  BY <1>3, <1>4, <3>1, BleTaskAssumption
  <2>2. id \in 1 .. MaxStimuli
    <3>1. 0 < id
      BY <1>2, <1>3 DEF Stored
    <3>2. nextId <= stimuli + 1
      BY DEF FeedInv
    <3>. QED  BY <1>2, <1>3, <3>1, <3>2, BleTaskAssumption
  <2>3. \A w \in Waiting \cup {shown} : id > w
    <3>1. Waiting \cup {shown} \subseteq Stored
      BY DEF Waiting, Stored
    <3>2. \A e \in Stored : id > e
      BY <1>2
    <3>. QED  BY <3>1, <3>2
  <2>4. Waiting' = Waiting \cup {id}
    <3>1. DOMAIN advertQ' = 1 .. Len(advertQ) + 1 /\ DOMAIN advertQ = 1 .. Len(advertQ)
      BY <1>2, <1>3, <1>4
    <3>2. /\ \A i \in DOMAIN advertQ : i \in DOMAIN advertQ' /\ advertQ'[i] = advertQ[i]
          /\ Len(advertQ) + 1 \in DOMAIN advertQ' /\ advertQ'[Len(advertQ) + 1] = id
          /\ \A i \in DOMAIN advertQ' : i \in DOMAIN advertQ \/ i = Len(advertQ) + 1
      BY <1>2, <1>3, <1>4, <3>1
    <3>3. {advertQ'[i] : i \in DOMAIN advertQ'} = {advertQ[i] : i \in DOMAIN advertQ} \cup {id}
      BY <3>2
    <3>. QED  BY <1>1, <3>3 DEF Waiting
  <2>5. shown' = shown
    BY <1>1
  <2>6. Feed!Cardinality(Waiting) = Cardinality(Waiting)
    BY Zenon DEF Feed!Cardinality, Cardinality
  <2>7. Feed!Accept
    BY <2>1, <2>2, <2>3, <2>4, <2>5, <2>6 DEF Feed!Accept
  <2>. QED  BY <2>7 DEF Feed!Next
<1>5. CASE advertQ' = advertQ
  BY <1>1, <1>5 DEF Feed!Next, Feed!Drop, Waiting
<1>. QED  BY <1>1, <1>4, <1>5

\* Running the work item shows its event, or nothing when it is the dummy or was shown before.
LEMMA EventShown ==
  ASSUME TypeOK, FeedInv, QueuedUpdateAdvertisement
  PROVE  Feed!Next
<1>1. /\ advertQ' = advertQ /\ work'.event = work.event
      /\ shown' = IF work.event = 0 THEN shown ELSE work.event
  BY DEF QueuedUpdateAdvertisement, TypeOK, WorkItem
<1>2. /\ shown \in Nat /\ work.event \in Nat /\ advertQ \in Seq(Nat)
      /\ work.event = 0 \/ shown <= work.event
      /\ \A i \in DOMAIN advertQ : shown < advertQ[i] /\ work.event < advertQ[i]
  BY DEF TypeOK, WorkItem, FeedInv, ShownFirst, StoredOrdered
<1>3. \A i \in DOMAIN advertQ : advertQ[i] \in Nat
  BY <1>2
<1>4. CASE work.event > shown
  <2>1. work.event \in Waiting /\ shown' = work.event
    BY <1>1, <1>2, <1>4 DEF Waiting
  <2>2. Waiting' = {w \in Waiting : w > work.event}
    BY <1>1, <1>2, <1>3, <1>4 DEF Waiting
  <2>. QED  BY <2>1, <2>2 DEF Feed!Next, Feed!Show
<1>5. CASE ~(work.event > shown)
  <2>1. shown' = shown
    BY <1>1, <1>2, <1>5
  <2>2. Waiting' = Waiting
    BY <1>1, <2>1 DEF Waiting
  <2>. QED  BY <2>1, <2>2 DEF Feed!Next, Feed!Drop
<1>. QED  BY <1>4, <1>5

\* The other steps leave events where they wait or drop them.
LEMMA EventDropped ==
  ASSUME TypeOK, FeedInv,
         DataAttrChanged \/ TakeEvent \/ DisconnectedCallback
  PROVE  Feed!Next
<1>1. shown \in Nat /\ advertQ \in Seq(Nat) /\ work \in WorkItem
  BY DEF TypeOK
<1>2. CASE DataAttrChanged
  <2>1. shown' = shown /\ advertQ' = advertQ /\ work'.event = 0
    BY <1>1, <1>2 DEF DataAttrChanged, Advertisement_Update, WorkItem
  <2>2. Waiting' \subseteq Waiting
    BY <1>1, <2>1 DEF Waiting
  <2>. QED  BY <2>1, <2>2 DEF Feed!Next, Feed!Drop
<1>3. CASE DisconnectedCallback
  <2>1. shown' = shown /\ advertQ' = <<>> /\ work' = work
    BY <1>3 DEF DisconnectedCallback, EventsAfterDisconnect
  <2>2. Waiting' \subseteq Waiting
    BY <2>1 DEF Waiting
  <2>. QED  BY <2>1, <2>2 DEF Feed!Next, Feed!Drop
<1>4. CASE TakeEvent
  <2>1. /\ shown' = shown /\ advertQ # <<>>
        /\ Advertisement_Update(Head(advertQ)) /\ advertQ' = Tail(advertQ)
    BY <1>4 DEF TakeEvent, EventsAfterTake
  <2>2. /\ work'.event = advertQ[1] /\ 1 \in DOMAIN advertQ
        /\ \A i \in DOMAIN advertQ' : i + 1 \in DOMAIN advertQ /\ advertQ'[i] = advertQ[i + 1]
    BY <1>1, <2>1 DEF Advertisement_Update, WorkItem
  <2>3. Waiting' \subseteq Waiting
    BY <2>1, <2>2 DEF Waiting
  <2>. QED  BY <2>1, <2>3 DEF Feed!Next, Feed!Drop
<1>. QED  BY <1>2, <1>3, <1>4

\* The task, its two queues and the work item implement the ordered lossy feed: no event is
\* invented, shown twice after a later one or shown out of order, and no more wait than fit.
THEOREM FeedImplemented == Spec => ImplementsFeed
<1>1. Init => Feed!Init
  BY DEF Init, NoWork, Waiting, Feed!Init
<1>2. ASSUME TypeOK, FeedInv, [Next]_vars
      PROVE  [Feed!Next]_(Feed!feed)
  <2>1. CASE Boot
    BY <2>1 DEF Boot, NoWork, Waiting, Feed!Next, Feed!Reset
  <2>2. CASE \/ DataAttrChanged \/ TakeEvent \/ BleSensorEventMsgHandler
             \/ QueuedUpdateAdvertisement \/ DisconnectedCallback
    BY <1>2, <2>2, EventAccepted, EventShown, EventDropped
  <2>3. CASE SendEventDataAdvert \/ UNCHANGED vars
    BY <2>3 DEF SendEventDataAdvert, vars, Waiting, Feed!feed
  <2>4. CASE Next /\ ~Boot /\ ~(\/ DataAttrChanged \/ TakeEvent
                               \/ BleSensorEventMsgHandler \/ QueuedUpdateAdvertisement
                               \/ DisconnectedCallback \/ SendEventDataAdvert)
    <3>1. UNCHANGED <<shown, advertQ>> /\ work'.event = work.event
      BY <1>2, <2>4, FeedFrame
    <3>. QED  BY <3>1 DEF Waiting, Feed!feed
  <2>. QED  BY <1>2, <2>1, <2>2, <2>3, <2>4
<1>. QED  BY <1>1, <1>2, TypeCorrect, FeedInvariant, PTL DEF Spec, ImplementsFeed, Feed!Spec
=============================================================================
