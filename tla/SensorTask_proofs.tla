-------------------------- MODULE SensorTask_proofs --------------------------
(***************************************************************************)
(* The sensor task for any number of analog inputs, any depth of its queue *)
(* and any number of writes of the clients.  Each invariant of the runs is *)
(* preserved by every step from a well-typed state, the rationing of the   *)
(* sensors in the form the validator itself checks.                        *)
(***************************************************************************)
EXTENDS SensorTask, FiniteSetTheorems, TLAPS

----------------------------------------------------------------------------
(* Messages                                                                *)

\* q holds one of the messages in M.
Has(q, M) == \E i \in DOMAIN q : q[i] \in M

\* A queue holds the messages of its two parts.
LEMMA HasConcat ==
  ASSUME NEW p \in Seq(Message), NEW q \in Seq(Message)
  PROVE  p \o q \in Seq(Message) /\ \A M : Has(p \o q, M) <=> Has(p, M) \/ Has(q, M)
<1>1. p \o q \in Seq(Message) /\ DOMAIN (p \o q) = 1 .. Len(p) + Len(q)
  OBVIOUS
<1>. SUFFICES ASSUME NEW M PROVE Has(p \o q, M) <=> Has(p, M) \/ Has(q, M)
  BY <1>1
<1>2. ASSUME Has(p, M) PROVE Has(p \o q, M)
  <2>1. PICK i \in DOMAIN p : p[i] \in M
    BY <1>2 DEF Has
  <2>2. i \in DOMAIN (p \o q) /\ (p \o q)[i] = p[i]
    BY <1>1
  <2>. QED  BY <2>1, <2>2 DEF Has
<1>3. ASSUME Has(q, M) PROVE Has(p \o q, M)
  <2>1. PICK i \in DOMAIN q : q[i] \in M
    BY <1>3 DEF Has
  <2>2. Len(p) + i \in DOMAIN (p \o q) /\ (p \o q)[Len(p) + i] = q[i]
    BY <1>1
  <2>. QED  BY <2>1, <2>2 DEF Has
<1>4. ASSUME Has(p \o q, M) PROVE Has(p, M) \/ Has(q, M)
  <2>1. PICK i \in DOMAIN (p \o q) : (p \o q)[i] \in M
    BY <1>4 DEF Has
  <2>2. CASE i <= Len(p)
    <3>1. i \in DOMAIN p /\ (p \o q)[i] = p[i]
      BY <1>1, <2>2
    <3>. QED  BY <2>1, <3>1 DEF Has
  <2>3. CASE i > Len(p)
    <3>1. i - Len(p) \in DOMAIN q /\ (p \o q)[i] = q[i - Len(p)]
      BY <1>1, <2>3
    <3>. QED  BY <2>1, <3>1 DEF Has
  <2>. QED  BY <1>1, <2>2, <2>3
<1>. QED  BY <1>2, <1>3, <1>4

\* Taking the first message off loses no other.
LEMMA HasTail ==
  ASSUME NEW q \in Seq(Message), q # <<>>
  PROVE  Tail(q) \in Seq(Message) /\ \A M : Has(q, M) => Head(q) \in M \/ Has(Tail(q), M)
<1>. SUFFICES ASSUME NEW M, Has(q, M), Head(q) \notin M PROVE Has(Tail(q), M)
  OBVIOUS
<1>1. PICK i \in 1 .. Len(q) : q[i] \in M
  BY DEF Has
<1>2. i # 1
  BY <1>1
<1>3. i - 1 \in DOMAIN Tail(q) /\ Tail(q)[i - 1] = q[i]
  BY <1>2
<1>. QED  BY <1>1, <1>3 DEF Has

\* One message, or none.
LEMMA OneHas ==
  /\ \A m \in Message : <<m>> \in Seq(Message) /\ \A M : Has(<<m>>, M) <=> m \in M
  /\ <<>> \in Seq(Message) /\ \A M : ~Has(<<>>, M)
BY DEF Has

\* What is left of some messages are messages.
LEMMA FragmentType ==
  ASSUME NEW ms \in Seq(Message), NEW some \in Fragments(ms)
  PROVE  some \in Seq(Message)
<1>1. PICK n \in 0 .. Len(ms) - 1 :
        \E at \in [1 .. n -> DOMAIN ms] : some = [i \in 1 .. n |-> ms[at[i]]]
  BY DEF Fragments
<1>0. PICK at \in [1 .. n -> DOMAIN ms] : some = [i \in 1 .. n |-> ms[at[i]]]
  BY <1>1
<1>2. \A i \in DOMAIN ms : ms[i] \in Message
  OBVIOUS
<1>3. some \in [1 .. n -> Message]
  BY <1>0, <1>2
<1>. QED  BY <1>3

\* Whatever is dropped, messages are appended within the depth of the queue; all of them if
\* none is dropped.
LEMMA PostAppends ==
  ASSUME NEW q \in Seq(Message), NEW ms \in Seq(Message), Post(q, ms)
  PROVE  /\ sensorQ' \in Seq(Message) /\ Len(sensorQ') <= QueueDepth
         /\ lost \in BOOLEAN => lost' \in BOOLEAN
         /\ ~lost' => ~lost /\ sensorQ' = q \o ms
<1>1. CASE Fits(q, ms) /\ sensorQ' = q \o ms /\ lost' = lost
  <2>1. Len(q \o ms) = Len(q) + Len(ms)
    OBVIOUS
  <2>2. Len(sensorQ') <= QueueDepth /\ sensorQ' \in Seq(Message)
    BY <1>1, <2>1 DEF Fits
  <2>. QED  BY <1>1, <2>2
<1>2. CASE (\E some \in Fragments(ms) : Fits(q, some) /\ sensorQ' = q \o some) /\ lost' = TRUE
  <2>1. PICK some \in Fragments(ms) : Fits(q, some) /\ sensorQ' = q \o some
    BY <1>2
  <2>2. some \in Seq(Message)
    BY FragmentType
  <2>3. Len(q \o some) = Len(q) + Len(some)
    BY <2>2
  <2>4. Len(sensorQ') <= QueueDepth /\ sensorQ' \in Seq(Message)
    BY <2>1, <2>2, <2>3 DEF Fits
  <2>. QED  BY <1>2, <2>4
<1>. QED  BY <1>1, <1>2 DEF Post

\* As long as none is dropped the queue holds what it held and what was sent.
LEMMA PostHas ==
  ASSUME NEW q \in Seq(Message), NEW ms \in Seq(Message), Post(q, ms), ~lost'
  PROVE  ~lost /\ \A M : Has(q, M) \/ Has(ms, M) <=> Has(sensorQ', M)
<1>1. ~lost /\ sensorQ' = q \o ms
  BY PostAppends, Zenon
<1>2. \A M : Has(q \o ms, M) <=> Has(q, M) \/ Has(ms, M)
  BY HasConcat
<1>. QED  BY <1>1, <1>2, Zenon

\* The messages the task sends itself without a list of attributes.
LEMMA MsgType ==
  /\ \A code \in Codes : Msg(code) \in Message /\ <<Msg(code)>> \in Seq(Message)
  /\ \A code \in Codes : \A M : Has(<<Msg(code)>>, M) <=> Msg(code) \in M
<1>1. \A code \in Codes : Msg(code) \in Message
  BY DEF Msg, Message
<1>. QED  BY <1>1 DEF Has

\* A broadcast is a message.
LEMMA ChangedType ==
  \A ids \in SUBSET Ids : Changed(ids) \in Message /\ <<Changed(ids)>> \in Seq(Message)
<1>1. \A ids \in SUBSET Ids : Changed(ids) \in Message
  BY DEF Changed, Message, Codes
<1>. QED  BY <1>1

\* The attributes that disabling the inputs changes, as its broadcast lists them.
DisabledIds(at) ==
  {id \in {"type", "therm", "din"} :
     \/ id = "type" /\ at.types # AllUnused
     \/ id = "therm" /\ at.therm
     \/ id = "din" /\ at.din}

\* Disabling the inputs is broadcast if it changes something.
LEMMA DisableHas ==
  ASSUME NEW at \in Attributes
  PROVE  /\ DisabledIds(at) \in SUBSET Ids /\ Changed(DisabledIds(at)) \in Message
         /\ DisableBroadcast(at) \in Seq(Message)
         /\ \A M : Has(DisableBroadcast(at), M) <=>
                     DisabledIds(at) # {} /\ Changed(DisabledIds(at)) \in M
<1>1. DisabledIds(at) \in SUBSET Ids
  BY DEF DisabledIds, Ids
<1>2. Changed(DisabledIds(at)) \in Message
  BY <1>1, ChangedType
<1>3. DisableBroadcast(at) = If(DisabledIds(at) # {}, Changed(DisabledIds(at)))
  BY DEF DisableBroadcast, DisabledIds
<1>4. CASE DisabledIds(at) # {}
  BY <1>1, <1>2, <1>3, <1>4, OneHas DEF If
<1>5. CASE DisabledIds(at) = {}
  BY <1>1, <1>2, <1>3, <1>5, OneHas DEF If
<1>. QED  BY <1>4, <1>5

\* What the task sends itself on a broadcast, message by message.
LEMMA AnswersHas ==
  ASSUME TypeOK, NEW ids \in SUBSET Ids
  PROVE  /\ Answers(ids) \in Seq(Message)
         /\ \A M : Has(Answers(ids), M) <=>
              \/ "power" \in ids /\ Msg("READ_POWER") \in M
              \/ "temperature" \in ids /\ Msg("TEMPERATURE") \in M
              \/ /\ "active" \in ids
                 /\ Msg(IF attr.active THEN "ENTER_ACTIVE" ELSE "ENTER_SHELF") \in M
              \/ "config" \in ids /\ DisabledIds(attr) # {} /\ Changed(DisabledIds(attr)) \in M
              \/ "din" \in ids /\ Msg("DIN_CONFIG") \in M
              \/ "analog" \in ids /\ Msg("ANALOG") \in M
<1>. DEFINE p1 == If("power" \in ids, Msg("READ_POWER"))
            p2 == If("temperature" \in ids, Msg("TEMPERATURE"))
            p3 == If("active" \in ids, Msg(IF attr.active THEN "ENTER_ACTIVE" ELSE "ENTER_SHELF"))
            p4 == IF "config" \in ids THEN DisableBroadcast(attr) ELSE <<>>
            p5 == If("din" \in ids, Msg("DIN_CONFIG"))
            p6 == If("analog" \in ids, Msg("ANALOG"))
<1>1. /\ {"READ_POWER", "TEMPERATURE", "ENTER_ACTIVE", "ENTER_SHELF", "DIN_CONFIG", "ANALOG"}
           \subseteq Codes
      /\ attr \in Attributes
  BY DEF Codes, TypeOK
<1>2. p1 \in Seq(Message) /\ \A M : Has(p1, M) <=> "power" \in ids /\ Msg("READ_POWER") \in M
  <2>1. CASE "power" \in ids
    BY <1>1, <2>1, MsgType, OneHas DEF If
  <2>2. CASE ~("power" \in ids)
    BY <2>2, OneHas DEF If
  <2>. QED  BY <2>1, <2>2
<1>3. /\ p2 \in Seq(Message)
      /\ \A M : Has(p2, M) <=> "temperature" \in ids /\ Msg("TEMPERATURE") \in M
  <2>1. CASE "temperature" \in ids
    BY <1>1, <2>1, MsgType, OneHas DEF If
  <2>2. CASE ~("temperature" \in ids)
    BY <2>2, OneHas DEF If
  <2>. QED  BY <2>1, <2>2
<1>4. /\ p3 \in Seq(Message)
      /\ \A M : Has(p3, M) <=>
           "active" \in ids /\ Msg(IF attr.active THEN "ENTER_ACTIVE" ELSE "ENTER_SHELF") \in M
  <2>1. CASE "active" \in ids
    BY <1>1, <2>1, MsgType, OneHas DEF If
  <2>2. CASE ~("active" \in ids)
    BY <2>2, OneHas DEF If
  <2>. QED  BY <2>1, <2>2
<1>5. /\ p4 \in Seq(Message)
      /\ \A M : Has(p4, M) <=>
           "config" \in ids /\ DisabledIds(attr) # {} /\ Changed(DisabledIds(attr)) \in M
  BY <1>1, DisableHas DEF Has
<1>6. p5 \in Seq(Message) /\ \A M : Has(p5, M) <=> "din" \in ids /\ Msg("DIN_CONFIG") \in M
  <2>1. CASE "din" \in ids
    BY <1>1, <2>1, MsgType, OneHas DEF If
  <2>2. CASE ~("din" \in ids)
    BY <2>2, OneHas DEF If
  <2>. QED  BY <2>1, <2>2
<1>7. p6 \in Seq(Message) /\ \A M : Has(p6, M) <=> "analog" \in ids /\ Msg("ANALOG") \in M
  <2>1. CASE "analog" \in ids
    BY <1>1, <2>1, MsgType, OneHas DEF If
  <2>2. CASE ~("analog" \in ids)
    BY <2>2, OneHas DEF If
  <2>. QED  BY <2>1, <2>2
<1>8. Answers(ids) = p1 \o p2 \o p3 \o p4 \o p5 \o p6
  BY DEF Answers
<1>. HIDE DEF p1, p2, p3, p4, p5, p6
<1>9. p1 \o p2 \in Seq(Message) /\ \A M : Has(p1 \o p2, M) <=> Has(p1, M) \/ Has(p2, M)
  BY <1>2, <1>3, HasConcat
<1>10. /\ p1 \o p2 \o p3 \in Seq(Message)
       /\ \A M : Has(p1 \o p2 \o p3, M) <=> Has(p1 \o p2, M) \/ Has(p3, M)
  BY <1>4, <1>9, HasConcat
<1>11. /\ p1 \o p2 \o p3 \o p4 \in Seq(Message)
       /\ \A M : Has(p1 \o p2 \o p3 \o p4, M) <=> Has(p1 \o p2 \o p3, M) \/ Has(p4, M)
  BY <1>5, <1>10, HasConcat
<1>12. /\ p1 \o p2 \o p3 \o p4 \o p5 \in Seq(Message)
       /\ \A M : Has(p1 \o p2 \o p3 \o p4 \o p5, M) <=> Has(p1 \o p2 \o p3 \o p4, M) \/ Has(p5, M)
  BY <1>6, <1>11, HasConcat
<1>. DEFINE p15 == p1 \o p2 \o p3 \o p4 \o p5
<1>13. /\ p15 \in Seq(Message) /\ Answers(ids) = p15 \o p6
       /\ \A M : Has(p15, M) <=> Has(p1 \o p2 \o p3 \o p4, M) \/ Has(p5, M)
  BY <1>8, <1>12
<1>. HIDE DEF p15
<1>14. /\ Answers(ids) \in Seq(Message)
       /\ \A M : Has(Answers(ids), M) <=> Has(p15, M) \/ Has(p6, M)
  BY <1>7, <1>13, HasConcat
<1>. QED  BY <1>2, <1>3, <1>4, <1>5, <1>6, <1>7, <1>9, <1>10, <1>11, <1>13, <1>14

----------------------------------------------------------------------------
(* Type correctness                                                        *)

\* The validator never accepts what is not a configuration, and refuses what overloads the
\* supplies.
LEMMA ValidatorType ==
  ASSUME NEW types \in [Channels -> Types], NEW c \in Channels, NEW type \in Types
  PROVE  /\ av_aic(types, c, type) \in [Channels -> Types]
         /\ validate_analog_input_config(types)
              => validate_analog_input_config(av_aic(types, c, type))
<1>1. [types EXCEPT ![c] = type] \in [Channels -> Types]
  OBVIOUS
<1>. QED  BY <1>1 DEF av_aic

\* Disabling the inputs leaves attributes; the device stays in its mode and keeps its intervals.
LEMMA DisabledType ==
  ASSUME NEW at \in Attributes
  PROVE  /\ Disabled(at) \in Attributes
         /\ Disabled(at).active = at.active /\ Disabled(at).interval = at.interval
         /\ Disabled(at).types = AllUnused /\ Disabled(at).therm = FALSE
         /\ Disabled(at).din = FALSE
         /\ BootAttributes(at) \in Attributes
         /\ Inputs(at) \in [types : [Channels -> Types], therm : BOOLEAN]
<1>1. AllUnused \in [Channels -> Types]
  BY DEF AllUnused, Types
<1>2. /\ Disabled(at) \in Attributes
      /\ Disabled(at).active = at.active /\ Disabled(at).interval = at.interval
      /\ Disabled(at).types = AllUnused /\ Disabled(at).therm = FALSE
      /\ Disabled(at).din = FALSE
  BY <1>1 DEF Disabled, Attributes
<1>3. BootAttributes(at) \in Attributes
  BY <1>2 DEF BootAttributes
<1>4. Inputs(at) \in [types : [Channels -> Types], therm : BOOLEAN]
  BY DEF Inputs, Attributes
<1>. QED  BY <1>2, <1>3, <1>4

\* What the task needs to read periodically.
Needs(at, kind) == at.interval[kind] /\ Enabled(at, kind)

\* Starting a timer leaves timers; it stops none that is needed, and on an active device it
\* starts its own if that is needed.
LEMMA StartedTimers ==
  ASSUME NEW at \in Attributes, NEW ts \in SUBSET Kinds, NEW kind \in Kinds
  PROVE  /\ Started(ts, at, kind) \in SUBSET Kinds
         /\ \A k \in Kinds : at.active /\ Needs(at, k) /\ (k \in ts \/ k = kind)
                               => k \in Started(ts, at, kind)
<1>1. Started(ts, at, kind) \in SUBSET Kinds
  BY DEF Started, Kinds
<1>2. ASSUME NEW k \in Kinds, at.active, Needs(at, k), k \in ts \/ k = kind
      PROVE  k \in Started(ts, at, kind)
  BY <1>2 DEF Started, Needs, Enabled
<1>. QED  BY <1>1, <1>2

\* Starting all of them starts those that are needed.
LEMMA StartedAllTimers ==
  ASSUME NEW at \in Attributes, NEW ts \in SUBSET Kinds
  PROVE  /\ StartedAll(ts, at) \in SUBSET Kinds
         /\ \A k \in Kinds : at.active /\ Needs(at, k) => k \in StartedAll(ts, at)
<1>. DEFINE t1 == Started(ts, at, "power")
            t2 == Started(t1, at, "temperature")
            t3 == Started(t2, at, "analog")
<1>1. "power" \in Kinds /\ "temperature" \in Kinds /\ "analog" \in Kinds
      /\ \A k \in Kinds : k = "power" \/ k = "temperature" \/ k = "analog"
  BY DEF Kinds
<1>2. /\ t1 \in SUBSET Kinds
      /\ \A k \in Kinds : at.active /\ Needs(at, k) /\ (k \in ts \/ k = "power") => k \in t1
  BY <1>1, StartedTimers
<1>. HIDE DEF t1
<1>3. /\ t2 \in SUBSET Kinds
      /\ \A k \in Kinds : at.active /\ Needs(at, k) /\ (k \in t1 \/ k = "temperature") => k \in t2
  BY <1>1, <1>2, StartedTimers
<1>. HIDE DEF t2
<1>4. /\ t3 \in SUBSET Kinds
      /\ \A k \in Kinds : at.active /\ Needs(at, k) /\ (k \in t2 \/ k = "analog") => k \in t3
  BY <1>1, <1>3, StartedTimers
<1>5. t3 = StartedAll(ts, at)
  BY DEF StartedAll, t1, t2
<1>. HIDE DEF t3
<1>. QED  BY <1>1, <1>2, <1>3, <1>4, <1>5

\* Start-up sends DIN_CONFIG behind what it broadcasts.
LEMMA BootMessagesHas ==
  ASSUME NEW at \in Attributes
  PROVE  BootMessages(at) \in Seq(Message) /\ Has(BootMessages(at), {Msg("DIN_CONFIG")})
<1>. DEFINE first == IF at.config = "none" THEN DisableBroadcast(at) ELSE <<>>
            last  == <<Msg("DIN_CONFIG")>>
<1>1. first \in Seq(Message)
  <2>1. DisableBroadcast(at) = If(DisabledIds(at) # {}, Changed(DisabledIds(at)))
    BY DEF DisableBroadcast, DisabledIds
  <2>2. DisableBroadcast(at) = <<Changed(DisabledIds(at))>> \/ DisableBroadcast(at) = <<>>
    BY <2>1 DEF If
  <2>3. first = <<Changed(DisabledIds(at))>> \/ first = <<>>
    BY <2>2
  <2>4. Changed(DisabledIds(at)) \in Message
    BY DisableHas
  <2>. HIDE DEF first
  <2>5. CASE first = <<Changed(DisabledIds(at))>>
    BY <2>4, <2>5
  <2>6. CASE first = <<>>
    BY <2>6
  <2>. QED  BY <2>3, <2>5, <2>6
<1>2. last \in Seq(Message) /\ Has(last, {Msg("DIN_CONFIG")})
  BY MsgType DEF Codes
<1>3. BootMessages(at) = first \o last
  BY DEF BootMessages
<1>. HIDE DEF first, last
<1>. QED  BY <1>1, <1>2, <1>3, HasConcat

\* The first message leaves a shorter queue.
LEMMA ReceiveType ==
  ASSUME TypeOK, NEW code, Receives(code)
  PROVE  /\ Tail(sensorQ) \in Seq(Message) /\ Len(Tail(sensorQ)) <= QueueDepth
         /\ Head(sensorQ) \in Message /\ Head(sensorQ).ids \in SUBSET Ids
         /\ Head(sensorQ).code = code
         /\ \A M : Has(sensorQ, M) => Head(sensorQ) \in M \/ Has(Tail(sensorQ), M)
<1>1. sensorQ \in Seq(Message) /\ Len(sensorQ) <= QueueDepth /\ sensorQ # <<>>
  BY DEF TypeOK, Receives
<1>2. Head(sensorQ) \in Message /\ Len(Tail(sensorQ)) <= QueueDepth
  BY <1>1, SensorTaskAssumption
<1>3. Head(sensorQ).ids \in SUBSET Ids
  BY <1>2 DEF Message
<1>. QED  BY <1>1, <1>2, <1>3, HasTail DEF Receives

\* The telemetry objects are made for inputs.
LEMMA InputsType ==
  ASSUME NEW at \in Attributes
  PROVE  /\ Inputs(at) \in [types : [Channels -> Types], therm : BOOLEAN]
         /\ ObjectInputs(at) \in [types : [Channels -> Types], therm : BOOLEAN]
<1>1. \A a \in Attributes : Inputs(a) \in [types : [Channels -> Types], therm : BOOLEAN]
  BY DEF Inputs, Attributes
<1>2. BootAttributes(at) \in Attributes
  BY DisabledType
<1>. QED  BY <1>1, <1>2 DEF ObjectInputs

\* A reset leaves a well-typed state.
LEMMA BootType ==
  ASSUME TypeOK, Boot
  PROVE  TypeOK'
<1>1. attr \in Attributes
  BY DEF TypeOK
<1>2. {objects', started'} \subseteq [types : [Channels -> Types], therm : BOOLEAN]
  BY <1>1, InputsType DEF Boot
<1>3. sensorQ' \in Seq(Message) /\ Len(sensorQ') <= QueueDepth
  BY SensorTaskAssumption DEF Boot
<1>. QED  BY <1>1, <1>2, <1>3 DEF Boot, TypeOK

\* So does the first start.
LEMMA InitType == Init => TypeOK
<1>. SUFFICES ASSUME Init PROVE TypeOK
  OBVIOUS
<1>1. attr \in Attributes
  BY DEF Init, Attributes, AllUnused, Types
<1>2. sensorQ \in Seq(Message) /\ Len(sensorQ) <= QueueDepth /\ timers \in SUBSET Kinds
  BY SensorTaskAssumption DEF Init
<1>3. {objects, started} \subseteq [types : [Channels -> Types], therm : BOOLEAN]
  BY <1>1, InputsType DEF Init
<1>4. writes \in 0 .. MaxWrites /\ stage \in {"created", "loaded", "armed", "running"}
  BY SensorTaskAssumption DEF Init
<1>5. dinEnabled \in BOOLEAN /\ changed \in BOOLEAN /\ lost \in BOOLEAN
  BY Zenon DEF Init
<1>. QED  BY <1>1, <1>2, <1>3, <1>4, <1>5 DEF TypeOK

\* And every step of the start-up.
LEMMA StartType ==
  ASSUME TypeOK,
         LoadSensorConfiguration \/ InitializeIntervalTimers \/ ClearInputConfigChangedFlag
  PROVE  TypeOK'
<1>1. /\ attr \in Attributes /\ sensorQ \in Seq(Message) /\ lost \in BOOLEAN
      /\ {objects, started} \subseteq [types : [Channels -> Types], therm : BOOLEAN]
  BY DEF TypeOK
<1>2. CASE LoadSensorConfiguration
  <2>1. attr' \in Attributes
    BY <1>1, <1>2, DisabledType DEF LoadSensorConfiguration
  <2>2. sensorQ' \in Seq(Message) /\ Len(sensorQ') <= QueueDepth /\ lost' \in BOOLEAN
    BY <1>1, <1>2, BootMessagesHas, PostAppends, Zenon DEF LoadSensorConfiguration
  <2>. QED  BY <1>2, <2>1, <2>2 DEF LoadSensorConfiguration, TypeOK
<1>3. CASE InitializeIntervalTimers
  <2>1. timers' \in SUBSET Kinds
    BY <1>1, <1>3, StartedAllTimers DEF InitializeIntervalTimers
  <2>. QED  BY <1>3, <2>1 DEF InitializeIntervalTimers, TypeOK
<1>4. CASE ClearInputConfigChangedFlag
  <2>1. sensorQ' \in Seq(Message) /\ Len(sensorQ') <= QueueDepth /\ lost' \in BOOLEAN
    BY <1>1, <1>4, MsgType, PostAppends DEF ClearInputConfigChangedFlag, Codes
  <2>2. {objects', started'} \subseteq [types : [Channels -> Types], therm : BOOLEAN]
    BY <1>1, <1>4, InputsType DEF ClearInputConfigChangedFlag
  <2>. QED  BY <1>4, <2>1, <2>2 DEF ClearInputConfigChangedFlag, TypeOK
<1>. QED  BY <1>2, <1>3, <1>4

\* What the handler of a broadcast makes of the attributes and the timers: disabled inputs stop
\* two timers and leave the third, and a timer that is needed is kept.
LEMMA AttributeChange ==
  ASSUME TypeOK, SensorTaskAttributeChangedMsgHandler
  PROVE  /\ attr' \in Attributes /\ timers' \in SUBSET Kinds
         /\ attr' = IF "config" \in Head(sensorQ).ids THEN Disabled(attr) ELSE attr
         /\ \A k \in Kinds : attr'.active /\ Needs(attr', k) =>
              /\ k \in timers => k \in timers'
              /\ k = "temperature" /\ "therm" \in Head(sensorQ).ids => k \in timers'
              /\ k = "analog" /\ "type" \in Head(sensorQ).ids => k \in timers'
<1>. DEFINE ids == Head(sensorQ).ids
            at  == IF "config" \in ids THEN Disabled(attr) ELSE attr
            ts  == IF "config" \in ids THEN timers \ {"temperature", "analog"} ELSE timers
            ts1 == IF "therm" \in ids THEN Started(ts, at, "temperature") ELSE ts
            ts2 == IF "type" \in ids THEN Started(ts1, at, "analog") ELSE ts1
<1>1. attr' = at /\ timers' = ts2
  BY DEF SensorTaskAttributeChangedMsgHandler
<1>2. at \in Attributes /\ ts \in SUBSET Kinds
  BY DisabledType DEF TypeOK
<1>3. "temperature" \in Kinds /\ "analog" \in Kinds
  BY DEF Kinds
<1>4. \A k \in Kinds : Needs(at, k) /\ k \in timers => k \in ts
  <2>. SUFFICES ASSUME NEW k \in Kinds, Needs(at, k), k \in timers, "config" \in ids
                PROVE  k \notin {"temperature", "analog"}
    OBVIOUS
  <2>1. at.types = AllUnused /\ at.therm = FALSE
    BY DisabledType DEF TypeOK
  <2>. QED  BY <2>1 DEF Needs, Enabled
<1>. HIDE DEF at, ts, ids
<1>5. /\ ts1 \in SUBSET Kinds
      /\ \A k \in Kinds : at.active /\ Needs(at, k) =>
           /\ k \in ts => k \in ts1
           /\ k = "temperature" /\ "therm" \in ids => k \in ts1
  BY <1>2, <1>3, StartedTimers
<1>. HIDE DEF ts1
<1>6. /\ ts2 \in SUBSET Kinds
      /\ \A k \in Kinds : at.active /\ Needs(at, k) =>
           /\ k \in ts1 => k \in ts2
           /\ k = "analog" /\ "type" \in ids => k \in ts2
  BY <1>2, <1>3, <1>5, StartedTimers
<1>. HIDE DEF ts2
<1>. QED  BY <1>1, <1>2, <1>4, <1>5, <1>6 DEF at, ids

\* Every message handler and every timer preserves the types.
LEMMA TaskType ==
  ASSUME TypeOK,
         \/ SensorTaskAttributeChangedMsgHandler
         \/ SensorTaskDigitalInConfigMsgHandler
         \/ ReadPowerMsgHandler
         \/ MeasureTemperatureMsgHandler
         \/ AnalogReadMsgHandler
         \/ EnterActiveModeMsgHandler
         \/ EnterShelfModeMsgHandler
         \/ ClearInputConfigChangedMsgHandler
         \/ \E kind \in Kinds : TimerCallbackIsr(kind)
  PROVE  TypeOK'
<1>1. attr \in Attributes /\ attr.din \in BOOLEAN /\ timers \in SUBSET Kinds
  BY DEF TypeOK, Attributes
<1>2. CASE SensorTaskAttributeChangedMsgHandler
  <2>. DEFINE ids == Head(sensorQ).ids
  <2>1. ids \in SUBSET Ids /\ Tail(sensorQ) \in Seq(Message) /\ Post(Tail(sensorQ), Answers(ids))
    BY <1>2, ReceiveType DEF SensorTaskAttributeChangedMsgHandler
  <2>2. Answers(ids) \in Seq(Message)
    BY <2>1, AnswersHas
  <2>. HIDE DEF ids
  <2>3. sensorQ' \in Seq(Message) /\ Len(sensorQ') <= QueueDepth /\ lost' \in BOOLEAN
    BY <2>1, <2>2, PostAppends, Zenon DEF TypeOK
  <2>4. attr' \in Attributes /\ timers' \in SUBSET Kinds
    BY <1>2, AttributeChange
  <2>5. UNCHANGED <<dinEnabled, stage, objects, started, writes>>
    BY <1>2 DEF SensorTaskAttributeChangedMsgHandler
  <2>6. changed' \in BOOLEAN
    BY <1>2, Zenon DEF SensorTaskAttributeChangedMsgHandler
  <2>. QED  BY <2>3, <2>4, <2>5, <2>6 DEF TypeOK
<1>3. CASE SensorTaskDigitalInConfigMsgHandler
  BY <1>1, <1>3, ReceiveType DEF SensorTaskDigitalInConfigMsgHandler, TypeOK
<1>4. CASE ReadPowerMsgHandler
  <2>1. timers' \in SUBSET Kinds
    BY <1>1, <1>4, StartedTimers DEF ReadPowerMsgHandler, Kinds
  <2>. QED  BY <1>4, <2>1, ReceiveType DEF ReadPowerMsgHandler, TypeOK
<1>5. CASE MeasureTemperatureMsgHandler
  <2>1. timers' \in SUBSET Kinds
    BY <1>1, <1>5, StartedTimers DEF MeasureTemperatureMsgHandler, Kinds
  <2>. QED  BY <1>5, <2>1, ReceiveType DEF MeasureTemperatureMsgHandler, TypeOK
<1>6. CASE AnalogReadMsgHandler
  <2>1. timers' \in SUBSET Kinds
    BY <1>1, <1>6, StartedTimers DEF AnalogReadMsgHandler, AfterAnalogRead, Kinds
  <2>. QED  BY <1>6, <2>1, ReceiveType DEF AnalogReadMsgHandler, TypeOK
<1>7. CASE EnterActiveModeMsgHandler
  <2>1. timers' \in SUBSET Kinds
    BY <1>1, <1>7, StartedAllTimers DEF EnterActiveModeMsgHandler
  <2>. QED  BY <1>7, <2>1, ReceiveType DEF EnterActiveModeMsgHandler, TypeOK
<1>8. CASE EnterShelfModeMsgHandler
  BY <1>8, ReceiveType DEF EnterShelfModeMsgHandler, TypeOK
<1>9. CASE ClearInputConfigChangedMsgHandler
  BY <1>9, ReceiveType DEF ClearInputConfigChangedMsgHandler, TypeOK
<1>10. ASSUME NEW kind \in Kinds, TimerCallbackIsr(kind)
       PROVE  TypeOK'
  <2>1. Measure(kind) \in Codes
    BY DEF Measure, Codes, Kinds
  <2>2. sensorQ' \in Seq(Message) /\ Len(sensorQ') <= QueueDepth /\ lost' \in BOOLEAN
    BY <1>10, <2>1, MsgType, PostAppends DEF TimerCallbackIsr, TypeOK
  <2>. QED  BY <1>10, <2>2 DEF TimerCallbackIsr, TypeOK
<1>. QED  BY <1>2, <1>3, <1>4, <1>5, <1>6, <1>7, <1>8, <1>9, <1>10

\* What a client writes: one attribute changes and its broadcast is sent.
LEMMA WriteEffect ==
  ASSUME TypeOK,
         \/ WriteAnalogType \/ WriteConfigType \/ WriteThermistorConfig
         \/ WriteDigitalInputConfig \/ WriteInterval \/ WriteActiveMode
  PROVE  \E at \in Attributes, id \in Ids :
           /\ Write(at, id)
           /\ validate_analog_input_config(attr.types) => validate_analog_input_config(at.types)
           /\ id # "active" => at.active = attr.active
           /\ \A k \in Kinds : at.interval[k] # attr.interval[k] => id = k
           /\ at.therm # attr.therm => id = "therm"
           /\ at.din # attr.din => id = "din"
           /\ at.types # attr.types => id = "type"
<1>1. attr \in Attributes /\ attr.types \in [Channels -> Types]
  BY DEF TypeOK, Attributes
<1>2. CASE WriteAnalogType
  <2>1. PICK c \in Channels, type \in Types :
          Write([attr EXCEPT !.types = av_aic(attr.types, c, type)], "type")
    BY <1>2 DEF WriteAnalogType
  <2>. DEFINE at == [attr EXCEPT !.types = av_aic(attr.types, c, type)]
  <2>2. /\ at \in Attributes /\ at.types = av_aic(attr.types, c, type)
        /\ at.active = attr.active /\ at.interval = attr.interval /\ at.therm = attr.therm
        /\ at.din = attr.din
    BY <1>1, ValidatorType DEF Attributes
  <2>3. validate_analog_input_config(attr.types) => validate_analog_input_config(at.types)
    BY <1>1, <2>2, ValidatorType
  <2>4. Write(at, "type") /\ "type" \in Ids
    BY <2>1 DEF Ids
  <2>. HIDE DEF at
  <2>. QED  BY <2>2, <2>3, <2>4
<1>3. CASE WriteConfigType
  <2>1. PICK config \in {"none", "set", "other"} : Write([attr EXCEPT !.config = config], "config")
    BY <1>3 DEF WriteConfigType
  <2>. DEFINE at == [attr EXCEPT !.config = config]
  <2>2. /\ at \in Attributes /\ at.types = attr.types
        /\ at.active = attr.active /\ at.interval = attr.interval /\ at.therm = attr.therm
        /\ at.din = attr.din
    BY <1>1 DEF Attributes
  <2>3. Write(at, "config") /\ "config" \in Ids
    BY <2>1 DEF Ids
  <2>. HIDE DEF at
  <2>. QED  BY <2>2, <2>3
<1>4. CASE WriteThermistorConfig
  <2>. DEFINE at == [attr EXCEPT !.therm = ~attr.therm]
  <2>1. /\ at \in Attributes /\ at.types = attr.types
        /\ at.active = attr.active /\ at.interval = attr.interval /\ at.din = attr.din
    BY <1>1 DEF Attributes
  <2>2. Write(at, "therm") /\ "therm" \in Ids
    BY <1>4 DEF WriteThermistorConfig, Ids
  <2>. HIDE DEF at
  <2>. QED  BY <2>1, <2>2
<1>5. CASE WriteDigitalInputConfig
  <2>. DEFINE at == [attr EXCEPT !.din = ~attr.din]
  <2>1. /\ at \in Attributes /\ at.types = attr.types
        /\ at.active = attr.active /\ at.interval = attr.interval /\ at.therm = attr.therm
    BY <1>1 DEF Attributes
  <2>2. Write(at, "din") /\ "din" \in Ids
    BY <1>5 DEF WriteDigitalInputConfig, Ids
  <2>. HIDE DEF at
  <2>. QED  BY <2>1, <2>2
<1>6. CASE WriteInterval
  <2>1. PICK kind \in Kinds : Write([attr EXCEPT !.interval[kind] = ~attr.interval[kind]], kind)
    BY <1>6 DEF WriteInterval
  <2>. DEFINE at == [attr EXCEPT !.interval[kind] = ~attr.interval[kind]]
  <2>2. /\ at \in Attributes /\ at.types = attr.types
        /\ at.active = attr.active /\ at.therm = attr.therm /\ at.din = attr.din
        /\ \A k \in Kinds : k # kind => at.interval[k] = attr.interval[k]
    BY <1>1 DEF Attributes
  <2>3. Write(at, kind) /\ kind \in Ids
    BY <2>1 DEF Ids
  <2>. HIDE DEF at
  <2>. QED  BY <2>2, <2>3
<1>7. CASE WriteActiveMode
  <2>. DEFINE at == [attr EXCEPT !.active = ~attr.active]
  <2>1. /\ at \in Attributes /\ at.types = attr.types
        /\ at.interval = attr.interval /\ at.therm = attr.therm /\ at.din = attr.din
    BY <1>1 DEF Attributes
  <2>2. Write(at, "active") /\ "active" \in Ids
    BY <1>7 DEF WriteActiveMode, Ids
  <2>. HIDE DEF at
  <2>. QED  BY <2>1, <2>2
<1>. QED  BY <1>2, <1>3, <1>4, <1>5, <1>6, <1>7

\* A write preserves the types.
LEMMA WriteType ==
  ASSUME TypeOK, NEW at \in Attributes, NEW id \in Ids, Write(at, id)
  PROVE  TypeOK'
<1>1. <<Changed({id})>> \in Seq(Message)
  BY ChangedType
<1>2. sensorQ' \in Seq(Message) /\ Len(sensorQ') <= QueueDepth /\ lost' \in BOOLEAN
  BY <1>1, PostAppends, Zenon DEF Write, TypeOK
<1>3. writes' \in 0 .. MaxWrites /\ attr' = at
  BY SensorTaskAssumption DEF Write, TypeOK
<1>. QED  BY <1>2, <1>3 DEF Write, TypeOK

\* Every step preserves the types.
LEMMA NextType ==
  ASSUME TypeOK, [Next]_vars
  PROVE  TypeOK'
<1>1. CASE \/ WriteAnalogType \/ WriteConfigType \/ WriteThermistorConfig
           \/ WriteDigitalInputConfig \/ WriteInterval \/ WriteActiveMode
  <2>1. PICK at \in Attributes, id \in Ids : Write(at, id)
    BY <1>1, WriteEffect
  <2>. QED  BY <2>1, WriteType
<1>2. CASE UNCHANGED vars
  BY <1>2 DEF vars, TypeOK
<1>. QED  BY <1>1, <1>2, TaskType, StartType, BootType DEF Next

\* Every reachable state has the types of the declarations.
THEOREM TypeCorrect == Spec => []TypeOK
<1>. QED  BY InitType, NextType, PTL DEF Spec

----------------------------------------------------------------------------
(* The rationing of the sensors                                            *)

\* A set with at most one element has no two.
LEMMA AtMostOne ==
  ASSUME NEW S, IsFiniteSet(S), Cardinality(S) <= 1, NEW c \in S, NEW d \in S
  PROVE  c = d
<1>. SUFFICES ASSUME c # d PROVE FALSE
  OBVIOUS
<1>1. IsFiniteSet(S \ {c}) /\ Cardinality(S \ {c}) = Cardinality(S) - 1
  BY FS_RemoveElement
<1>2. Cardinality(S) \in Nat /\ Cardinality(S \ {c}) \in Nat
  BY <1>1, FS_CardinalityType
<1>3. Cardinality(S \ {c}) = 0
  BY <1>1, <1>2
<1>4. S \ {c} = {}
  BY <1>1, <1>3, FS_EmptySet
<1>. QED  BY <1>4

\* No input needs a supply when all are disabled.
LEMMA UnusedRationed == validate_analog_input_config(AllUnused)
<1>1. InputsOf(AllUnused, "ultrasonic") = {} /\ InputsOf(AllUnused, "pressure") = {}
  BY DEF InputsOf, AllUnused
<1>2. Cardinality({}) = 0
  BY FS_EmptySet
<1>. QED  BY <1>1, <1>2 DEF validate_analog_input_config

\* Whatever clients write and whenever the task disables the inputs, the inputs never need
\* more supplies than the board has.
THEOREM InputsRationed == Spec => []SensorsRationed
<1>. DEFINE Valid == validate_analog_input_config(attr.types)
<1>1. Init => Valid
  BY UnusedRationed DEF Init
<1>2. ASSUME TypeOK, Valid, [Next]_vars
      PROVE  Valid'
  <2>1. attr \in Attributes
    BY <1>2 DEF TypeOK
  <2>2. CASE \/ WriteAnalogType \/ WriteConfigType \/ WriteThermistorConfig
             \/ WriteDigitalInputConfig \/ WriteInterval \/ WriteActiveMode
    <3>1. PICK at \in Attributes, id \in Ids :
            Write(at, id) /\ validate_analog_input_config(at.types)
      BY <1>2, <2>2, WriteEffect
    <3>2. attr' = at
      BY <3>1 DEF Write
    <3>. QED  BY <3>1, <3>2 DEF validate_analog_input_config, InputsOf
  <2>3. ASSUME attr' = attr
        PROVE  Valid'
    BY <1>2, <2>3 DEF validate_analog_input_config, InputsOf
  <2>4. ASSUME attr'.types = AllUnused
        PROVE  Valid'
    BY <2>4, UnusedRationed DEF validate_analog_input_config, InputsOf
  <2>5. CASE SensorTaskAttributeChangedMsgHandler
    <3>1. attr' = Disabled(attr) \/ attr' = attr
      BY <2>5 DEF SensorTaskAttributeChangedMsgHandler
    <3>. QED  BY <2>1, <2>3, <2>4, <3>1, DisabledType
  <2>6. CASE LoadSensorConfiguration
    <3>1. attr' = Disabled(attr) \/ attr' = attr
      BY <2>6 DEF LoadSensorConfiguration, BootAttributes
    <3>. QED  BY <2>1, <2>3, <2>4, <3>1, DisabledType
  <2>7. CASE \/ SensorTaskDigitalInConfigMsgHandler
             \/ ReadPowerMsgHandler
             \/ MeasureTemperatureMsgHandler
             \/ AnalogReadMsgHandler
             \/ EnterActiveModeMsgHandler
             \/ EnterShelfModeMsgHandler
             \/ ClearInputConfigChangedMsgHandler
             \/ \E kind \in Kinds : TimerCallbackIsr(kind)
             \/ InitializeIntervalTimers \/ ClearInputConfigChangedFlag \/ Boot
             \/ UNCHANGED vars
    <3>1. attr' = attr
      BY <2>7 DEF SensorTaskDigitalInConfigMsgHandler, ReadPowerMsgHandler,
         MeasureTemperatureMsgHandler, AnalogReadMsgHandler, EnterActiveModeMsgHandler,
         EnterShelfModeMsgHandler, ClearInputConfigChangedMsgHandler, TimerCallbackIsr,
         InitializeIntervalTimers, ClearInputConfigChangedFlag, Boot, vars
    <3>. QED  BY <2>3, <3>1
  <2>. QED  BY <1>2, <2>2, <2>5, <2>6, <2>7 DEF Next
<1>3. ASSUME TypeOK, Valid
      PROVE  SensorsRationed
  <2>. DEFINE ultrasonic == InputsOf(attr.types, "ultrasonic")
              pressure   == InputsOf(attr.types, "pressure")
  <2>1. IsFiniteSet(ultrasonic) /\ IsFiniteSet(pressure)
    BY ChannelsAssumption, FS_Subset DEF InputsOf
  <2>2. Cardinality(ultrasonic) <= 1
    BY <1>3 DEF validate_analog_input_config
  <2>3. Cardinality(pressure) <= IF ultrasonic = {} THEN 2 ELSE 1
    BY <1>3 DEF validate_analog_input_config
  <2>4. Cardinality(pressure) \in Nat
    BY <2>1, FS_CardinalityType
  <2>. HIDE DEF ultrasonic, pressure
  <2>5. \A c, d \in ultrasonic : c = d
    BY <2>1, <2>2, AtMostOne
  <2>6. Cardinality(pressure) <= 2
    BY <2>3, <2>4
  <2>7. ultrasonic # {} => \A c, d \in pressure : c = d
    BY <2>1, <2>3, AtMostOne
  <2>. QED  BY <2>5, <2>6, <2>7 DEF SensorsRationed, ultrasonic, pressure
<1>. QED  BY <1>1, <1>2, <1>3, TypeCorrect, PTL DEF Spec

----------------------------------------------------------------------------
(* The periodic measurements                                               *)

\* The messages that end in a start of the timer of this kind.
Arms(kind) == {m \in Message :
  \/ m.code \in {Measure(kind), "ENTER_ACTIVE"}
  \/ m.code = "ATTR" /\ m.ids \cap Starters(kind) # {}}

Ready == stage \in {"armed", "running"}

ArmedInv ==
  ~lost /\ Ready /\ attr.active => \A kind \in Kinds :
    Needs(attr, kind) => kind \in timers \/ Has(sensorQ, Arms(kind))

\* Which messages arm a measurement.
LEMMA ArmsHas ==
  /\ \A k \in Kinds, code \in Codes :
       Msg(code) \in Arms(k) <=> code \in {Measure(k), "ENTER_ACTIVE"}
  /\ \A k \in Kinds, ids \in SUBSET Ids : Changed(ids) \in Arms(k) <=> ids \cap Starters(k) # {}
<1>1. ASSUME NEW k \in Kinds, NEW code \in Codes
      PROVE  Msg(code) \in Arms(k) <=> code \in {Measure(k), "ENTER_ACTIVE"}
  <2>1. Msg(code) \in Message /\ Msg(code).code = code /\ Msg(code).ids = {}
    BY MsgType DEF Msg
  <2>. QED  BY <2>1 DEF Arms
<1>2. ASSUME NEW k \in Kinds, NEW ids \in SUBSET Ids
      PROVE  Changed(ids) \in Arms(k) <=> ids \cap Starters(k) # {}
  <2>1. Changed(ids) \in Message /\ Changed(ids).code = "ATTR" /\ Changed(ids).ids = ids
    BY ChangedType DEF Changed
  <2>2. Measure(k) # "ATTR"
    BY DEF Measure
  <2>. QED  BY <2>1, <2>2 DEF Arms
<1>. QED  BY <1>1, <1>2

\* The handler of a reading starts the timer of its kind and takes no other's message.
LEMMA ReadArmed ==
  ASSUME TypeOK, ArmedInv, NEW kind \in Kinds, Receives(Measure(kind)), sensorQ' = Tail(sensorQ),
         timers' = Started(timers, attr, kind), UNCHANGED <<attr, lost, stage>>
  PROVE  ArmedInv'
<1>. SUFFICES ASSUME ~lost, Ready, attr.active, NEW k \in Kinds, Needs(attr, k)
              PROVE  k \in timers' \/ Has(sensorQ', Arms(k))
  BY Zenon DEF ArmedInv, Needs, Enabled, Ready
<1>1. attr \in Attributes /\ timers \in SUBSET Kinds
  BY DEF TypeOK
<1>2. k \in timers \/ k = kind => k \in timers'
  BY <1>1, StartedTimers
<1>3. ASSUME k # kind, Has(sensorQ, Arms(k))
      PROVE  Has(sensorQ', Arms(k))
  <2>1. Head(sensorQ).code = Measure(kind)
    BY ReceiveType
  <2>2. Measure(kind) # Measure(k) /\ Measure(kind) \notin {"ENTER_ACTIVE", "ATTR"}
    BY <1>3 DEF Measure, Kinds
  <2>3. Head(sensorQ) \notin Arms(k)
    BY <2>1, <2>2 DEF Arms
  <2>. QED  BY <1>3, <2>3, ReceiveType
<1>. QED  BY <1>2, <1>3 DEF ArmedInv

\* A step that leaves the attributes and keeps what arms a measurement keeps it armed.
LEMMA ArmedKept ==
  ASSUME ArmedInv, attr' = attr, ~lost' => ~lost, Ready' => Ready,
         ~lost' => \A k \in Kinds :
           Needs(attr, k) /\ attr.active /\ (k \in timers \/ Has(sensorQ, Arms(k)))
             => k \in timers' \/ Has(sensorQ', Arms(k))
  PROVE  ArmedInv'
BY Zenon DEF ArmedInv, Needs, Enabled

\* The handler of a broadcast hands on what it takes off the queue.
LEMMA AttributeArmed ==
  ASSUME TypeOK, TypeOK', ArmedInv, SensorTaskAttributeChangedMsgHandler
  PROVE  ArmedInv'
<1>. DEFINE ids == Head(sensorQ).ids
<1>1. /\ ids \in SUBSET Ids /\ Tail(sensorQ) \in Seq(Message) /\ Post(Tail(sensorQ), Answers(ids))
      /\ Head(sensorQ).code = "ATTR" /\ stage' = stage
      /\ \A M : Has(sensorQ, M) => Head(sensorQ) \in M \/ Has(Tail(sensorQ), M)
  BY ReceiveType DEF SensorTaskAttributeChangedMsgHandler
<1>2. /\ Answers(ids) \in Seq(Message)
      /\ \A M : Has(Answers(ids), M) <=>
           \/ "power" \in ids /\ Msg("READ_POWER") \in M
           \/ "temperature" \in ids /\ Msg("TEMPERATURE") \in M
           \/ "active" \in ids /\ Msg(IF attr.active THEN "ENTER_ACTIVE" ELSE "ENTER_SHELF") \in M
           \/ "config" \in ids /\ DisabledIds(attr) # {} /\ Changed(DisabledIds(attr)) \in M
           \/ "din" \in ids /\ Msg("DIN_CONFIG") \in M
           \/ "analog" \in ids /\ Msg("ANALOG") \in M
  BY <1>1, AnswersHas
<1>3. /\ attr' = IF "config" \in ids THEN Disabled(attr) ELSE attr
      /\ \A k \in Kinds : attr'.active /\ Needs(attr', k) =>
           /\ k \in timers => k \in timers'
           /\ k = "temperature" /\ "therm" \in ids => k \in timers'
           /\ k = "analog" /\ "type" \in ids => k \in timers'
  BY AttributeChange
<1>. HIDE DEF ids
<1>4. attr'.active = attr.active /\ \A k \in Kinds : Needs(attr', k) => Needs(attr, k)
  <2>1. CASE "config" \in ids
    <3>1. /\ attr'.active = attr.active /\ attr'.interval = attr.interval
          /\ attr'.types = AllUnused /\ attr'.therm = FALSE
      BY <1>3, <2>1, DisabledType DEF TypeOK
    <3>2. ASSUME NEW k \in Kinds, Needs(attr', k) PROVE Needs(attr, k)
      BY <3>1, <3>2 DEF Needs, Enabled, Kinds
    <3>. QED  BY <3>1, <3>2
  <2>2. CASE ~("config" \in ids)
    BY <1>3, <2>2
  <2>. QED  BY <2>1, <2>2
<1>. SUFFICES ASSUME ~lost', Ready', attr'.active, NEW k \in Kinds, Needs(attr', k)
              PROVE  k \in timers' \/ Has(sensorQ', Arms(k))
  BY Zenon DEF ArmedInv, Needs, Enabled
<1>5. ~lost /\ \A M : Has(Tail(sensorQ), M) \/ Has(Answers(ids), M) <=> Has(sensorQ', M)
  BY <1>1, <1>2, PostHas
<1>6. k \in timers \/ Has(sensorQ, Arms(k))
  BY <1>1, <1>4, <1>5, Zenon DEF ArmedInv, Ready
<1>7. CASE k \in timers \/ Has(Tail(sensorQ), Arms(k))
  BY <1>3, <1>5, <1>7
<1>8. CASE Head(sensorQ) \in Arms(k)
  <2>1. ids \cap Starters(k) # {}
    <3>1. Head(sensorQ).code \notin {Measure(k), "ENTER_ACTIVE"}
      BY <1>1 DEF Measure
    <3>. QED  BY <1>8, <3>1 DEF Arms, ids
  <2>2. \/ k \in ids \/ "active" \in ids
        \/ k = "temperature" /\ "therm" \in ids
        \/ k = "analog" /\ "type" \in ids
    BY <2>1 DEF Starters, Kinds
  <2>3. Msg("ENTER_ACTIVE") \in Arms(k) /\ Msg(Measure(k)) \in Arms(k)
    BY ArmsHas DEF Codes, Measure
  <2>4. CASE "active" \in ids
    BY <1>2, <1>4, <1>5, <2>3, <2>4
  <2>5. CASE k \in ids
    <3>1. /\ k = "power" => Msg("READ_POWER") \in Arms(k)
          /\ k = "temperature" => Msg("TEMPERATURE") \in Arms(k)
          /\ k = "analog" => Msg("ANALOG") \in Arms(k)
          /\ k = "power" \/ k = "temperature" \/ k = "analog"
      BY <2>3 DEF Measure, Kinds
    <3>2. Has(Answers(ids), Arms(k))
      BY <1>2, <2>5, <3>1
    <3>. QED  BY <1>5, <3>2
  <2>. QED  BY <1>3, <2>2, <2>4, <2>5
<1>. QED  BY <1>1, <1>6, <1>7, <1>8

\* A client's write that makes a measurement necessary is broadcast to the task.
LEMMA WriteArmed ==
  ASSUME TypeOK, ArmedInv,
         \/ WriteAnalogType \/ WriteConfigType \/ WriteThermistorConfig
         \/ WriteDigitalInputConfig \/ WriteInterval \/ WriteActiveMode
  PROVE  ArmedInv'
<1>1. PICK at \in Attributes, id \in Ids :
        /\ Write(at, id)
        /\ id # "active" => at.active = attr.active
        /\ \A k \in Kinds : at.interval[k] # attr.interval[k] => id = k
        /\ at.therm # attr.therm => id = "therm"
        /\ at.types # attr.types => id = "type"
  BY WriteEffect
<1>2. /\ attr' = at /\ timers' = timers /\ stage' = stage
      /\ Post(sensorQ, <<Changed({id})>>) /\ sensorQ \in Seq(Message)
  BY <1>1 DEF Write, TypeOK
<1>3. <<Changed({id})>> \in Seq(Message) /\ \A M : Has(<<Changed({id})>>, M) <=> Changed({id}) \in M
  BY ChangedType, OneHas
<1>. SUFFICES ASSUME ~lost', Ready', attr'.active, NEW k \in Kinds, Needs(attr', k)
              PROVE  k \in timers' \/ Has(sensorQ', Arms(k))
  BY Zenon DEF ArmedInv, Needs, Enabled
<1>4. ~lost /\ \A M : Has(sensorQ, M) \/ Has(<<Changed({id})>>, M) <=> Has(sensorQ', M)
  BY <1>2, <1>3, PostHas
<1>5. CASE id \in Starters(k)
  <2>1. Changed({id}) \in Arms(k)
    BY <1>5, ArmsHas
  <2>. QED  BY <1>3, <1>4, <2>1
<1>6. CASE id \notin Starters(k)
  <2>1. id # "active" /\ id # k
    BY <1>6 DEF Starters
  <2>2. attr.active /\ at.interval[k] = attr.interval[k]
    BY <1>1, <1>2, <2>1
  <2>3. k = "temperature" => at.therm = attr.therm
    BY <1>1, <1>6 DEF Starters
  <2>4. k = "analog" => at.types = attr.types
    BY <1>1, <1>6 DEF Starters
  <2>5. Needs(attr, k)
    BY <1>2, <2>2, <2>3, <2>4 DEF Needs, Enabled, Kinds
  <2>6. k \in timers \/ Has(sensorQ, Arms(k))
    BY <1>2, <1>4, <2>2, <2>5, Zenon DEF ArmedInv, Ready
  <2>. QED  BY <1>2, <1>4, <2>6
<1>. QED  BY <1>5, <1>6

\* The start-up arms every reading that is needed, and nothing needs one before.
LEMMA StartArmed ==
  ASSUME TypeOK, ArmedInv,
         \/ LoadSensorConfiguration \/ InitializeIntervalTimers \/ ClearInputConfigChangedFlag
         \/ Boot
  PROVE  ArmedInv'
<1>1. CASE LoadSensorConfiguration \/ Boot
  <2>1. ~Ready'
    BY <1>1 DEF LoadSensorConfiguration, Boot, Ready
  <2>. QED  BY <2>1, Zenon DEF ArmedInv
<1>2. CASE InitializeIntervalTimers
  <2>1. attr' = attr /\ attr \in Attributes /\ timers' = StartedAll({}, attr)
    BY <1>2 DEF InitializeIntervalTimers, TypeOK
  <2>2. \A k \in Kinds : attr.active /\ Needs(attr, k) => k \in timers'
    BY <2>1, StartedAllTimers
  <2>. QED  BY <2>1, <2>2, Zenon DEF ArmedInv, Needs, Enabled
<1>3. CASE ClearInputConfigChangedFlag
  <2>1. /\ <<Msg("CLEAR")>> \in Seq(Message) /\ sensorQ \in Seq(Message)
        /\ Post(sensorQ, <<Msg("CLEAR")>>) /\ UNCHANGED <<attr, timers>> /\ Ready
    BY <1>3, MsgType DEF ClearInputConfigChangedFlag, TypeOK, Codes, Ready
  <2>2. ~lost' => ~lost /\ \A M : Has(sensorQ, M) => Has(sensorQ', M)
    BY <2>1, PostHas
  <2>. QED  BY <2>1, <2>2, ArmedKept, Zenon
<1>. QED  BY <1>1, <1>2, <1>3

\* As long as no message is dropped, and once the timers are initialised, an active device
\* that should read something periodically has the timer running or a message on the way that
\* starts it, through every reconfiguration, expiry and change of the interval.
THEOREM MeasurementsArmed == Spec => []MeasurementArmed
<1>1. Init => ArmedInv
  <2>1. Init => ~Ready
    BY DEF Init, Ready
  <2>. QED  BY <2>1, Zenon DEF ArmedInv
<1>2. ASSUME TypeOK, TypeOK', ArmedInv, [Next]_vars
      PROVE  ArmedInv'
  <2>1. CASE SensorTaskDigitalInConfigMsgHandler
    <3>1. \A k \in Kinds : Has(sensorQ, Arms(k)) => Has(sensorQ', Arms(k))
      <4>1. \A k \in Kinds : Head(sensorQ) \notin Arms(k)
        BY <1>2, <2>1, ReceiveType
        DEF SensorTaskDigitalInConfigMsgHandler, Arms, Measure, Kinds
      <4>. QED  BY <1>2, <2>1, <4>1, ReceiveType DEF SensorTaskDigitalInConfigMsgHandler
    <3>2. UNCHANGED <<attr, timers, lost, stage>>
      BY <2>1 DEF SensorTaskDigitalInConfigMsgHandler
    <3>. QED  BY <1>2, <3>1, <3>2, ArmedKept, Zenon DEF Ready
  <2>2. CASE ClearInputConfigChangedMsgHandler
    <3>1. \A k \in Kinds : Has(sensorQ, Arms(k)) => Has(sensorQ', Arms(k))
      <4>1. \A k \in Kinds : Head(sensorQ) \notin Arms(k)
        BY <1>2, <2>2, ReceiveType
        DEF ClearInputConfigChangedMsgHandler, Arms, Measure, Kinds
      <4>. QED  BY <1>2, <2>2, <4>1, ReceiveType DEF ClearInputConfigChangedMsgHandler
    <3>2. UNCHANGED <<attr, timers, lost, stage>>
      BY <2>2 DEF ClearInputConfigChangedMsgHandler
    <3>. QED  BY <1>2, <3>1, <3>2, ArmedKept, Zenon DEF Ready
  <2>3. CASE ReadPowerMsgHandler \/ MeasureTemperatureMsgHandler \/ AnalogReadMsgHandler
    <3>1. PICK kind \in Kinds :
            /\ Receives(Measure(kind)) /\ sensorQ' = Tail(sensorQ)
            /\ timers' = Started(timers, attr, kind)
      BY <2>3 DEF ReadPowerMsgHandler, MeasureTemperatureMsgHandler, AnalogReadMsgHandler,
         AfterAnalogRead, Kinds, Measure
    <3>2. UNCHANGED <<attr, lost, stage>>
      BY <2>3 DEF ReadPowerMsgHandler, MeasureTemperatureMsgHandler, AnalogReadMsgHandler
    <3>. QED  BY <1>2, <3>1, <3>2, ReadArmed
  <2>4. CASE EnterActiveModeMsgHandler
    <3>1. \A k \in Kinds : attr.active /\ Needs(attr, k) => k \in timers'
      BY <1>2, <2>4, StartedAllTimers DEF EnterActiveModeMsgHandler, TypeOK
    <3>2. UNCHANGED <<attr, lost, stage>>
      BY <2>4 DEF EnterActiveModeMsgHandler
    <3>. QED  BY <1>2, <3>1, <3>2, ArmedKept, Zenon DEF Ready
  <2>5. CASE EnterShelfModeMsgHandler
    <3>1. \A k \in Kinds : Has(sensorQ, Arms(k)) => Has(sensorQ', Arms(k))
      <4>1. \A k \in Kinds : Head(sensorQ) \notin Arms(k)
        BY <1>2, <2>5, ReceiveType DEF EnterShelfModeMsgHandler, Arms, Measure, Kinds
      <4>. QED  BY <1>2, <2>5, <4>1, ReceiveType DEF EnterShelfModeMsgHandler
    <3>2. UNCHANGED <<attr, timers, lost, stage>>
      BY <2>5 DEF EnterShelfModeMsgHandler
    <3>. QED  BY <1>2, <3>1, <3>2, ArmedKept, Zenon DEF Ready
  <2>6. ASSUME NEW kind \in Kinds, TimerCallbackIsr(kind)
        PROVE  ArmedInv'
    <3>1. /\ <<Msg(Measure(kind))>> \in Seq(Message)
          /\ Has(<<Msg(Measure(kind))>>, Arms(kind))
      BY MsgType, ArmsHas DEF Codes, Measure
    <3>2. sensorQ \in Seq(Message) /\ timers' = timers \ {kind}
          /\ Post(sensorQ, <<Msg(Measure(kind))>>)
      BY <1>2, <2>6 DEF TimerCallbackIsr, TypeOK
    <3>3. UNCHANGED <<attr, stage>>
      BY <2>6 DEF TimerCallbackIsr
    <3>4. ~lost' => ~lost /\ \A M :
            Has(sensorQ, M) \/ Has(<<Msg(Measure(kind))>>, M) <=> Has(sensorQ', M)
      BY <3>1, <3>2, PostHas
    <3>5. ~lost' => \A k \in Kinds : k \in timers \/ Has(sensorQ, Arms(k))
                                       => k \in timers' \/ Has(sensorQ', Arms(k))
      BY <3>1, <3>2, <3>4
    <3>. QED  BY <1>2, <3>3, <3>4, <3>5, ArmedKept, Zenon DEF Ready
  <2>7. CASE UNCHANGED vars
    BY <1>2, <2>7, ArmedKept DEF vars, Ready
  <2>. QED  BY <1>2, <2>1, <2>2, <2>3, <2>4, <2>5, <2>6, <2>7, AttributeArmed, WriteArmed, StartArmed
            DEF Next
<1>3. ASSUME TypeOK, ArmedInv
      PROVE  MeasurementArmed
  <2>. SUFFICES ASSUME ~lost, Ready, attr.active,
                       NEW kind \in Kinds, attr.interval[kind] /\ Enabled(attr, kind)
                PROVE  \/ kind \in timers
                       \/ HasMsg(Measure(kind)) \/ HasMsg("ENTER_ACTIVE")
                       \/ \E id \in Starters(kind) : HasChange(id)
    BY Zenon DEF MeasurementArmed, Ready
  <2>1. kind \in timers \/ Has(sensorQ, Arms(kind))
    BY <1>3, Zenon DEF ArmedInv, Needs
  <2>2. CASE Has(sensorQ, Arms(kind))
    <3>1. PICK i \in DOMAIN sensorQ : sensorQ[i] \in Arms(kind)
      BY <2>2 DEF Has
    <3>. QED  BY <3>1 DEF Arms, HasMsg, HasChange
  <2>. QED  BY <2>1, <2>2
<1>. QED  BY <1>1, <1>2, <1>3, TypeCorrect, PTL DEF Spec

----------------------------------------------------------------------------
(* The pins of the digital inputs                                          *)

\* The messages that make the pins follow the configuration.
Pins == {m \in Message : m.code = "DIN_CONFIG" \/ (m.code = "ATTR" /\ "din" \in m.ids)}

DinInv ==
  ~lost /\ stage # "created" /\ dinEnabled # attr.din => Has(sensorQ, Pins)

\* Which messages do.
LEMMA PinsHas ==
  /\ Msg("DIN_CONFIG") \in Pins
  /\ \A ids \in SUBSET Ids : Changed(ids) \in Pins <=> "din" \in ids
<1>1. Msg("DIN_CONFIG") \in Message /\ Msg("DIN_CONFIG").code = "DIN_CONFIG"
  BY MsgType DEF Msg, Codes
<1>2. \A ids \in SUBSET Ids :
        Changed(ids) \in Message /\ Changed(ids).code = "ATTR" /\ Changed(ids).ids = ids
  BY ChangedType DEF Changed
<1>3. ASSUME NEW ids \in SUBSET Ids PROVE Changed(ids) \in Pins <=> "din" \in ids
  BY <1>2 DEF Pins
<1>4. Msg("DIN_CONFIG") \in Pins
  BY <1>1, Zenon DEF Pins
<1>. QED  BY <1>3, <1>4

\* The handler of a broadcast that changes the configuration broadcasts that in turn, and one
\* that is told of a change sends the message that applies it.
LEMMA AttributePins ==
  ASSUME TypeOK, DinInv, SensorTaskAttributeChangedMsgHandler
  PROVE  DinInv'
<1>. DEFINE ids == Head(sensorQ).ids
<1>1. /\ ids \in SUBSET Ids /\ Tail(sensorQ) \in Seq(Message) /\ Post(Tail(sensorQ), Answers(ids))
      /\ Head(sensorQ).code = "ATTR" /\ UNCHANGED <<dinEnabled, stage>>
      /\ \A M : Has(sensorQ, M) => Head(sensorQ) \in M \/ Has(Tail(sensorQ), M)
  BY ReceiveType DEF SensorTaskAttributeChangedMsgHandler
<1>2. /\ Answers(ids) \in Seq(Message)
      /\ \A M : \/ "config" \in ids /\ DisabledIds(attr) # {} /\ Changed(DisabledIds(attr)) \in M
                \/ "din" \in ids /\ Msg("DIN_CONFIG") \in M
                => Has(Answers(ids), M)
  BY <1>1, AnswersHas
<1>3. attr' = IF "config" \in ids THEN Disabled(attr) ELSE attr
  BY AttributeChange
<1>4. "din" \in ids <=> Head(sensorQ) \in Pins
  BY <1>1, ReceiveType DEF Pins, SensorTaskAttributeChangedMsgHandler
<1>. HIDE DEF ids
<1>. SUFFICES ASSUME ~lost', stage' # "created", dinEnabled' # attr'.din
              PROVE  Has(sensorQ', Pins)
  BY Zenon DEF DinInv
<1>5. ~lost /\ \A M : Has(Tail(sensorQ), M) \/ Has(Answers(ids), M) <=> Has(sensorQ', M)
  BY <1>1, <1>2, PostHas
<1>6. CASE dinEnabled # attr.din
  <2>1. Head(sensorQ) \in Pins \/ Has(Tail(sensorQ), Pins)
    BY <1>1, <1>5, <1>6, Zenon DEF DinInv
  <2>2. "din" \in ids => Has(Answers(ids), Pins)
    BY <1>2, PinsHas DEF Codes
  <2>. QED  BY <1>4, <1>5, <2>1, <2>2
<1>7. CASE dinEnabled = attr.din
  <2>1. "config" \in ids /\ attr'.din = FALSE /\ attr.din
    BY <1>1, <1>3, <1>7, DisabledType DEF TypeOK, Attributes
  <2>2. "din" \in DisabledIds(attr) /\ DisabledIds(attr) \in SUBSET Ids
    BY <2>1, DisableHas DEF DisabledIds, TypeOK
  <2>3. Changed(DisabledIds(attr)) \in Pins
    BY <2>2, PinsHas
  <2>. QED  BY <1>2, <1>5, <2>1, <2>2, <2>3
<1>. QED  BY <1>6, <1>7

\* As long as no message is dropped, and once the start-up has asked for it, the pins follow
\* digital_input_N_config.
THEOREM PinsFollow == Spec => []DinFollowsConfig
<1>1. Init => DinInv
  BY Zenon DEF Init, DinInv
<1>2. ASSUME TypeOK, DinInv, [Next]_vars
      PROVE  DinInv'
  <2>1. CASE SensorTaskDigitalInConfigMsgHandler
    BY <2>1 DEF SensorTaskDigitalInConfigMsgHandler, DinInv
  <2>2. CASE \/ ReadPowerMsgHandler \/ MeasureTemperatureMsgHandler \/ AnalogReadMsgHandler
             \/ EnterActiveModeMsgHandler \/ EnterShelfModeMsgHandler
             \/ ClearInputConfigChangedMsgHandler
    <3>1. PICK code \in Codes \ {"DIN_CONFIG", "ATTR"} :
            Receives(code) /\ sensorQ' = Tail(sensorQ)
      BY <2>2 DEF ReadPowerMsgHandler, MeasureTemperatureMsgHandler, AnalogReadMsgHandler,
         EnterActiveModeMsgHandler, EnterShelfModeMsgHandler, ClearInputConfigChangedMsgHandler,
         Codes
    <3>2. UNCHANGED <<attr, dinEnabled, lost, stage>>
      BY <2>2 DEF ReadPowerMsgHandler, MeasureTemperatureMsgHandler, AnalogReadMsgHandler,
         EnterActiveModeMsgHandler, EnterShelfModeMsgHandler, ClearInputConfigChangedMsgHandler
    <3>3. Head(sensorQ) \notin Pins
      BY <1>2, <3>1, ReceiveType DEF Pins
    <3>4. Has(sensorQ, Pins) => Has(sensorQ', Pins)
      BY <1>2, <3>1, <3>3, ReceiveType
    <3>. QED  BY <1>2, <3>2, <3>4, Zenon DEF DinInv
  <2>3. ASSUME NEW kind \in Kinds, TimerCallbackIsr(kind)
        PROVE  DinInv'
    <3>1. /\ <<Msg(Measure(kind))>> \in Seq(Message) /\ sensorQ \in Seq(Message)
          /\ Post(sensorQ, <<Msg(Measure(kind))>>)
      BY <1>2, <2>3, MsgType DEF TimerCallbackIsr, TypeOK, Codes, Measure
    <3>2. UNCHANGED <<attr, dinEnabled, stage>>
      BY <2>3 DEF TimerCallbackIsr
    <3>3. ~lost' => ~lost /\ (Has(sensorQ, Pins) => Has(sensorQ', Pins))
      BY <3>1, PostHas
    <3>. QED  BY <1>2, <3>2, <3>3, Zenon DEF DinInv
  <2>4. CASE \/ WriteAnalogType \/ WriteConfigType \/ WriteThermistorConfig
             \/ WriteDigitalInputConfig \/ WriteInterval \/ WriteActiveMode
    <3>1. PICK at \in Attributes, id \in Ids : Write(at, id) /\ (at.din # attr.din => id = "din")
      BY <1>2, <2>4, WriteEffect
    <3>2. /\ <<Changed({id})>> \in Seq(Message) /\ sensorQ \in Seq(Message)
          /\ Post(sensorQ, <<Changed({id})>>) /\ attr' = at
      BY <1>2, <3>1, ChangedType DEF Write, TypeOK
    <3>3. UNCHANGED <<dinEnabled, stage>>
      BY <3>1 DEF Write
    <3>4. at.din # attr.din => Has(<<Changed({id})>>, Pins)
      BY <3>1, PinsHas, ChangedType, OneHas
    <3>5. ~lost' => ~lost /\ (Has(sensorQ, Pins) \/ Has(<<Changed({id})>>, Pins)
                                => Has(sensorQ', Pins))
      BY <3>2, PostHas
    <3>. QED  BY <1>2, <3>2, <3>3, <3>4, <3>5, Zenon DEF DinInv
  <2>5. CASE LoadSensorConfiguration
    <3>1. /\ BootMessages(attr) \in Seq(Message) /\ sensorQ \in Seq(Message)
          /\ Has(BootMessages(attr), {Msg("DIN_CONFIG")}) /\ Msg("DIN_CONFIG") \in Pins
      BY <1>2, BootMessagesHas, PinsHas DEF TypeOK
    <3>2. Has(BootMessages(attr), Pins)
      BY <3>1 DEF Has
    <3>3. ~lost' => Has(sensorQ', Pins)
      BY <2>5, <3>1, <3>2, PostHas DEF LoadSensorConfiguration
    <3>. QED  BY <3>3, Zenon DEF DinInv
  <2>7. CASE Boot
    BY <2>7, Zenon DEF Boot, DinInv
  <2>8. CASE InitializeIntervalTimers
    <3>1. UNCHANGED <<attr, dinEnabled, lost, sensorQ>> /\ stage # "created"
      BY <2>8 DEF InitializeIntervalTimers
    <3>2. Has(sensorQ, Pins) => Has(sensorQ', Pins)
      BY <3>1
    <3>. QED  BY <1>2, <3>1, <3>2, Zenon DEF DinInv
  <2>9. CASE ClearInputConfigChangedFlag
    <3>1. /\ <<Msg("CLEAR")>> \in Seq(Message) /\ sensorQ \in Seq(Message)
          /\ Post(sensorQ, <<Msg("CLEAR")>>)
      BY <1>2, <2>9, MsgType DEF ClearInputConfigChangedFlag, TypeOK, Codes
    <3>2. UNCHANGED <<attr, dinEnabled>> /\ stage # "created"
      BY <2>9 DEF ClearInputConfigChangedFlag
    <3>3. ~lost' => ~lost /\ (Has(sensorQ, Pins) => Has(sensorQ', Pins))
      BY <3>1, PostHas
    <3>. QED  BY <1>2, <3>2, <3>3, Zenon DEF DinInv
  <2>6. CASE UNCHANGED vars
    <3>1. Has(sensorQ, Pins) => Has(sensorQ', Pins)
      BY <2>6 DEF vars
    <3>2. UNCHANGED <<attr, dinEnabled, lost, stage>>
      BY <2>6 DEF vars
    <3>. QED  BY <1>2, <3>1, <3>2, Zenon DEF DinInv
  <2>. QED  BY <1>2, <2>1, <2>2, <2>3, <2>4, <2>5, <2>6, <2>7, <2>8, <2>9, AttributePins DEF Next
<1>3. ASSUME DinInv
      PROVE  DinFollowsConfig
  <2>. SUFFICES ASSUME ~lost, stage # "created", dinEnabled # attr.din
                PROVE  HasMsg("DIN_CONFIG") \/ HasChange("din")
    BY Zenon DEF DinFollowsConfig
  <2>1. PICK i \in DOMAIN sensorQ : sensorQ[i] \in Pins
    BY <1>3 DEF DinInv, Has
  <2>. QED  BY <2>1 DEF Pins, HasMsg, HasChange
<1>. QED  BY <1>1, <1>2, <1>3, TypeCorrect, PTL DEF Spec

----------------------------------------------------------------------------
(* The change of the inputs                                                *)

\* The broadcasts that set input_config_changed, and the message that clears it.
Notices == {m \in Message : m.code = "ATTR" /\ m.ids \cap InputConfigIds # {}}
Clears  == {m \in Message : m.code = "CLEAR"}

\* A broadcast in the queue will set the flag, and no message behind it clears it again.
Noticed(q) ==
  \E i \in DOMAIN q : q[i] \in Notices /\ \A j \in DOMAIN q : q[j] \in Clears => j < i

NoticedInv ==
  ~lost /\ stage = "running" /\ Inputs(attr) # started =>
    (changed /\ ~Has(sensorQ, Clears)) \/ Noticed(sensorQ)

\* A broadcast that is taken off the queue is the one that sets the flag, or that one stays.
LEMMA NoticedTail ==
  ASSUME NEW q \in Seq(Message), q # <<>>
  PROVE  /\ Has(Tail(q), Clears) => Has(q, Clears)
         /\ Noticed(q) => Noticed(Tail(q)) \/ (Head(q) \in Notices /\ ~Has(Tail(q), Clears))
<1>1. \A i \in DOMAIN Tail(q) : i + 1 \in DOMAIN q /\ Tail(q)[i] = q[i + 1]
  OBVIOUS
<1>2. Has(Tail(q), Clears) => Has(q, Clears)
  BY <1>1 DEF Has
<1>3. ASSUME Noticed(q)
      PROVE  Noticed(Tail(q)) \/ (Head(q) \in Notices /\ ~Has(Tail(q), Clears))
  <2>1. PICK i \in DOMAIN q : q[i] \in Notices /\ \A j \in DOMAIN q : q[j] \in Clears => j < i
    BY <1>3 DEF Noticed
  <2>2. i \in Nat /\ i >= 1 /\ DOMAIN Tail(q) \subseteq Nat \ {0}
    OBVIOUS
  <2>3. CASE i = 1
    <3>1. Head(q) \in Notices
      BY <2>1, <2>3
    <3>2. \A j \in DOMAIN Tail(q) : ~(j + 1 < 1)
      BY <2>2
    <3>3. ~Has(Tail(q), Clears)
      BY <1>1, <2>1, <2>3, <3>2 DEF Has
    <3>. QED  BY <3>1, <3>3
  <2>4. CASE i # 1
    <3>1. i - 1 \in DOMAIN Tail(q) /\ Tail(q)[i - 1] = q[i]
      BY <2>4
    <3>2. ASSUME NEW j \in DOMAIN Tail(q), Tail(q)[j] \in Clears
          PROVE  j < i - 1
      <4>1. j + 1 < i
        BY <1>1, <2>1, <3>2
      <4>. QED  BY <2>2, <4>1
    <3>. QED  BY <2>1, <3>1, <3>2 DEF Noticed
  <2>. QED  BY <2>3, <2>4
<1>. QED  BY <1>2, <1>3

\* Messages that clear nothing, sent behind the others, keep a broadcast noticed, and may be one.
LEMMA NoticedConcat ==
  ASSUME NEW q \in Seq(Message), NEW ms \in Seq(Message), ~Has(ms, Clears),
         Noticed(q) \/ Has(ms, Notices)
  PROVE  Noticed(q \o ms)
<1>1. /\ \A i \in DOMAIN q : i \in DOMAIN (q \o ms) /\ (q \o ms)[i] = q[i] /\ i <= Len(q)
      /\ \A i \in DOMAIN ms : Len(q) + i \in DOMAIN (q \o ms) /\ (q \o ms)[Len(q) + i] = ms[i]
      /\ DOMAIN (q \o ms) = 1 .. Len(q) + Len(ms) /\ Len(q) \in Nat
  OBVIOUS
<1>2. ASSUME NEW j \in DOMAIN (q \o ms), (q \o ms)[j] \in Clears
      PROVE  j \in DOMAIN q /\ q[j] \in Clears /\ j <= Len(q)
  <2>1. CASE j <= Len(q)
    <3>1. j \in DOMAIN q /\ (q \o ms)[j] = q[j]
      BY <1>1, <2>1
    <3>. QED  BY <1>2, <2>1, <3>1
  <2>2. CASE j > Len(q)
    <3>1. j - Len(q) \in DOMAIN ms /\ (q \o ms)[j] = ms[j - Len(q)]
      BY <1>1, <2>2
    <3>. QED  BY <1>2, <3>1 DEF Has
  <2>. QED  BY <1>1, <2>1, <2>2
<1>3. CASE Noticed(q)
  <2>1. PICK i \in DOMAIN q : q[i] \in Notices /\ \A j \in DOMAIN q : q[j] \in Clears => j < i
    BY <1>3 DEF Noticed
  <2>. QED  BY <1>1, <1>2, <2>1 DEF Noticed
<1>4. CASE Has(ms, Notices)
  <2>1. PICK i \in DOMAIN ms : ms[i] \in Notices
    BY <1>4 DEF Has
  <2>2. i \in Nat /\ i >= 1
    OBVIOUS
  <2>3. ASSUME NEW j \in DOMAIN (q \o ms), (q \o ms)[j] \in Clears
        PROVE  j < Len(q) + i
    <3>1. j \in Nat /\ j <= Len(q)
      BY <1>1, <1>2, <2>3
    <3>. QED  BY <1>1, <2>2, <3>1
  <2>. QED  BY <1>1, <2>1, <2>3 DEF Noticed
<1>. QED  BY <1>3, <1>4

\* Sending messages that clear nothing leaves none in the queue that was not there.
LEMMA PostNoticed ==
  ASSUME NEW q \in Seq(Message), NEW ms \in Seq(Message), Post(q, ms), ~lost', ~Has(ms, Clears)
  PROVE  /\ ~lost
         /\ Has(sensorQ', Clears) => Has(q, Clears)
         /\ Noticed(q) \/ Has(ms, Notices) => Noticed(sensorQ')
<1>1. ~lost /\ sensorQ' = q \o ms
  BY PostAppends, Zenon
<1>2. Has(sensorQ', Clears) => Has(q, Clears)
  BY PostHas
<1>3. Noticed(q) \/ Has(ms, Notices) => Noticed(q \o ms)
  BY NoticedConcat
<1>. QED  BY <1>1, <1>2, <1>3, Zenon

\* Which messages set the flag or clear it.
LEMMA NoticesHas ==
  /\ \A code \in Codes \ {"CLEAR"} : Msg(code) \notin Clears
  /\ \A ids \in SUBSET Ids : /\ Changed(ids) \notin Clears
                             /\ Changed(ids) \in Notices <=> ids \cap InputConfigIds # {}
<1>1. \A code \in Codes \ {"CLEAR"} : Msg(code) \notin Clears
  BY DEF Clears, Msg
<1>2. ASSUME NEW ids \in SUBSET Ids
      PROVE  /\ Changed(ids) \notin Clears
             /\ Changed(ids) \in Notices <=> ids \cap InputConfigIds # {}
  <2>1. Changed(ids) \in Message /\ Changed(ids).code = "ATTR" /\ Changed(ids).ids = ids
    BY ChangedType DEF Changed
  <2>. QED  BY <2>1 DEF Clears, Notices
<1>. QED  BY <1>1, <1>2

\* The handler of a broadcast sets the flag; the inputs it disables itself it broadcasts.
LEMMA AttributeNoticed ==
  ASSUME TypeOK, NoticedInv, SensorTaskAttributeChangedMsgHandler
  PROVE  NoticedInv'
<1>. DEFINE ids == Head(sensorQ).ids
<1>1. /\ ids \in SUBSET Ids /\ Tail(sensorQ) \in Seq(Message) /\ Post(Tail(sensorQ), Answers(ids))
      /\ sensorQ \in Seq(Message) /\ sensorQ # <<>> /\ UNCHANGED <<stage, started>>
  BY ReceiveType DEF SensorTaskAttributeChangedMsgHandler, Receives, TypeOK
<1>2. Answers(ids) \in Seq(Message)
  BY <1>1, AnswersHas
<1>3. "config" \in ids /\ DisabledIds(attr) # {} /\ Changed(DisabledIds(attr)) \in Notices
        => Has(Answers(ids), Notices)
  BY <1>1, AnswersHas
<1>4. ~Has(Answers(ids), Clears)
  <2>1. /\ Msg("READ_POWER") \notin Clears /\ Msg("TEMPERATURE") \notin Clears
        /\ Msg(IF attr.active THEN "ENTER_ACTIVE" ELSE "ENTER_SHELF") \notin Clears
        /\ Msg("DIN_CONFIG") \notin Clears /\ Msg("ANALOG") \notin Clears
    BY NoticesHas DEF Codes
  <2>2. Changed(DisabledIds(attr)) \notin Clears
    BY DisableHas, NoticesHas DEF TypeOK
  <2>. QED  BY <1>1, <2>1, <2>2, AnswersHas
<1>5. attr' = IF "config" \in ids THEN Disabled(attr) ELSE attr
  BY AttributeChange
<1>6. changed \/ ids \cap InputConfigIds # {} => changed'
  BY Zenon DEF SensorTaskAttributeChangedMsgHandler
<1>7. Head(sensorQ) \in Notices => ids \cap InputConfigIds # {}
  BY DEF Notices
<1>. HIDE DEF ids
<1>. SUFFICES ASSUME ~lost', stage' = "running", Inputs(attr') # started'
              PROVE  (changed' /\ ~Has(sensorQ', Clears)) \/ Noticed(sensorQ')
  BY Zenon DEF NoticedInv, Inputs
<1>8. /\ ~lost
      /\ Has(sensorQ', Clears) => Has(Tail(sensorQ), Clears)
      /\ Noticed(Tail(sensorQ)) \/ Has(Answers(ids), Notices) => Noticed(sensorQ')
  BY <1>1, <1>2, <1>4, PostNoticed
<1>9. /\ Has(Tail(sensorQ), Clears) => Has(sensorQ, Clears)
      /\ Noticed(sensorQ) => \/ Noticed(Tail(sensorQ))
                             \/ Head(sensorQ) \in Notices /\ ~Has(Tail(sensorQ), Clears)
  BY <1>1, NoticedTail
<1>10. CASE Inputs(attr) # started
  BY <1>1, <1>6, <1>7, <1>8, <1>9, <1>10, Zenon DEF NoticedInv
<1>11. CASE Inputs(attr) = started
  <2>1. "config" \in ids /\ attr' = Disabled(attr) /\ Inputs(attr') # Inputs(attr)
    BY <1>1, <1>5, <1>11
  <2>2. attr'.types = AllUnused /\ attr'.therm = FALSE
    BY <2>1, DisabledType DEF TypeOK
  <2>3. attr.types # AllUnused \/ attr.therm
    BY <2>1, <2>2 DEF Inputs, TypeOK, Attributes
  <2>4. DisabledIds(attr) \cap InputConfigIds # {} /\ DisabledIds(attr) \in SUBSET Ids
    BY <2>3, DisableHas DEF DisabledIds, InputConfigIds, TypeOK
  <2>5. Changed(DisabledIds(attr)) \in Notices /\ DisabledIds(attr) # {}
    BY <2>4, NoticesHas
  <2>. QED  BY <1>3, <1>8, <2>1, <2>5
<1>. QED  BY <1>10, <1>11

\* As long as no message is dropped, inputs that differ from those at the end of the start-up
\* have input_config_changed set for good, or have the broadcast that will set it in the queue.
THEOREM ChangesNoticed == Spec => []ConfigChangeNoticed
<1>1. Init => NoticedInv
  BY Zenon DEF Init, NoticedInv
<1>2. ASSUME TypeOK, NoticedInv, [Next]_vars
      PROVE  NoticedInv'
  <2>1. CASE ClearInputConfigChangedMsgHandler
    <3>1. /\ UNCHANGED <<attr, lost, stage, started>> /\ sensorQ' = Tail(sensorQ)
          /\ sensorQ \in Seq(Message) /\ sensorQ # <<>> /\ Head(sensorQ).code = "CLEAR"
          /\ Head(sensorQ) \in Message
      BY <1>2, <2>1, ReceiveType DEF ClearInputConfigChangedMsgHandler, TypeOK, Receives
    <3>2. Head(sensorQ) \in Clears /\ Head(sensorQ) \notin Notices
      BY <3>1 DEF Clears, Notices
    <3>3. Has(sensorQ, Clears)
      BY <3>1, <3>2 DEF Has
    <3>4. Noticed(sensorQ) => Noticed(sensorQ')
      BY <3>1, <3>2, NoticedTail
    <3>. QED  BY <1>2, <3>1, <3>3, <3>4, Zenon DEF NoticedInv
  <2>2. CASE \/ ReadPowerMsgHandler \/ MeasureTemperatureMsgHandler \/ AnalogReadMsgHandler
             \/ EnterActiveModeMsgHandler \/ EnterShelfModeMsgHandler
             \/ SensorTaskDigitalInConfigMsgHandler
    <3>1. PICK code \in Codes \ {"CLEAR", "ATTR"} :
            Receives(code) /\ sensorQ' = Tail(sensorQ)
      BY <2>2 DEF ReadPowerMsgHandler, MeasureTemperatureMsgHandler, AnalogReadMsgHandler,
         EnterActiveModeMsgHandler, EnterShelfModeMsgHandler, SensorTaskDigitalInConfigMsgHandler,
         Codes
    <3>2. UNCHANGED <<attr, lost, stage, started, changed>>
      BY <2>2 DEF ReadPowerMsgHandler, MeasureTemperatureMsgHandler, AnalogReadMsgHandler,
         EnterActiveModeMsgHandler, EnterShelfModeMsgHandler, SensorTaskDigitalInConfigMsgHandler
    <3>3. Head(sensorQ) \notin Notices /\ sensorQ \in Seq(Message) /\ sensorQ # <<>>
      BY <1>2, <3>1, ReceiveType DEF Notices, Receives, TypeOK
    <3>4. /\ Has(sensorQ', Clears) => Has(sensorQ, Clears)
          /\ Noticed(sensorQ) => Noticed(sensorQ')
      BY <3>1, <3>3, NoticedTail
    <3>. QED  BY <1>2, <3>2, <3>4, Zenon DEF NoticedInv
  <2>3. ASSUME NEW kind \in Kinds, TimerCallbackIsr(kind)
        PROVE  NoticedInv'
    <3>1. /\ <<Msg(Measure(kind))>> \in Seq(Message) /\ sensorQ \in Seq(Message)
          /\ Post(sensorQ, <<Msg(Measure(kind))>>) /\ ~Has(<<Msg(Measure(kind))>>, Clears)
      BY <1>2, <2>3, MsgType, NoticesHas DEF TimerCallbackIsr, TypeOK, Codes, Measure
    <3>2. UNCHANGED <<attr, stage, started, changed>>
      BY <2>3 DEF TimerCallbackIsr
    <3>3. ~lost' => /\ ~lost
                    /\ Has(sensorQ', Clears) => Has(sensorQ, Clears)
                    /\ Noticed(sensorQ) => Noticed(sensorQ')
      BY <3>1, PostNoticed
    <3>. QED  BY <1>2, <3>2, <3>3, Zenon DEF NoticedInv
  <2>4. CASE \/ WriteAnalogType \/ WriteConfigType \/ WriteThermistorConfig
             \/ WriteDigitalInputConfig \/ WriteInterval \/ WriteActiveMode
    <3>1. PICK at \in Attributes, id \in Ids :
            /\ Write(at, id)
            /\ at.therm # attr.therm => id = "therm"
            /\ at.types # attr.types => id = "type"
      BY <1>2, <2>4, WriteEffect
    <3>2. /\ <<Changed({id})>> \in Seq(Message) /\ sensorQ \in Seq(Message)
          /\ Post(sensorQ, <<Changed({id})>>) /\ attr' = at
          /\ ~Has(<<Changed({id})>>, Clears)
      BY <1>2, <3>1, ChangedType, OneHas, NoticesHas DEF Write, TypeOK
    <3>3. UNCHANGED <<stage, started, changed>>
      BY <3>1 DEF Write
    <3>4. Inputs(at) # Inputs(attr) => Has(<<Changed({id})>>, Notices)
      <4>. SUFFICES ASSUME Inputs(at) # Inputs(attr) PROVE Has(<<Changed({id})>>, Notices)
        OBVIOUS
      <4>1. id \in {"therm", "type"}
        BY <3>1 DEF Inputs
      <4>2. {id} \cap InputConfigIds # {} /\ {id} \in SUBSET Ids
        BY <4>1 DEF InputConfigIds
      <4>3. Changed({id}) \in Notices
        BY <4>2, NoticesHas
      <4>. QED  BY <4>2, <4>3, ChangedType, OneHas
    <3>5. ~lost' => /\ ~lost
                    /\ Has(sensorQ', Clears) => Has(sensorQ, Clears)
                    /\ Noticed(sensorQ) \/ Has(<<Changed({id})>>, Notices) => Noticed(sensorQ')
      BY <3>2, PostNoticed
    <3>6. Inputs(attr)' = Inputs(at)
      BY <3>2 DEF Inputs
    <3>7. Inputs(at) = Inputs(attr) \/ Inputs(at) # Inputs(attr)
      OBVIOUS
    <3>. QED  BY <1>2, <3>3, <3>4, <3>5, <3>6, <3>7, Zenon DEF NoticedInv
  <2>5. CASE \/ LoadSensorConfiguration \/ InitializeIntervalTimers \/ Boot
    <3>1. stage' # "running"
      BY <2>5 DEF LoadSensorConfiguration, InitializeIntervalTimers, Boot
    <3>. QED  BY <3>1, Zenon DEF NoticedInv
  <2>7. CASE ClearInputConfigChangedFlag
    <3>1. Inputs(attr)' = started'
      BY <2>7 DEF ClearInputConfigChangedFlag, Inputs
    <3>. QED  BY <3>1, Zenon DEF NoticedInv
  <2>6. CASE UNCHANGED vars
    <3>1. UNCHANGED <<attr, lost, stage, started, changed, sensorQ>>
      BY <2>6 DEF vars
    <3>2. Inputs(attr)' = Inputs(attr) /\ Noticed(sensorQ)' = Noticed(sensorQ)
          /\ Has(sensorQ, Clears)' = Has(sensorQ, Clears)
      BY <3>1 DEF Inputs, Noticed, Has
    <3>. QED  BY <1>2, <3>1, <3>2, Zenon DEF NoticedInv
  <2>. QED  BY <1>2, <2>1, <2>2, <2>3, <2>4, <2>5, <2>6, <2>7, AttributeNoticed DEF Next
<1>3. ASSUME TypeOK, NoticedInv
      PROVE  ConfigChangeNoticed
  <2>1. HasMsg("CLEAR") => Has(sensorQ, Clears)
    BY <1>3 DEF HasMsg, Has, Clears, TypeOK
  <2>2. Noticed(sensorQ) => ChangeOnTheWay
    <3>1. \A j \in DOMAIN sensorQ : sensorQ[j].code = "CLEAR" => sensorQ[j] \in Clears
      BY <1>3 DEF Clears, TypeOK
    <3>. QED  BY <3>1 DEF Noticed, Notices, ChangeOnTheWay
  <2>. QED  BY <1>3, <2>1, <2>2, Zenon DEF NoticedInv, ConfigChangeNoticed
<1>. QED  BY <1>1, <1>2, <1>3, TypeCorrect, PTL DEF Spec
=============================================================================
