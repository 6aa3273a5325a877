----------------------------- MODULE SensorTask -----------------------------
(***************************************************************************)
(* The sensor task of src/SensorTask.c: the three interval timers, the     *)
(* configuration of the inputs, and the flag that keeps readings away from *)
(* the telemetry objects once the configuration has changed.  Clients      *)
(* write attributes in another thread; the task learns of it from a        *)
(* broadcast it handles later, and reads the attribute then.               *)
(*                                                                         *)
(* A handler is one step; the start-up is four, since clients write while  *)
(* the task initialises the converter and takes its first measurements.    *)
(* The values read, the events they raise and the contents of the          *)
(* telemetry objects are left out.  A definition whose name starts with    *)
(* Mutant is a plausible slip in the one below it, used by no              *)
(* specification.                                                          *)
(***************************************************************************)
EXTENDS AnalogConfig, Sequences

CONSTANTS QueueDepth,    \* SENSOR_TASK_QUEUE_DEPTH
          PoolMayFail,   \* whether BufferPool_Take can find the pool exhausted
          MaxWrites      \* bound: how many attributes clients write

ASSUME SensorTaskAssumption ==
  /\ QueueDepth \in Nat \ {0}
  /\ PoolMayFail \in BOOLEAN
  /\ MaxWrites \in Nat

VARIABLES
  attr,       \* the attributes the task reads
  timers,     \* which interval timers run
  dinEnabled, \* whether the digital inputs are powered
  changed,    \* input_config_changed
  sensorQ,    \* sensorTaskQueue
  lost,       \* history: a message to the task was dropped
  stage,      \* how far the task is with its start-up
  objects,    \* history: the inputs the telemetry objects were made for
  started,    \* history: the inputs when the task sent itself CLEAR
  writes      \* how often a client has written

vars == <<attr, timers, dinEnabled, changed, sensorQ, lost, stage, objects, started, writes>>

Kinds == {"power", "temperature", "analog"}

\* The attributes a broadcast can name. The interval of a kind is named after the kind.
Ids   == Kinds \cup {"type", "config", "therm", "din", "active"}
Codes == {"ATTR", "DIN_CONFIG", "READ_POWER", "TEMPERATURE", "ANALOG", "ENTER_ACTIVE",
          "ENTER_SHELF", "CLEAR"}

Attributes == [active : BOOLEAN, config : {"none", "set", "other"}, types : [Channels -> Types],
               therm : BOOLEAN, din : BOOLEAN, interval : [Kinds -> BOOLEAN]]

\* The part of the attributes that says what is connected to the inputs.
Inputs(at) == [types |-> at.types, therm |-> at.therm]

Message   == [code : Codes, ids : SUBSET Ids]
Msg(code) == [code |-> code, ids |-> {}]
Changed(ids) == [code |-> "ATTR", ids |-> ids]

Measure(kind) ==
  CASE kind = "power" -> "READ_POWER" [] kind = "temperature" -> "TEMPERATURE" [] OTHER -> "ANALOG"

HasMsg(code)  == \E i \in DOMAIN sensorQ : sensorQ[i].code = code
HasChange(id) == \E i \in DOMAIN sensorQ : sensorQ[i].code = "ATTR" /\ id \in sensorQ[i].ids

----------------------------------------------------------------------------
(* Messages                                                                *)

MutantOneTooMany(q, ms) == Len(q) + Len(ms) <= QueueDepth + 1
Fits(q, ms) == Len(q) + Len(ms) <= QueueDepth

\* What is left of the messages when some of them are dropped.
Fragments(ms) ==
  LET Places(n) == {at \in [1 .. n -> DOMAIN ms] : \A i, j \in 1 .. n : i < j => at[i] < at[j]}
  IN  UNION {{[i \in 1 .. n |-> ms[at[i]]] : at \in Places(n)} : n \in 0 .. Len(ms) - 1}

\* The messages are put in the queue one after another; those that find no buffer or no room
\* are dropped and the sender is not told.
Post(q, ms) ==
  \/ /\ Fits(q, ms)
     /\ sensorQ' = q \o ms
     /\ UNCHANGED lost
  \/ /\ PoolMayFail \/ ~Fits(q, ms)
     /\ \E some \in Fragments(ms) : Fits(q, some) /\ sensorQ' = q \o some
     /\ lost' = TRUE

Receives(code) == stage = "running" /\ sensorQ # <<>> /\ Head(sensorQ).code = code

If(condition, message) == IF condition THEN <<message>> ELSE <<>>

----------------------------------------------------------------------------
(* The interval timers                                                     *)

Enabled(at, kind) ==
  CASE kind = "power" -> TRUE
    [] kind = "temperature" -> at.therm
    [] OTHER -> at.types # AllUnused

\* StartPowerInterval, StartTemperatureInterval, StartAnalogInterval: a timer that runs is
\* left alone, but the power timer is stopped when its interval is zero.
Started(ts, at, kind) ==
  IF at.active /\ at.interval[kind] /\ Enabled(at, kind) THEN ts \cup {kind}
  ELSE IF at.active /\ kind = "power" THEN ts \ {"power"}
  ELSE ts

StartedAll(ts, at) == Started(Started(Started(ts, at, "power"), at, "temperature"), at, "analog")

----------------------------------------------------------------------------
(* Start-up                                                                *)

\* SensorConfigChange: thermistors, analog and digital inputs are disabled.
Disabled(at) == [at EXCEPT !.types = AllUnused, !.therm = FALSE, !.din = FALSE]

\* The attributes are broadcast if disabling the inputs changed them.
DisableBroadcast(at) ==
  LET ids == {id \in {"type", "therm", "din"} :
                \/ id = "type" /\ at.types # AllUnused
                \/ id = "therm" /\ at.therm
                \/ id = "din" /\ at.din}
  IN  If(ids # {}, Changed(ids))

BootAttributes(at) == IF at.config = "none" THEN Disabled(at) ELSE at

MutantNoDinConfig(at) == IF at.config = "none" THEN DisableBroadcast(at) ELSE <<>>
BootMessages(at) ==
  (IF at.config = "none" THEN DisableBroadcast(at) ELSE <<>>) \o <<Msg("DIN_CONFIG")>>

\* What objects are made for: none while there is no config_type.
ObjectInputs(at) == Inputs(BootAttributes(at))

\* BSP_Init has powered the digital inputs, SensorTask_Initialize makes the telemetry objects
\* and creates the thread; input_config_changed starts at its default, true.
Init ==
  /\ \E active \in BOOLEAN :
       attr = [active |-> active, config |-> "none", types |-> AllUnused, therm |-> FALSE,
               din |-> FALSE, interval |-> [k \in Kinds |-> TRUE]]
  /\ timers = {}
  /\ dinEnabled = TRUE
  /\ changed = TRUE
  /\ sensorQ = <<>>
  /\ lost = FALSE
  /\ stage = "created"
  /\ objects = ObjectInputs(attr)
  /\ started = objects
  /\ writes = 0

\* The same after any reset, the one the task asked for or another.
Boot ==
  /\ timers' = {}
  /\ dinEnabled' = TRUE
  /\ changed' = TRUE
  /\ sensorQ' = <<>>
  /\ lost' = FALSE
  /\ stage' = "created"
  /\ objects' = ObjectInputs(attr)
  /\ started' = objects'
  /\ UNCHANGED <<attr, writes>>

\* The thread starts: without a config_type the inputs are disabled.
LoadSensorConfiguration ==
  /\ stage = "created" /\ stage' = "loaded"
  /\ attr' = BootAttributes(attr)
  /\ Post(sensorQ, BootMessages(attr))
  /\ UNCHANGED <<timers, dinEnabled, changed, objects, started, writes>>

InitializeIntervalTimers ==
  /\ stage = "loaded" /\ stage' = "armed"
  /\ timers' = StartedAll({}, attr)
  /\ UNCHANGED <<attr, dinEnabled, changed, sensorQ, lost, objects, started, writes>>

\* The last step before the task's loop.
ClearInputConfigChangedFlag ==
  /\ stage = "armed" /\ stage' = "running"
  /\ Post(sensorQ, <<Msg("CLEAR")>>)
  /\ started' = Inputs(attr)
  /\ UNCHANGED <<attr, timers, dinEnabled, changed, objects, writes>>

----------------------------------------------------------------------------
(* The message handlers                                                    *)

MutantForgetsTherm == {"din", "type", "config"}
InputConfigIds == {"din", "therm", "type", "config"}

\* What the task sends itself on a broadcast.
Answers(ids) ==
  If("power" \in ids, Msg("READ_POWER"))
  \o If("temperature" \in ids, Msg("TEMPERATURE"))
  \o If("active" \in ids, Msg(IF attr.active THEN "ENTER_ACTIVE" ELSE "ENTER_SHELF"))
  \o (IF "config" \in ids THEN DisableBroadcast(attr) ELSE <<>>)
  \o If("din" \in ids, Msg("DIN_CONFIG"))
  \o If("analog" \in ids, Msg("ANALOG"))

\* The broadcast lists the attributes by id: config_type comes before those of the inputs it
\* disables, and the analog timer is started last.
SensorTaskAttributeChangedMsgHandler ==
  /\ Receives("ATTR")
  /\ LET ids == Head(sensorQ).ids
         at  == IF "config" \in ids THEN Disabled(attr) ELSE attr
         ts  == IF "config" \in ids THEN timers \ {"temperature", "analog"} ELSE timers
         ts1 == IF "therm" \in ids THEN Started(ts, at, "temperature") ELSE ts
     IN  /\ attr' = at
         /\ timers' = IF "type" \in ids THEN Started(ts1, at, "analog") ELSE ts1
         /\ changed' = (changed \/ ids \cap InputConfigIds # {})
         /\ Post(Tail(sensorQ), Answers(ids))
  /\ UNCHANGED <<dinEnabled, stage, objects, started, writes>>

SensorTaskDigitalInConfigMsgHandler ==
  /\ Receives("DIN_CONFIG")
  /\ sensorQ' = Tail(sensorQ)
  /\ dinEnabled' = attr.din
  /\ UNCHANGED <<attr, timers, changed, lost, stage, objects, started, writes>>

ReadPowerMsgHandler ==
  /\ Receives("READ_POWER")
  /\ sensorQ' = Tail(sensorQ)
  /\ timers' = Started(timers, attr, "power")
  /\ UNCHANGED <<attr, dinEnabled, changed, lost, stage, objects, started, writes>>

MeasureTemperatureMsgHandler ==
  /\ Receives("TEMPERATURE")
  /\ sensorQ' = Tail(sensorQ)
  /\ timers' = Started(timers, attr, "temperature")
  /\ UNCHANGED <<attr, dinEnabled, changed, lost, stage, objects, started, writes>>

MutantOneShot(ts, at) == ts
AfterAnalogRead(ts, at) == Started(ts, at, "analog")

AnalogReadMsgHandler ==
  /\ Receives("ANALOG")
  /\ sensorQ' = Tail(sensorQ)
  /\ timers' = AfterAnalogRead(timers, attr)
  /\ UNCHANGED <<attr, dinEnabled, changed, lost, stage, objects, started, writes>>

EnterActiveModeMsgHandler ==
  /\ Receives("ENTER_ACTIVE")
  /\ sensorQ' = Tail(sensorQ)
  /\ timers' = StartedAll(timers, attr)
  /\ UNCHANGED <<attr, dinEnabled, changed, lost, stage, objects, started, writes>>

\* It asks the control task for a reset and goes on until it comes.
EnterShelfModeMsgHandler ==
  /\ Receives("ENTER_SHELF")
  /\ sensorQ' = Tail(sensorQ)
  /\ UNCHANGED <<attr, timers, dinEnabled, changed, lost, stage, objects, started, writes>>

ClearInputConfigChangedMsgHandler ==
  /\ Receives("CLEAR")
  /\ sensorQ' = Tail(sensorQ)
  /\ changed' = FALSE
  /\ UNCHANGED <<attr, timers, dinEnabled, lost, stage, objects, started, writes>>

\* powerTimerCallbackIsr, temperatureReadTimerCallbackIsr, analogReadTimerCallbackIsr.
TimerCallbackIsr(kind) ==
  /\ kind \in timers
  /\ timers' = timers \ {kind}
  /\ Post(sensorQ, <<Msg(Measure(kind))>>)
  /\ UNCHANGED <<attr, dinEnabled, changed, stage, objects, started, writes>>

----------------------------------------------------------------------------
(* Clients                                                                 *)

\* A write that changes something is broadcast.
Write(at, id) ==
  /\ writes < MaxWrites /\ writes' = writes + 1
  /\ at # attr /\ attr' = at
  /\ Post(sensorQ, <<Changed({id})>>)
  /\ UNCHANGED <<timers, dinEnabled, changed, stage, objects, started>>

WriteAnalogType == \E c \in Channels, type \in Types :
  Write([attr EXCEPT !.types = av_aic(attr.types, c, type)], "type")

WriteConfigType == \E config \in {"none", "set", "other"} :
  Write([attr EXCEPT !.config = config], "config")

WriteThermistorConfig == Write([attr EXCEPT !.therm = ~attr.therm], "therm")

WriteDigitalInputConfig == Write([attr EXCEPT !.din = ~attr.din], "din")

WriteInterval == \E kind \in Kinds :
  Write([attr EXCEPT !.interval[kind] = ~attr.interval[kind]], kind)

WriteActiveMode == Write([attr EXCEPT !.active = ~attr.active], "active")

----------------------------------------------------------------------------

Next ==
  \/ LoadSensorConfiguration
  \/ InitializeIntervalTimers
  \/ ClearInputConfigChangedFlag
  \/ SensorTaskAttributeChangedMsgHandler
  \/ SensorTaskDigitalInConfigMsgHandler
  \/ ReadPowerMsgHandler
  \/ MeasureTemperatureMsgHandler
  \/ AnalogReadMsgHandler
  \/ EnterActiveModeMsgHandler
  \/ EnterShelfModeMsgHandler
  \/ ClearInputConfigChangedMsgHandler
  \/ \E kind \in Kinds : TimerCallbackIsr(kind)
  \/ WriteAnalogType
  \/ WriteConfigType
  \/ WriteThermistorConfig
  \/ WriteDigitalInputConfig
  \/ WriteInterval
  \/ WriteActiveMode
  \/ Boot

Spec == Init /\ [][Next]_vars

----------------------------------------------------------------------------
(* Properties                                                              *)

\* The state has the types of the declarations, and the queue its depth.
TypeOK ==
  /\ attr \in Attributes
  /\ timers \in SUBSET Kinds
  /\ dinEnabled \in BOOLEAN
  /\ changed \in BOOLEAN
  /\ sensorQ \in Seq(Message) /\ Len(sensorQ) <= QueueDepth
  /\ lost \in BOOLEAN
  /\ stage \in {"created", "loaded", "armed", "running"}
  /\ {objects, started} \subseteq [types : [Channels -> Types], therm : BOOLEAN]
  /\ writes \in 0 .. MaxWrites

\* Whatever clients write and whenever the task disables the inputs, the inputs never need
\* more supplies than the board has.
SensorsRationed ==
  LET ultrasonic == InputsOf(attr.types, "ultrasonic")
      pressure   == InputsOf(attr.types, "pressure")
  IN  /\ \A c, d \in ultrasonic : c = d
      /\ Cardinality(pressure) <= 2
      /\ ultrasonic # {} => \A c, d \in pressure : c = d

\* The attributes whose broadcast ends in a start of the timer.
Starters(kind) ==
  {kind, "active"} \cup
  (CASE kind = "power" -> {} [] kind = "temperature" -> {"therm"} [] OTHER -> {"type"})

\* As long as no message is dropped, and once the timers are initialised, an active device
\* that should read something periodically has the timer running or a message on the way that
\* starts it, through every reconfiguration, expiry and change of the interval.
MeasurementArmed ==
  ~lost /\ stage \in {"armed", "running"} /\ attr.active => \A kind \in Kinds :
    attr.interval[kind] /\ Enabled(attr, kind) =>
      \/ kind \in timers
      \/ HasMsg(Measure(kind))
      \/ HasMsg("ENTER_ACTIVE")
      \/ \E id \in Starters(kind) : HasChange(id)

\* A broadcast that sets input_config_changed is in the queue, and no message behind it
\* clears it again.
ChangeOnTheWay ==
  \E i \in DOMAIN sensorQ :
    /\ sensorQ[i].code = "ATTR" /\ sensorQ[i].ids \cap InputConfigIds # {}
    /\ \A j \in DOMAIN sensorQ : sensorQ[j].code = "CLEAR" => j < i

\* As long as no message is dropped, inputs that differ from those at the end of the start-up
\* have input_config_changed set for good, or have the broadcast that will set it in the queue.
ConfigChangeNoticed ==
  ~lost /\ stage = "running" /\ Inputs(attr) # started =>
    (changed /\ ~HasMsg("CLEAR")) \/ ChangeOnTheWay

\* As long as no message is dropped, and once the start-up has asked for it, the pins follow
\* digital_input_N_config.
DinFollowsConfig ==
  ~lost /\ stage # "created" /\ dinEnabled # attr.din =>
    HasMsg("DIN_CONFIG") \/ HasChange("din")

----------------------------------------------------------------------------
(* What the comments of the source say of it                               *)

\* "Don't update telemetry objects if the input configuration has changed" (SensorTask.c): once
\* the flag is clear and no change is on its way, the inputs are those the objects were made for.
TelemetryMatchesInputs ==
  ~lost /\ ~changed /\ ~ChangeOnTheWay => Inputs(attr) = objects
=============================================================================
