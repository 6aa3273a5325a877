-------------------------------- MODULE Adc --------------------------------
(***************************************************************************)
(* The measurements of src/AdcBt6.c.  One converter serves every input: a  *)
(* port expander drives the mux that selects the input and the AIN_SEL     *)
(* lines that load the current inputs, and supplies are switched on for    *)
(* the time of a measurement.  The sensor task measures, and so does any   *)
(* thread in which a client reads the attribute of an input.               *)
(*                                                                         *)
(* LOCKING_ID_adc covers AdcBt6_Measure, but neither                       *)
(* AdcBt6_ConfigAinSelects, which MeasureAnalogInput calls before it, nor  *)
(* the supplies of AdcBt6_CalibrateThermistor; it covers                   *)
(* AdcBt6_read_power_volts, which needs neither mux nor supply.  A step is *)
(* one access to what the threads share: the byte adcObj.expander is       *)
(* loaded and stored, for its fields are bit-fields.  A definition whose   *)
(* name starts with Mutant is a plausible slip in the one below it, used   *)
(* by no specification.                                                    *)
(***************************************************************************)
EXTENDS FiniteSets, Integers

CONSTANTS Threads,       \* the threads that measure
          Calibrators,   \* those of them that may calibrate the thermistors
          Inputs,        \* how many inputs the mux selects from
          I2CMayFail,    \* whether i2c_write can return an error
          AdcMayFail,    \* whether adc_channel_setup can
          MaxJobs,       \* bound: how many measurements and calibrations are started
          MaxWrites      \* bound: how often clients change the type of an input

Nobody == "nobody"

ASSUME AdcAssumption ==
  /\ IsFiniteSet(Threads)
  /\ Nobody \notin Threads
  /\ Calibrators \subseteq Threads
  /\ Inputs \in Nat /\ Inputs >= 2
  /\ I2CMayFail \in BOOLEAN
  /\ AdcMayFail \in BOOLEAN
  /\ MaxJobs \in Nat
  /\ MaxWrites \in Nat

VARIABLES
  types,     \* the analog_input_N_type attributes
  expander,  \* adcObj.expander: what the program takes the outputs to be
  outputs,   \* the outputs of the port expander
  supply,    \* what ANALOG_ENABLE and THERM_ENABLE supply
  five,      \* adcObj.fiveEnabled, and the pin
  bPlus,     \* adcObj.bPlusEnabled, and the pin
  channel,   \* pcfg->channel_id: the channel that was set up last
  ready,     \* the channels the converter has been set up for
  holder,    \* who holds LOCKING_ID_adc
  thread,    \* where each thread is
  fresh,     \* history: no write to the expander failed, or met another thread between its
             \* accesses to the expander
  steady,    \* history: no adc_channel_setup has failed
  calm,      \* history: no calibration has switched the supply while another thread measured
  jobs,      \* how many measurements and calibrations have been started
  writes     \* how often the type of an input has been changed

converter == <<channel, ready, steady>>

vars == <<types, expander, outputs, supply, five, bPlus, converter, holder, thread, fresh, calm,
          jobs, writes>>

MuxInputs == 0 .. Inputs - 1

\* The types that differ in load or supply, the thermistors, and the voltage of the battery.
Types            == {"voltage", "current", "pressure"}
MeasurementTypes == Types \cup {"thermistor", "power"}

\* GetChannel: the channel of the converter a measurement samples.
Channels      == {"analog", "thermistor", "power"}
Channel(type) == IF type \in Types THEN "analog" ELSE type

Expander == [sel : SUBSET MuxInputs, mux : MuxInputs]

\* Where a thread is: the step it takes next, what it measures, the loop index, and the byte
\* it has loaded. A calibration measures with its own supply (ADC_PWR_SEQ_BYPASS).
Steps == {"idle", "clear", "select", "set", "command", "i2c", "valid", "lock", "power", "mux",
          "muxset", "muxcommand", "muxi2c", "five", "bplus", "channel", "setup", "sample",
          "poweroff", "bplusoff", "fiveoff", "unlock", "calpower", "caloff"}

Thread == [pc : Steps, input : MuxInputs, type : MeasurementTypes, bypass : BOOLEAN,
           ok : BOOLEAN, i : 0 .. Inputs, byte : Expander]

Idle == [pc |-> "idle", input |-> 0, type |-> "voltage", bypass |-> FALSE, ok |-> TRUE, i |-> 0,
         byte |-> [sel |-> {}, mux |-> 0]]

CurrentInputs == {i \in MuxInputs : types[i] = "current"}

Init ==
  /\ types \in [MuxInputs -> Types]
  /\ expander = [sel |-> CurrentInputs, mux |-> 0]
  /\ outputs = expander
  /\ supply = "none"
  /\ five = FALSE
  /\ bPlus = FALSE
  /\ channel = "none"
  /\ ready = {}
  /\ steady = TRUE
  /\ holder = Nobody
  /\ thread = [t \in Threads |-> Idle]
  /\ fresh = TRUE
  /\ calm = TRUE
  /\ jobs = 0
  /\ writes = 0

----------------------------------------------------------------------------
(* Steps of a thread                                                       *)

At(t, pc)   == thread[t].pc = pc
Goto(t, pc) == thread' = [thread EXCEPT ![t].pc = pc]

\* Between its first and its last access to the expander.
UsesExpander(t) ==
  /\ thread[t].type # "power"
  /\ thread[t].pc \in {"clear", "select", "set", "command", "i2c", "mux", "muxset", "muxcommand",
                       "muxi2c", "five", "bplus", "channel", "setup", "sample"}

\* No other thread is.
Alone(t) == \A u \in Threads \ {t} : ~UsesExpander(u)

Load(t, pc)    == thread' = [thread EXCEPT ![t].pc = pc, ![t].byte = expander]
Store(t, byte) == expander' = byte

\* i2c_write of the byte: it succeeds, or fails and the outputs stay.
I2CWrite(t, done, failed) ==
  \/ /\ outputs' = thread[t].byte
     /\ thread' = [thread EXCEPT ![t].pc = done, ![t].byte = Idle.byte]
     /\ UNCHANGED fresh
  \/ /\ I2CMayFail
     /\ thread' = [thread EXCEPT ![t] = failed]
     /\ fresh' = FALSE
     /\ UNCHANGED outputs

----------------------------------------------------------------------------
(* MeasureAnalogInput, and AdcBt6_ConfigAinSelects                         *)

MeasureAnalogInput(t) ==
  /\ At(t, "idle") /\ jobs < MaxJobs /\ jobs' = jobs + 1
  /\ \E input \in MuxInputs :
       thread' = [thread EXCEPT ![t] = [Idle EXCEPT !.pc = "clear", !.input = input,
                                                    !.byte = expander]]
  /\ fresh' = (fresh /\ Alone(t))
  /\ UNCHANGED <<types, expander, outputs, supply, five, bPlus, converter, holder, calm, writes>>

ClearAinSel(t) ==
  /\ At(t, "clear")
  /\ Store(t, [thread[t].byte EXCEPT !.sel = {}])
  /\ thread' = [thread EXCEPT ![t].pc = "select", ![t].i = 0]
  /\ UNCHANGED <<types, outputs, supply, five, bPlus, converter, holder, fresh, calm, jobs, writes>>

\* One turn of the loop over the inputs: its type is read, and the byte loaded if it is current.
SelectAin(t) ==
  /\ At(t, "select")
  /\ LET i == thread[t].i
     IN  IF i = Inputs
         THEN Goto(t, "command")
         ELSE IF types[i] = "current"
         THEN Load(t, "set")
         ELSE thread' = [thread EXCEPT ![t].i = i + 1]
  /\ UNCHANGED <<types, expander, outputs, supply, five, bPlus, converter, holder, fresh, calm,
                 jobs, writes>>

MutantBit(i) == i + 1
AinSelBit(i) == i

SetAinSel(t) ==
  /\ At(t, "set")
  /\ Store(t, [thread[t].byte EXCEPT !.sel = @ \cup {AinSelBit(thread[t].i)}])
  /\ thread' = [thread EXCEPT ![t].pc = "select", ![t].i = @ + 1]
  /\ UNCHANGED <<types, outputs, supply, five, bPlus, converter, holder, fresh, calm, jobs, writes>>

AinSelCommand(t) ==
  /\ At(t, "command")
  /\ Load(t, "i2c")
  /\ UNCHANGED <<types, expander, outputs, supply, five, bPlus, converter, holder, fresh, calm,
                 jobs, writes>>

WriteAinSel(t) ==
  /\ At(t, "i2c")
  /\ I2CWrite(t, "valid", Idle)
  /\ UNCHANGED <<types, expander, supply, five, bPlus, converter, holder, calm, jobs, writes>>

\* The type of the input is read, and a current input must be selected.
ValidInput(t) ==
  /\ At(t, "valid")
  /\ LET type == types[thread[t].input]
         step == [thread[t] EXCEPT !.pc = "lock", !.type = type, !.i = 0]
     IN  thread' = [thread EXCEPT ![t] =
                      IF type = "current" /\ @.input \notin expander.sel THEN Idle ELSE step]
  /\ UNCHANGED <<types, expander, outputs, supply, five, bPlus, converter, holder, fresh, calm,
                 jobs, writes>>

----------------------------------------------------------------------------
(* MeasureThermistor and AdcBt6_CalibrateThermistor                        *)

MeasureThermistor(t) ==
  /\ At(t, "idle") /\ jobs < MaxJobs /\ jobs' = jobs + 1
  /\ \E input \in MuxInputs :
       thread' = [thread EXCEPT ![t] = [Idle EXCEPT !.pc = "lock", !.input = input,
                                                    !.type = "thermistor"]]
  /\ UNCHANGED <<types, expander, outputs, supply, five, bPlus, converter, holder, fresh, calm,
                 writes>>

CalibrateThermistor(t) ==
  /\ t \in Calibrators
  /\ At(t, "idle") /\ jobs < MaxJobs /\ jobs' = jobs + 1
  /\ thread' = [thread EXCEPT ![t] = [Idle EXCEPT !.pc = "calpower", !.bypass = TRUE,
                                                  !.type = "thermistor"]]
  /\ UNCHANGED <<types, expander, outputs, supply, five, bPlus, converter, holder, fresh, calm,
                 writes>>

\* The supply is switched outside the lock.
Disturbs == calm' = (calm /\ holder = Nobody)

CalibrationPower(t) ==
  /\ At(t, "calpower")
  /\ supply' = "thermistor"
  /\ Disturbs
  /\ Goto(t, "lock")
  /\ UNCHANGED <<types, expander, outputs, five, bPlus, converter, holder, fresh, jobs, writes>>

CalibrationDisablePower(t) ==
  /\ At(t, "caloff")
  /\ supply' = "none"
  /\ Disturbs
  /\ thread' = [thread EXCEPT ![t] = Idle]
  /\ UNCHANGED <<types, expander, outputs, five, bPlus, converter, holder, fresh, jobs, writes>>

----------------------------------------------------------------------------
(* AdcBt6_Measure                                                          *)

\* AdcBt6_read_power_volts.
ReadPowerVolts(t) ==
  /\ At(t, "idle") /\ jobs < MaxJobs /\ jobs' = jobs + 1
  /\ thread' = [thread EXCEPT ![t] = [Idle EXCEPT !.pc = "lock", !.type = "power"]]
  /\ UNCHANGED <<types, expander, outputs, supply, five, bPlus, converter, holder, fresh, calm,
                 writes>>

MutantNoLock == TRUE
LockFree == holder = Nobody

\* locking_take, K_FOREVER.
TakeLock(t) ==
  /\ At(t, "lock") /\ LockFree
  /\ holder' = t
  /\ Goto(t, IF thread[t].type = "power" THEN "channel" ELSE "power")
  /\ UNCHANGED <<types, expander, outputs, supply, five, bPlus, converter, fresh, calm, jobs,
                 writes>>

Supply(type) == IF type = "thermistor" THEN "thermistor" ELSE "analog"

\* AdcBt6_ConfigPower, unless the measurement is to bypass it.
ConfigPower(t) ==
  /\ At(t, "power")
  /\ supply' = IF thread[t].bypass THEN supply ELSE Supply(thread[t].type)
  /\ fresh' = (fresh /\ Alone(t))
  /\ Goto(t, "mux")
  /\ UNCHANGED <<types, expander, outputs, five, bPlus, converter, holder, calm, jobs, writes>>

MutantDefaultInput(input) == input # 0 /\ expander.mux # input
SwitchNeeded(input) == expander.mux # input

\* ConfigMux: the outputs are written only if the program takes them to select another input.
ConfigMux(t) ==
  /\ At(t, "mux")
  /\ IF SwitchNeeded(thread[t].input) THEN Load(t, "muxset") ELSE Goto(t, "five")
  /\ UNCHANGED <<types, expander, outputs, supply, five, bPlus, converter, holder, fresh, calm,
                 jobs, writes>>

SetMux(t) ==
  /\ At(t, "muxset")
  /\ Store(t, [thread[t].byte EXCEPT !.mux = thread[t].input])
  /\ Goto(t, "muxcommand")
  /\ UNCHANGED <<types, outputs, supply, five, bPlus, converter, holder, fresh, calm, jobs, writes>>

MuxCommand(t) ==
  /\ At(t, "muxcommand")
  /\ Load(t, "muxi2c")
  /\ UNCHANGED <<types, expander, outputs, supply, five, bPlus, converter, holder, fresh, calm,
                 jobs, writes>>

MutantEarlyReturn == "idle"
AfterMuxFailure == "five"

WriteMux(t) ==
  /\ At(t, "muxi2c")
  /\ I2CWrite(t, "five", [thread[t] EXCEPT !.pc = AfterMuxFailure, !.ok = FALSE,
                                           !.byte = Idle.byte])
  /\ UNCHANGED <<types, expander, supply, five, bPlus, converter, holder, calm, jobs, writes>>

\* UltrasonicOrPressurePowerAndDelayHandler: AdcBt6_FiveVoltEnable refuses while b+ is on.
FiveVoltEnable(t) ==
  /\ At(t, "five")
  /\ five' = (five \/ (thread[t].type = "pressure" /\ ~bPlus))
  /\ Goto(t, "bplus")
  /\ UNCHANGED <<types, expander, outputs, supply, bPlus, converter, holder, fresh, calm, jobs,
                 writes>>

BplusEnable(t) ==
  /\ At(t, "bplus")
  /\ bPlus' = (bPlus \/ thread[t].type = "pressure")
  /\ Goto(t, IF thread[t].ok THEN "channel" ELSE "poweroff")
  /\ UNCHANGED <<types, expander, outputs, supply, five, converter, holder, fresh, calm, jobs,
                 writes>>

AfterSample(t) == IF thread[t].type = "power" THEN "unlock" ELSE "poweroff"

\* ConfigureChannel: the converter is set up only if another channel was set up last, and the
\* channel is remembered before it is.
ConfigureChannel(t) ==
  /\ At(t, "channel")
  /\ LET next == Channel(thread[t].type)
     IN  IF channel = next
         THEN Goto(t, "sample") /\ UNCHANGED channel
         ELSE Goto(t, "setup") /\ channel' = next
  /\ UNCHANGED <<types, expander, outputs, supply, five, bPlus, ready, steady, holder, fresh, calm,
                 jobs, writes>>

\* adc_channel_setup of what pcfg holds; nothing is sampled if it fails.
SetupChannel(t) ==
  /\ At(t, "setup")
  /\ \/ /\ ready' = ready \cup {channel}
        /\ Goto(t, "sample")
        /\ UNCHANGED steady
     \/ /\ AdcMayFail
        /\ steady' = FALSE
        /\ thread' = [thread EXCEPT ![t].pc = AfterSample(t), ![t].ok = FALSE]
        /\ UNCHANGED ready
  /\ UNCHANGED <<types, expander, outputs, supply, five, bPlus, channel, holder, fresh, calm, jobs,
                 writes>>

SampleChannel(t) ==
  /\ At(t, "sample")
  /\ Goto(t, AfterSample(t))
  /\ UNCHANGED <<types, expander, outputs, supply, five, bPlus, converter, holder, fresh, calm,
                 jobs, writes>>

MutantFiveFirst == <<"fiveoff", "bplusoff">>
DisableOrder == <<"bplusoff", "fiveoff">>

\* AdcBt6_DisablePower, unless bypassed.
DisablePower(t) ==
  /\ At(t, "poweroff")
  /\ supply' = IF thread[t].bypass THEN supply ELSE "none"
  /\ Goto(t, DisableOrder[1])
  /\ UNCHANGED <<types, expander, outputs, five, bPlus, converter, holder, fresh, calm, jobs,
                 writes>>

AfterDisable(t) ==
  Goto(t, IF DisableOrder[1] = thread[t].pc THEN DisableOrder[2] ELSE "unlock")

\* UltrasonicOrPressureDisablePower: AdcBt6_BplusDisable refuses while 5V is off, and
\* AdcBt6_FiveVoltDisable while b+ is on.
BplusDisable(t) ==
  /\ At(t, "bplusoff")
  /\ bPlus' = (bPlus /\ ~(thread[t].type = "pressure" /\ five))
  /\ AfterDisable(t)
  /\ UNCHANGED <<types, expander, outputs, supply, five, converter, holder, fresh, calm, jobs,
                 writes>>

FiveVoltDisable(t) ==
  /\ At(t, "fiveoff")
  /\ five' = (five /\ ~(thread[t].type = "pressure" /\ ~bPlus))
  /\ AfterDisable(t)
  /\ UNCHANGED <<types, expander, outputs, supply, bPlus, converter, holder, fresh, calm, jobs,
                 writes>>

\* locking_give. A calibration goes on with the second thermistor, unless the first failed.
GiveLock(t) ==
  /\ At(t, "unlock")
  /\ holder' = Nobody
  /\ thread' = [thread EXCEPT ![t] =
       IF ~@.bypass THEN Idle
       ELSE IF @.ok /\ @.input = 0 THEN [@ EXCEPT !.pc = "lock", !.input = 1]
       ELSE [@ EXCEPT !.pc = "caloff"]]
  /\ UNCHANGED <<types, expander, outputs, supply, five, bPlus, converter, fresh, calm, jobs,
                 writes>>

----------------------------------------------------------------------------

\* A client writes analog_input_N_type.
WriteType ==
  /\ writes < MaxWrites /\ writes' = writes + 1
  /\ \E i \in MuxInputs, type \in Types :
       type # types[i] /\ types' = [types EXCEPT ![i] = type]
  /\ UNCHANGED <<expander, outputs, supply, five, bPlus, converter, holder, thread, fresh, calm,
                 jobs>>

\* What a thread does once it has started.
Continue(t) ==
  \/ ClearAinSel(t) \/ SelectAin(t) \/ SetAinSel(t) \/ AinSelCommand(t) \/ WriteAinSel(t)
  \/ ValidInput(t)
  \/ CalibrationPower(t) \/ CalibrationDisablePower(t)
  \/ TakeLock(t) \/ ConfigPower(t)
  \/ ConfigMux(t) \/ SetMux(t) \/ MuxCommand(t) \/ WriteMux(t)
  \/ FiveVoltEnable(t) \/ BplusEnable(t)
  \/ ConfigureChannel(t) \/ SetupChannel(t) \/ SampleChannel(t)
  \/ DisablePower(t) \/ BplusDisable(t) \/ FiveVoltDisable(t) \/ GiveLock(t)

Next ==
  \/ \E t \in Threads :
       MeasureAnalogInput(t) \/ MeasureThermistor(t) \/ CalibrateThermistor(t) \/ ReadPowerVolts(t)
  \/ \E t \in Threads : Continue(t)
  \/ WriteType

Spec == Init /\ [][Next]_vars

\* A thread that has something to do is scheduled, and a mutex given is taken by one that waits.
FairSpec == Spec /\ \A t \in Threads : WF_vars(Continue(t))

----------------------------------------------------------------------------
(* Properties                                                              *)

\* The state has the types of the declarations.
TypeOK ==
  /\ types \in [MuxInputs -> Types]
  /\ expander \in Expander
  /\ outputs \in Expander
  /\ supply \in {"none", "analog", "thermistor"}
  /\ five \in BOOLEAN
  /\ bPlus \in BOOLEAN
  /\ channel \in Channels \cup {"none"}
  /\ ready \subseteq Channels
  /\ steady \in BOOLEAN
  /\ holder \in Threads \cup {Nobody}
  /\ thread \in [Threads -> Thread]
  /\ fresh \in BOOLEAN
  /\ calm \in BOOLEAN
  /\ jobs \in 0 .. MaxJobs
  /\ writes \in 0 .. MaxWrites

\* A measurement that has its own power sequence samples with its supply on, whatever the other
\* threads measure meanwhile, as long as no calibration has switched the supply under the lock
\* of another thread.
SampleSupplied ==
  \A t \in Threads : At(t, "sample") /\ ~thread[t].bypass /\ thread[t].type # "power" =>
  /\ calm => supply = Supply(thread[t].type)
  /\ thread[t].type = "pressure" => five /\ bPlus

\* Whatever fails on the way, a measurement leaves nothing switched on, nor does a calibration
\* that has ended, and b+ is never on without 5V.
SuppliesOff ==
  /\ bPlus => five
  /\ holder = Nobody => ~five /\ ~bPlus
  /\ holder = Nobody /\ (\A t \in Threads : ~thread[t].bypass) => supply = "none"

\* As long as no write has failed and no two threads have met between their accesses to the
\* expander, what is sampled is the input asked for: skipping the write when the mux is taken
\* to be set already is right.
SampleOfInput ==
  fresh => \A t \in Threads :
    At(t, "sample") /\ thread[t].type # "power" => outputs.mux = thread[t].input

\* As long as no adc_channel_setup has failed, what is sampled is a channel the converter has been
\* set up for, with the gain and reference of that channel: skipping the setup of the channel that
\* was set up last is right, whichever threads measure in between.
ChannelSetUp ==
  steady => \A t \in Threads : At(t, "sample") => Channel(thread[t].type) \in ready

\* Every measurement ends, and gives back the lock, whatever fails on the way.
MeasurementEnds == \A t \in Threads : ~At(t, "idle") ~> At(t, "idle")

----------------------------------------------------------------------------
(* What the comments of the source say of it                               *)

\* "The AINx_SEL lines need to be maintained at all times" (AdcBt6.c, AdcBt6_ConfigAinSelects):
\* no write to the expander takes the load from an input that measures current.
AinSelMaintained == [][\A i \in CurrentInputs : i \in outputs.sel => i \in outputs'.sel]_vars
============================================================================
