----------------------------- MODULE Adc_proofs -----------------------------
(***************************************************************************)
(* Theorems about Adc.tla for any threads, any number of inputs, any bound *)
(* on the measurements, and a bus and a converter that fail or not.        *)
(***************************************************************************)
EXTENDS Adc, TLAPS

----------------------------------------------------------------------------
(* The inductive invariant                                                 *)

\* Where a thread is inside LOCKING_ID_adc, and at the converter.
Locked == {"power", "mux", "muxset", "muxcommand", "muxi2c", "five", "bplus", "channel", "setup",
           "sample", "poweroff", "bplusoff", "fiveoff", "unlock"}

\* What a thread is doing tells what it measures: only a thermistor is measured by a calibration,
\* and the battery voltage needs no more than the converter.
PathInv == \A t \in Threads :
  /\ thread[t].bypass => thread[t].type = "thermistor"
  /\ thread[t].pc = "idle" => ~thread[t].bypass
  /\ thread[t].pc \in {"calpower", "caloff"} => thread[t].bypass
  /\ thread[t].pc \in {"clear", "select", "set", "command", "i2c", "valid"} =>
       thread[t].type = "voltage" /\ ~thread[t].bypass
  /\ thread[t].type = "power" =>
       thread[t].pc \in {"lock", "channel", "setup", "sample", "unlock"}
  /\ thread[t].pc = "set" => thread[t].i < Inputs
  /\ thread[t].pc = "setup" => channel # "none"

\* How a thread starts.
Start(t) ==
  MeasureAnalogInput(t) \/ MeasureThermistor(t) \/ CalibrateThermistor(t) \/ ReadPowerVolts(t)

\* Mutual exclusion: a thread is between the two ends of the lock exactly while it holds it.
LockInv ==
  /\ \A t \in Threads : thread[t].pc \in Locked => holder = t
  /\ holder # Nobody => holder \in Threads /\ thread[holder].pc \in Locked

\* Where 5V and b+ are on: for a pressure measurement, between the steps that switch them.
FiveInv ==
  /\ holder = Nobody => ~five /\ ~bPlus
  /\ \A t \in Threads :
       /\ thread[t].pc \in {"power", "mux", "muxset", "muxcommand", "muxi2c", "five", "unlock"}
            => ~five /\ ~bPlus
       /\ thread[t].pc \in {"bplus", "fiveoff"} => ~bPlus
       /\ thread[t].pc \in {"channel", "setup", "sample", "poweroff", "bplusoff"} =>
            (bPlus <=> thread[t].type = "pressure")
       /\ thread[t].pc \in {"bplus", "channel", "setup", "sample", "poweroff", "bplusoff",
                             "fiveoff"}
            => (five <=> thread[t].type = "pressure")

\* A measurement that has its supply on.
Powering(t) ==
  /\ ~thread[t].bypass /\ thread[t].type # "power"
  /\ thread[t].pc \in {"mux", "muxset", "muxcommand", "muxi2c", "five", "bplus", "channel", "setup",
                       "sample", "poweroff"}

\* It is the right one unless a calibration came in between, and without one and without a
\* calibration nothing is supplied.
SupplyInv ==
  /\ calm => \A t \in Threads : Powering(t) => supply = Supply(thread[t].type)
  /\ (\A t \in Threads : ~thread[t].bypass /\ ~Powering(t)) => supply = "none"

\* The channel that is remembered was set up, unless its setup is just to come.
ConverterInv ==
  /\ \A t \in Threads : thread[t].pc = "setup" => channel = Channel(thread[t].type)
  /\ steady /\ channel # "none" /\ (\A t \in Threads : thread[t].pc # "setup") => channel \in ready
  /\ steady => \A t \in Threads : thread[t].pc = "sample" => Channel(thread[t].type) \in ready

\* Without failures and meetings one thread at a time uses the expander, and the outputs follow
\* what the program takes them to be but for the two steps between.
ExpanderInv == fresh =>
  /\ \A t, u \in Threads : UsesExpander(t) /\ UsesExpander(u) => t = u
  /\ (\A t \in Threads : thread[t].pc \notin {"muxcommand", "muxi2c"}) => outputs.mux = expander.mux
  /\ \A t \in Threads :
       /\ thread[t].pc \in {"clear", "set", "i2c"} => thread[t].byte.mux = expander.mux
       /\ thread[t].pc \in {"muxcommand", "muxi2c"} => expander.mux = thread[t].input
       /\ thread[t].pc = "muxi2c" => thread[t].byte.mux = thread[t].input
       /\ /\ thread[t].pc \in {"five", "bplus", "channel", "setup", "sample"}
          /\ thread[t].type # "power"
          => outputs.mux = thread[t].input

----------------------------------------------------------------------------
(* One step of a thread                                                    *)

\* Whatever a thread does, it stays a thread.
LEMMA ThreadType ==
  ASSUME TypeOK, PathInv, NEW t \in Threads, Continue(t) \/ Start(t)
  PROVE  thread' \in [Threads -> Thread]
<1>1. thread[t] \in Thread /\ expander \in Expander /\ types \in [MuxInputs -> Types]
  BY DEF TypeOK
<1>2. {0, 1} \subseteq MuxInputs /\ 0 \in 0 .. Inputs
  BY AdcAssumption DEF MuxInputs
<1>3. Idle \in Thread /\ Idle.byte \in Expander
  BY <1>2 DEF Idle, Thread, Expander, Steps, MeasurementTypes, Types
<1>. USE <1>1, <1>2, <1>3
<1>4. CASE MeasureAnalogInput(t)
  <2>1. \A input \in MuxInputs :
          [Idle EXCEPT !.pc = "clear", !.input = input, !.byte = expander] \in Thread
    BY DEF Thread, Steps
  <2>. QED  BY <1>4, <2>1 DEF MeasureAnalogInput, TypeOK
<1>5. CASE ClearAinSel(t)
  <2>1. [thread[t] EXCEPT !.pc = "select", !.i = 0] \in Thread
    BY DEF Thread, Steps
  <2>. QED  BY <1>5, <2>1 DEF ClearAinSel, TypeOK
<1>6. CASE SelectAin(t)
  <2>1. [thread[t] EXCEPT !.pc = "command"] \in Thread
    BY DEF Thread, Steps
  <2>2. [thread[t] EXCEPT !.pc = "set", !.byte = expander] \in Thread
    BY DEF Thread, Steps
  <2>3. thread[t].i # Inputs => [thread[t] EXCEPT !.i = thread[t].i + 1] \in Thread
    <3>1. thread[t].i # Inputs => thread[t].i + 1 \in 0 .. Inputs
      BY AdcAssumption DEF Thread
    <3>. QED  BY <3>1 DEF Thread
  <2>. QED  BY <1>6, <2>1, <2>2, <2>3 DEF SelectAin, Goto, Load, TypeOK
<1>7. CASE SetAinSel(t)
  <2>1. [thread[t] EXCEPT !.pc = "select", !.i = thread[t].i + 1] \in Thread
    <3>1. thread[t].i + 1 \in 0 .. Inputs
      BY <1>7, AdcAssumption DEF Thread, PathInv, SetAinSel, At
    <3>. QED  BY <3>1 DEF Thread, Steps
  <2>. QED  BY <1>7, <2>1 DEF SetAinSel, TypeOK
<1>8. CASE AinSelCommand(t)
  <2>1. [thread[t] EXCEPT !.pc = "i2c", !.byte = expander] \in Thread
    BY DEF Thread, Steps
  <2>. QED  BY <1>8, <2>1 DEF AinSelCommand, Load, TypeOK
<1>9. CASE WriteAinSel(t)
  <2>1. [thread[t] EXCEPT !.pc = "valid", !.byte = Idle.byte] \in Thread
    BY DEF Thread, Steps
  <2>. QED  BY <1>9, <2>1 DEF WriteAinSel, I2CWrite, TypeOK
<1>10. CASE ValidInput(t)
  <2>1. [thread[t] EXCEPT !.pc = "lock", !.type = types[thread[t].input], !.i = 0] \in Thread
    <3>1. types[thread[t].input] \in MeasurementTypes
      BY DEF Thread, MeasurementTypes
    <3>. QED  BY <3>1 DEF Thread, Steps
  <2>. QED  BY <1>10, <2>1 DEF ValidInput, TypeOK
<1>11. CASE MeasureThermistor(t)
  <2>1. \A input \in MuxInputs :
          [Idle EXCEPT !.pc = "lock", !.input = input, !.type = "thermistor"] \in Thread
    BY DEF Thread, Steps, MeasurementTypes
  <2>. QED  BY <1>11, <2>1 DEF MeasureThermistor, TypeOK
<1>12. CASE CalibrateThermistor(t)
  <2>1. [Idle EXCEPT !.pc = "calpower", !.bypass = TRUE, !.type = "thermistor"] \in Thread
    BY DEF Thread, Steps, MeasurementTypes
  <2>. QED  BY <1>12, <2>1 DEF CalibrateThermistor, TypeOK
<1>13. CASE CalibrationPower(t)
  <2>1. [thread[t] EXCEPT !.pc = "lock"] \in Thread
    BY DEF Thread, Steps
  <2>. QED  BY <1>13, <2>1 DEF CalibrationPower, Goto, TypeOK
<1>14. CASE CalibrationDisablePower(t)
  <2>. QED  BY <1>14 DEF CalibrationDisablePower, TypeOK
<1>15. CASE ReadPowerVolts(t)
  <2>1. [Idle EXCEPT !.pc = "lock", !.type = "power"] \in Thread
    BY DEF Thread, Steps, MeasurementTypes
  <2>. QED  BY <1>15, <2>1 DEF ReadPowerVolts, TypeOK
<1>16. CASE TakeLock(t)
  <2>1. [thread[t] EXCEPT !.pc = "channel"] \in Thread
    BY DEF Thread, Steps
  <2>2. [thread[t] EXCEPT !.pc = "power"] \in Thread
    BY DEF Thread, Steps
  <2>. QED  BY <1>16, <2>1, <2>2 DEF TakeLock, Goto, TypeOK
<1>17. CASE ConfigPower(t)
  <2>1. [thread[t] EXCEPT !.pc = "mux"] \in Thread
    BY DEF Thread, Steps
  <2>. QED  BY <1>17, <2>1 DEF ConfigPower, Goto, TypeOK
<1>18. CASE ConfigMux(t)
  <2>1. [thread[t] EXCEPT !.pc = "muxset", !.byte = expander] \in Thread
    BY DEF Thread, Steps
  <2>2. [thread[t] EXCEPT !.pc = "five"] \in Thread
    BY DEF Thread, Steps
  <2>. QED  BY <1>18, <2>1, <2>2 DEF ConfigMux, Load, Goto, TypeOK
<1>19. CASE SetMux(t)
  <2>1. [thread[t] EXCEPT !.pc = "muxcommand"] \in Thread
    BY DEF Thread, Steps
  <2>. QED  BY <1>19, <2>1 DEF SetMux, Goto, TypeOK
<1>20. CASE MuxCommand(t)
  <2>1. [thread[t] EXCEPT !.pc = "muxi2c", !.byte = expander] \in Thread
    BY DEF Thread, Steps
  <2>. QED  BY <1>20, <2>1 DEF MuxCommand, Load, TypeOK
<1>21. CASE WriteMux(t)
  <2>1. [thread[t] EXCEPT !.pc = "five", !.byte = Idle.byte] \in Thread
    BY DEF Thread, Steps
  <2>2. [thread[t] EXCEPT !.pc = "five", !.ok = FALSE, !.byte = Idle.byte] \in Thread
    BY DEF Thread, Steps
  <2>. QED  BY <1>21, <2>1, <2>2 DEF WriteMux, I2CWrite, AfterMuxFailure, TypeOK
<1>22. CASE FiveVoltEnable(t)
  <2>1. [thread[t] EXCEPT !.pc = "bplus"] \in Thread
    BY DEF Thread, Steps
  <2>. QED  BY <1>22, <2>1 DEF FiveVoltEnable, Goto, TypeOK
<1>23. CASE BplusEnable(t)
  <2>1. [thread[t] EXCEPT !.pc = "channel"] \in Thread
    BY DEF Thread, Steps
  <2>2. [thread[t] EXCEPT !.pc = "poweroff"] \in Thread
    BY DEF Thread, Steps
  <2>. QED  BY <1>23, <2>1, <2>2 DEF BplusEnable, Goto, TypeOK
<1>24. CASE ConfigureChannel(t)
  <2>1. [thread[t] EXCEPT !.pc = "sample"] \in Thread
    BY DEF Thread, Steps
  <2>2. [thread[t] EXCEPT !.pc = "setup"] \in Thread
    BY DEF Thread, Steps
  <2>. QED  BY <1>24, <2>1, <2>2 DEF ConfigureChannel, Goto, TypeOK
<1>25. CASE SetupChannel(t)
  <2>1. [thread[t] EXCEPT !.pc = "sample"] \in Thread
    BY DEF Thread, Steps
  <2>2. [thread[t] EXCEPT !.pc = "unlock", !.ok = FALSE] \in Thread
    BY DEF Thread, Steps
  <2>3. [thread[t] EXCEPT !.pc = "poweroff", !.ok = FALSE] \in Thread
    BY DEF Thread, Steps
  <2>. QED  BY <1>25, <2>1, <2>2, <2>3 DEF SetupChannel, Goto, AfterSample, TypeOK
<1>26. CASE SampleChannel(t)
  <2>1. [thread[t] EXCEPT !.pc = "unlock"] \in Thread
    BY DEF Thread, Steps
  <2>2. [thread[t] EXCEPT !.pc = "poweroff"] \in Thread
    BY DEF Thread, Steps
  <2>. QED  BY <1>26, <2>1, <2>2 DEF SampleChannel, Goto, AfterSample, TypeOK
<1>27. CASE DisablePower(t)
  <2>1. [thread[t] EXCEPT !.pc = "bplusoff"] \in Thread
    BY DEF Thread, Steps
  <2>. QED  BY <1>27, <2>1 DEF DisablePower, Goto, DisableOrder, TypeOK
<1>28. CASE BplusDisable(t)
  <2>1. [thread[t] EXCEPT !.pc = "fiveoff"] \in Thread
    BY DEF Thread, Steps
  <2>. QED  BY <1>28, <2>1 DEF BplusDisable, At, AfterDisable, DisableOrder, Goto, TypeOK
<1>29. CASE FiveVoltDisable(t)
  <2>1. [thread[t] EXCEPT !.pc = "unlock"] \in Thread
    BY DEF Thread, Steps
  <2>. QED  BY <1>29, <2>1 DEF FiveVoltDisable, At, AfterDisable, DisableOrder, Goto, TypeOK
<1>30. CASE GiveLock(t)
  <2>1. [thread[t] EXCEPT !.pc = "lock", !.input = 1] \in Thread
    BY DEF Thread, Steps
  <2>2. [thread[t] EXCEPT !.pc = "caloff"] \in Thread
    BY DEF Thread, Steps
  <2>. QED  BY <1>30, <2>1, <2>2 DEF GiveLock, TypeOK
<1>. QED  BY <1>4, <1>5, <1>6, <1>7, <1>8, <1>9, <1>10, <1>11, <1>12, <1>13, <1>14, <1>15, <1>16,
             <1>17, <1>18, <1>19, <1>20, <1>21, <1>22, <1>23, <1>24, <1>25, <1>26, <1>27, <1>28,
             <1>29, <1>30 DEF Continue, Start

\* So does everything the threads share.
LEMMA VariableType ==
  ASSUME TypeOK, PathInv, NEW t \in Threads, Continue(t) \/ Start(t)
  PROVE  TypeOK'
<1>1. thread' \in [Threads -> Thread]
  BY ThreadType
<1>2. thread[t] \in Thread /\ thread[t].byte \in Expander /\ thread[t].input \in MuxInputs
  BY DEF TypeOK, Thread
<1>3. \A s \in SUBSET MuxInputs, m \in MuxInputs :
        /\ [thread[t].byte EXCEPT !.sel = s] \in Expander
        /\ [thread[t].byte EXCEPT !.mux = m] \in Expander
  BY <1>2 DEF Expander
<1>4. Channel(thread[t].type) \in Channels
  BY <1>2 DEF Channel, Channels, Thread, MeasurementTypes, Types
<1>. USE <1>1, <1>2, <1>3, <1>4, AdcAssumption
<1>5. CASE MeasureAnalogInput(t)
  BY <1>5 DEF MeasureAnalogInput, At, MuxInputs, TypeOK, converter
<1>6. CASE ClearAinSel(t)
  BY <1>6 DEF ClearAinSel, At, Store, TypeOK, converter
<1>7. CASE SelectAin(t)
  BY <1>7 DEF SelectAin, At, TypeOK, converter
<1>8. CASE SetAinSel(t)
  <2>1. AinSelBit(thread[t].i) \in MuxInputs
    BY <1>8 DEF SetAinSel, At, PathInv, Thread, MuxInputs, AinSelBit
  <2>2. thread[t].byte.sel \cup {AinSelBit(thread[t].i)} \in SUBSET MuxInputs
    BY <2>1 DEF Expander
  <2>. QED  BY <1>8, <2>2 DEF SetAinSel, Store, TypeOK, converter
<1>9. CASE AinSelCommand(t)
  BY <1>9 DEF AinSelCommand, At, TypeOK, converter
<1>10. CASE WriteAinSel(t)
  BY <1>10 DEF WriteAinSel, At, I2CWrite, TypeOK, converter
<1>11. CASE ValidInput(t)
  BY <1>11 DEF ValidInput, At, TypeOK, converter
<1>12. CASE MeasureThermistor(t)
  BY <1>12 DEF MeasureThermistor, At, TypeOK, converter
<1>13. CASE CalibrateThermistor(t)
  BY <1>13 DEF CalibrateThermistor, At, TypeOK, converter
<1>14. CASE CalibrationPower(t)
  BY <1>14 DEF CalibrationPower, At, Disturbs, TypeOK, converter
<1>15. CASE CalibrationDisablePower(t)
  BY <1>15 DEF CalibrationDisablePower, At, Disturbs, TypeOK, converter
<1>16. CASE ReadPowerVolts(t)
  BY <1>16 DEF ReadPowerVolts, At, TypeOK, converter
<1>17. CASE TakeLock(t)
  BY <1>17 DEF TakeLock, At, LockFree, TypeOK, converter
<1>18. CASE ConfigPower(t)
  BY <1>18 DEF ConfigPower, At, Supply, TypeOK, converter
<1>19. CASE ConfigMux(t)
  BY <1>19 DEF ConfigMux, At, TypeOK, converter
<1>20. CASE SetMux(t)
  BY <1>20 DEF SetMux, At, Store, TypeOK, converter
<1>21. CASE MuxCommand(t)
  BY <1>21 DEF MuxCommand, At, TypeOK, converter
<1>22. CASE WriteMux(t)
  BY <1>22 DEF WriteMux, At, I2CWrite, TypeOK, converter
<1>23. CASE FiveVoltEnable(t)
  BY <1>23 DEF FiveVoltEnable, At, TypeOK, converter
<1>24. CASE BplusEnable(t)
  BY <1>24 DEF BplusEnable, At, TypeOK, converter
<1>25. CASE ConfigureChannel(t)
  BY <1>25 DEF ConfigureChannel, At, TypeOK, converter
<1>26. CASE SetupChannel(t)
  <2>1. channel \in Channels
    BY <1>26 DEF SetupChannel, At, PathInv, TypeOK
  <2>. QED  BY <1>26, <2>1 DEF SetupChannel, TypeOK
<1>27. CASE SampleChannel(t)
  BY <1>27 DEF SampleChannel, At, TypeOK, converter
<1>28. CASE DisablePower(t)
  BY <1>28 DEF DisablePower, At, TypeOK, converter
<1>29. CASE BplusDisable(t)
  BY <1>29 DEF BplusDisable, At, TypeOK, converter
<1>30. CASE FiveVoltDisable(t)
  BY <1>30 DEF FiveVoltDisable, At, TypeOK, converter
<1>31. CASE GiveLock(t)
  BY <1>31 DEF GiveLock, At, TypeOK, converter
<1>. QED  BY <1>5, <1>6, <1>7, <1>8, <1>9, <1>10, <1>11, <1>12, <1>13, <1>14, <1>15, <1>16, <1>17,
             <1>18, <1>19, <1>20, <1>21, <1>22, <1>23, <1>24, <1>25, <1>26, <1>27, <1>28, <1>29,
             <1>30, <1>31 DEF Continue, Start

\* A thread keeps to the path of what it measures.
LEMMA PathStep ==
  ASSUME TypeOK, PathInv, NEW t \in Threads, Continue(t) \/ Start(t)
  PROVE  PathInv'
<1>1. /\ thread \in [Threads -> Thread] /\ types \in [MuxInputs -> Types]
     /\ thread[t].i \in 0 .. Inputs
  BY DEF TypeOK, Thread
<1>. USE <1>1, AdcAssumption
<1>2. CASE MeasureAnalogInput(t)
  BY <1>2 DEF MeasureAnalogInput, At, Idle, MuxInputs, PathInv, Thread, converter
<1>3. CASE ClearAinSel(t)
  BY <1>3 DEF ClearAinSel, At, PathInv, Thread, converter
<1>4. CASE SelectAin(t)
  <2>1. CASE thread' = [thread EXCEPT ![t].pc = "command"]
    BY <1>4, <2>1 DEF SelectAin, At, PathInv, Thread, converter
  <2>2. CASE /\ thread[t].i # Inputs
             /\ thread' = [thread EXCEPT ![t].pc = "set", ![t].byte = expander]
    <3>1. thread[t].i < Inputs
      BY <2>2
    <3>2. /\ thread[t].type = "voltage" /\ ~thread[t].bypass
          /\ UNCHANGED channel
      BY <1>4 DEF SelectAin, At, PathInv, converter
    <3>. QED  BY <2>2, <3>1, <3>2 DEF PathInv, Thread
  <2>3. CASE thread' = [thread EXCEPT ![t].i = thread[t].i + 1]
    BY <1>4, <2>3 DEF SelectAin, At, PathInv, Thread, converter
  <2>. QED  BY <1>4, <2>1, <2>2, <2>3 DEF SelectAin, Goto, Load
<1>5. CASE SetAinSel(t)
  BY <1>5 DEF SetAinSel, At, AinSelBit, PathInv, Thread, converter
<1>6. CASE AinSelCommand(t)
  BY <1>6 DEF AinSelCommand, At, Load, PathInv, Thread, converter
<1>7. CASE WriteAinSel(t)
  <2>1. CASE thread' = [thread EXCEPT ![t].pc = "valid", ![t].byte = Idle.byte]
    BY <1>7, <2>1 DEF WriteAinSel, At, Idle, PathInv, Thread, converter
  <2>2. CASE thread' = [thread EXCEPT ![t] = Idle]
    BY <1>7, <2>2 DEF WriteAinSel, At, Idle, PathInv, Thread, converter
  <2>. QED  BY <1>7, <2>1, <2>2 DEF WriteAinSel, I2CWrite
<1>8. CASE ValidInput(t)
  BY <1>8 DEF ValidInput, At, Idle, PathInv, Thread, converter
<1>9. CASE MeasureThermistor(t)
  BY <1>9 DEF MeasureThermistor, At, Idle, PathInv, Thread, converter
<1>10. CASE CalibrateThermistor(t)
  BY <1>10 DEF CalibrateThermistor, At, Idle, PathInv, Thread, converter
<1>11. CASE CalibrationPower(t)
  BY <1>11 DEF CalibrationPower, At, Goto, PathInv, Thread, converter
<1>12. CASE CalibrationDisablePower(t)
  BY <1>12 DEF CalibrationDisablePower, At, Idle, PathInv, Thread, converter
<1>13. CASE ReadPowerVolts(t)
  BY <1>13 DEF ReadPowerVolts, At, Idle, PathInv, Thread, converter
<1>14. CASE TakeLock(t)
  BY <1>14 DEF TakeLock, At, Goto, PathInv, Thread, converter
<1>15. CASE ConfigPower(t)
  BY <1>15 DEF ConfigPower, At, Goto, PathInv, Thread, converter
<1>16. CASE ConfigMux(t)
  BY <1>16 DEF ConfigMux, At, Load, Goto, PathInv, Thread, converter
<1>17. CASE SetMux(t)
  BY <1>17 DEF SetMux, At, Goto, PathInv, Thread, converter
<1>18. CASE MuxCommand(t)
  BY <1>18 DEF MuxCommand, At, Load, PathInv, Thread, converter
<1>19. CASE WriteMux(t)
  <2>1. CASE thread' = [thread EXCEPT ![t].pc = "five", ![t].byte = Idle.byte]
    BY <1>19, <2>1 DEF WriteMux, At, Idle, PathInv, Thread, converter
  <2>2. CASE thread' = [thread EXCEPT ![t].pc = "five", ![t].ok = FALSE, ![t].byte = Idle.byte]
    BY <1>19, <2>2 DEF WriteMux, At, Idle, PathInv, Thread, converter
  <2>. QED  BY <1>19, <2>1, <2>2 DEF WriteMux, I2CWrite, AfterMuxFailure
<1>20. CASE FiveVoltEnable(t)
  BY <1>20 DEF FiveVoltEnable, At, Goto, PathInv, Thread, converter
<1>21. CASE BplusEnable(t)
  BY <1>21 DEF BplusEnable, At, Goto, PathInv, Thread, converter
<1>22. CASE ConfigureChannel(t)
  <2>1. Channel(thread[t].type) # "none"
    BY DEF Channel, Thread, MeasurementTypes, Types
  <2>2. CASE channel = Channel(thread[t].type)
    BY <1>22, <2>1, <2>2 DEF ConfigureChannel, At, Goto, PathInv, Thread
  <2>3. CASE channel # Channel(thread[t].type)
    BY <1>22, <2>1, <2>3 DEF ConfigureChannel, At, Goto, PathInv, Thread
  <2>. QED  BY <2>2, <2>3
<1>23. CASE SetupChannel(t)
  <2>1. CASE thread' = [thread EXCEPT ![t].pc = "sample"]
    BY <1>23, <2>1 DEF SetupChannel, At, AfterSample, PathInv, Thread, converter
  <2>2. CASE thread' = [thread EXCEPT ![t].pc = AfterSample(t), ![t].ok = FALSE]
    BY <1>23, <2>2 DEF SetupChannel, At, AfterSample, PathInv, Thread, converter
  <2>. QED  BY <1>23, <2>1, <2>2 DEF SetupChannel, Goto
<1>24. CASE SampleChannel(t)
  BY <1>24 DEF SampleChannel, At, Goto, AfterSample, PathInv, Thread, converter
<1>25. CASE DisablePower(t)
  BY <1>25 DEF DisablePower, At, Goto, DisableOrder, PathInv, Thread, converter
<1>26. CASE BplusDisable(t)
  BY <1>26 DEF BplusDisable, At, AfterDisable, DisableOrder, Goto, PathInv, Thread, converter
<1>27. CASE FiveVoltDisable(t)
  BY <1>27 DEF FiveVoltDisable, At, AfterDisable, DisableOrder, Goto, PathInv, Thread, converter
<1>28. CASE GiveLock(t)
  BY <1>28 DEF GiveLock, At, Idle, PathInv, Thread, converter
<1>. QED  BY <1>2, <1>3, <1>4, <1>5, <1>6, <1>7, <1>8, <1>9, <1>10, <1>11, <1>12, <1>13, <1>14,
             <1>15, <1>16, <1>17, <1>18, <1>19, <1>20, <1>21, <1>22, <1>23, <1>24, <1>25, <1>26,
             <1>27, <1>28 DEF Continue, Start

\* A thread takes the lock only when nobody has it, and gives it back at the end of its path.
LEMMA LockStep ==
  ASSUME TypeOK, LockInv, NEW t \in Threads, Continue(t) \/ Start(t)
  PROVE  LockInv'
<1>1. thread \in [Threads -> Thread]
  BY DEF TypeOK
<1>. USE <1>1, AdcAssumption
<1>2. CASE MeasureAnalogInput(t)
  BY <1>2 DEF MeasureAnalogInput, At, Idle, MuxInputs, LockInv, Locked
<1>3. CASE ClearAinSel(t)
  BY <1>3 DEF ClearAinSel, At, LockInv, Locked
<1>4. CASE SelectAin(t)
  <2>1. CASE thread' = [thread EXCEPT ![t].pc = "command"]
    BY <1>4, <2>1 DEF SelectAin, At, LockInv, Locked
  <2>2. CASE thread' = [thread EXCEPT ![t].pc = "set", ![t].byte = expander] /\ thread[t].i # Inputs
    BY <1>4, <2>2 DEF SelectAin, At, LockInv, Locked
  <2>3. CASE thread' = [thread EXCEPT ![t].i = thread[t].i + 1]
    BY <1>4, <2>3 DEF SelectAin, At, LockInv, Locked
  <2>. QED  BY <1>4, <2>1, <2>2, <2>3 DEF SelectAin, Goto, Load
<1>5. CASE SetAinSel(t)
  BY <1>5 DEF SetAinSel, At, AinSelBit, LockInv, Locked
<1>6. CASE AinSelCommand(t)
  BY <1>6 DEF AinSelCommand, At, Load, LockInv, Locked
<1>7. CASE WriteAinSel(t)
  <2>1. CASE thread' = [thread EXCEPT ![t].pc = "valid", ![t].byte = Idle.byte]
    BY <1>7, <2>1 DEF WriteAinSel, At, Idle, LockInv, Locked
  <2>2. CASE thread' = [thread EXCEPT ![t] = Idle]
    BY <1>7, <2>2 DEF WriteAinSel, At, Idle, LockInv, Locked
  <2>. QED  BY <1>7, <2>1, <2>2 DEF WriteAinSel, I2CWrite
<1>8. CASE ValidInput(t)
  BY <1>8 DEF ValidInput, At, Idle, LockInv, Locked
<1>9. CASE MeasureThermistor(t)
  BY <1>9 DEF MeasureThermistor, At, Idle, LockInv, Locked
<1>10. CASE CalibrateThermistor(t)
  BY <1>10 DEF CalibrateThermistor, At, Idle, LockInv, Locked
<1>11. CASE CalibrationPower(t)
  BY <1>11 DEF CalibrationPower, At, Goto, LockInv, Locked
<1>12. CASE CalibrationDisablePower(t)
  BY <1>12 DEF CalibrationDisablePower, At, Idle, LockInv, Locked
<1>13. CASE ReadPowerVolts(t)
  BY <1>13 DEF ReadPowerVolts, At, Idle, LockInv, Locked
<1>14. CASE TakeLock(t)
  BY <1>14 DEF TakeLock, At, LockFree, Goto, LockInv, Locked
<1>15. CASE ConfigPower(t)
  BY <1>15 DEF ConfigPower, At, Goto, LockInv, Locked
<1>16. CASE ConfigMux(t)
  <2>1. CASE thread' = [thread EXCEPT ![t].pc = "muxset", ![t].byte = expander]
    BY <1>16, <2>1 DEF ConfigMux, At, LockInv, Locked
  <2>2. CASE thread' = [thread EXCEPT ![t].pc = "five"]
    BY <1>16, <2>2 DEF ConfigMux, At, LockInv, Locked
  <2>. QED  BY <1>16, <2>1, <2>2 DEF ConfigMux, Goto, Load
<1>17. CASE SetMux(t)
  BY <1>17 DEF SetMux, At, Goto, LockInv, Locked
<1>18. CASE MuxCommand(t)
  BY <1>18 DEF MuxCommand, At, Load, LockInv, Locked
<1>19. CASE WriteMux(t)
  <2>1. CASE thread' = [thread EXCEPT ![t].pc = "five", ![t].byte = Idle.byte]
    BY <1>19, <2>1 DEF WriteMux, At, Idle, LockInv, Locked
  <2>2. CASE thread' = [thread EXCEPT ![t].pc = "five", ![t].ok = FALSE, ![t].byte = Idle.byte]
    BY <1>19, <2>2 DEF WriteMux, At, Idle, LockInv, Locked
  <2>. QED  BY <1>19, <2>1, <2>2 DEF WriteMux, I2CWrite, AfterMuxFailure
<1>20. CASE FiveVoltEnable(t)
  BY <1>20 DEF FiveVoltEnable, At, Goto, LockInv, Locked
<1>21. CASE BplusEnable(t)
  BY <1>21 DEF BplusEnable, At, Goto, LockInv, Locked
<1>22. CASE ConfigureChannel(t)
  <2>1. CASE thread' = [thread EXCEPT ![t].pc = "sample"]
    BY <1>22, <2>1 DEF ConfigureChannel, At, LockInv, Locked
  <2>2. CASE thread' = [thread EXCEPT ![t].pc = "setup"]
    BY <1>22, <2>2 DEF ConfigureChannel, At, LockInv, Locked
  <2>. QED  BY <1>22, <2>1, <2>2 DEF ConfigureChannel, Goto
<1>23. CASE SetupChannel(t)
  <2>1. CASE thread' = [thread EXCEPT ![t].pc = "sample"]
    BY <1>23, <2>1 DEF SetupChannel, At, AfterSample, LockInv, Locked
  <2>2. CASE thread' = [thread EXCEPT ![t].pc = AfterSample(t), ![t].ok = FALSE]
    BY <1>23, <2>2 DEF SetupChannel, At, AfterSample, LockInv, Locked
  <2>. QED  BY <1>23, <2>1, <2>2 DEF SetupChannel, Goto
<1>24. CASE SampleChannel(t)
  BY <1>24 DEF SampleChannel, At, Goto, AfterSample, LockInv, Locked
<1>25. CASE DisablePower(t)
  BY <1>25 DEF DisablePower, At, Goto, DisableOrder, LockInv, Locked
<1>26. CASE BplusDisable(t)
  BY <1>26 DEF BplusDisable, At, AfterDisable, DisableOrder, Goto, LockInv, Locked
<1>27. CASE FiveVoltDisable(t)
  BY <1>27 DEF FiveVoltDisable, At, AfterDisable, DisableOrder, Goto, LockInv, Locked
<1>28. CASE GiveLock(t)
  BY <1>28 DEF GiveLock, At, Idle, LockInv, Locked
<1>. QED  BY <1>2, <1>3, <1>4, <1>5, <1>6, <1>7, <1>8, <1>9, <1>10, <1>11, <1>12, <1>13, <1>14,
             <1>15, <1>16, <1>17, <1>18, <1>19, <1>20, <1>21, <1>22, <1>23, <1>24, <1>25, <1>26,
             <1>27, <1>28 DEF Continue, Start

\* 5V and b+ are switched in the right order, whatever fails, and only for a pressure measurement.
LEMMA FiveStep ==
  ASSUME TypeOK, PathInv, LockInv, FiveInv, NEW t \in Threads, Continue(t) \/ Start(t)
  PROVE  FiveInv'
<1>1. thread \in [Threads -> Thread] /\ five \in BOOLEAN /\ bPlus \in BOOLEAN
  BY DEF TypeOK
<1>. USE <1>1, AdcAssumption
<1>2. CASE MeasureAnalogInput(t)
  BY <1>2 DEF MeasureAnalogInput, At, Idle, PathInv, LockInv, Locked, FiveInv
<1>3. CASE ClearAinSel(t)
  BY <1>3 DEF ClearAinSel, At, PathInv, LockInv, Locked, FiveInv
<1>4. CASE SelectAin(t)
  <2>1. CASE thread' = [thread EXCEPT ![t].pc = "command"]
    BY <1>4, <2>1 DEF SelectAin, At, PathInv, LockInv, Locked, FiveInv
  <2>2. CASE thread' = [thread EXCEPT ![t].pc = "set", ![t].byte = expander] /\ thread[t].i # Inputs
    BY <1>4, <2>2 DEF SelectAin, At, PathInv, LockInv, Locked, FiveInv
  <2>3. CASE thread' = [thread EXCEPT ![t].i = thread[t].i + 1]
    BY <1>4, <2>3 DEF SelectAin, At, PathInv, LockInv, Locked, FiveInv
  <2>. QED  BY <1>4, <2>1, <2>2, <2>3 DEF SelectAin, Goto, Load
<1>5. CASE SetAinSel(t)
  BY <1>5 DEF SetAinSel, At, AinSelBit, PathInv, LockInv, Locked, FiveInv
<1>6. CASE AinSelCommand(t)
  BY <1>6 DEF AinSelCommand, At, Load, PathInv, LockInv, Locked, FiveInv
<1>7. CASE WriteAinSel(t)
  <2>1. CASE thread' = [thread EXCEPT ![t].pc = "valid", ![t].byte = Idle.byte]
    BY <1>7, <2>1 DEF WriteAinSel, At, Idle, PathInv, LockInv, Locked, FiveInv
  <2>2. CASE thread' = [thread EXCEPT ![t] = Idle]
    BY <1>7, <2>2 DEF WriteAinSel, At, Idle, PathInv, LockInv, Locked, FiveInv
  <2>. QED  BY <1>7, <2>1, <2>2 DEF WriteAinSel, I2CWrite
<1>8. CASE ValidInput(t)
  BY <1>8 DEF ValidInput, At, Idle, PathInv, LockInv, Locked, FiveInv
<1>9. CASE MeasureThermistor(t)
  BY <1>9 DEF MeasureThermistor, At, Idle, PathInv, LockInv, Locked, FiveInv
<1>10. CASE CalibrateThermistor(t)
  BY <1>10 DEF CalibrateThermistor, At, Idle, PathInv, LockInv, Locked, FiveInv
<1>11. CASE CalibrationPower(t)
  BY <1>11 DEF CalibrationPower, At, Goto, PathInv, LockInv, Locked, FiveInv
<1>12. CASE CalibrationDisablePower(t)
  BY <1>12 DEF CalibrationDisablePower, At, Idle, PathInv, LockInv, Locked, FiveInv
<1>13. CASE ReadPowerVolts(t)
  BY <1>13 DEF ReadPowerVolts, At, Idle, PathInv, LockInv, Locked, FiveInv
<1>14. CASE TakeLock(t)
  BY <1>14 DEF TakeLock, At, LockFree, Goto, PathInv, LockInv, Locked, FiveInv
<1>15. CASE ConfigPower(t)
  BY <1>15 DEF ConfigPower, At, Goto, PathInv, LockInv, Locked, FiveInv
<1>16. CASE ConfigMux(t)
  <2>1. CASE thread' = [thread EXCEPT ![t].pc = "muxset", ![t].byte = expander]
    BY <1>16, <2>1 DEF ConfigMux, At, PathInv, LockInv, Locked, FiveInv
  <2>2. CASE thread' = [thread EXCEPT ![t].pc = "five"]
    BY <1>16, <2>2 DEF ConfigMux, At, PathInv, LockInv, Locked, FiveInv
  <2>. QED  BY <1>16, <2>1, <2>2 DEF ConfigMux, Goto, Load
<1>17. CASE SetMux(t)
  BY <1>17 DEF SetMux, At, Goto, PathInv, LockInv, Locked, FiveInv
<1>18. CASE MuxCommand(t)
  BY <1>18 DEF MuxCommand, At, Load, PathInv, LockInv, Locked, FiveInv
<1>19. CASE WriteMux(t)
  <2>1. CASE thread' = [thread EXCEPT ![t].pc = "five", ![t].byte = Idle.byte]
    BY <1>19, <2>1 DEF WriteMux, At, Idle, PathInv, LockInv, Locked, FiveInv
  <2>2. CASE thread' = [thread EXCEPT ![t].pc = "five", ![t].ok = FALSE, ![t].byte = Idle.byte]
    BY <1>19, <2>2 DEF WriteMux, At, Idle, PathInv, LockInv, Locked, FiveInv
  <2>. QED  BY <1>19, <2>1, <2>2 DEF WriteMux, I2CWrite, AfterMuxFailure
<1>20. CASE FiveVoltEnable(t)
  <2>1. ~five /\ ~bPlus
    BY <1>20 DEF FiveVoltEnable, At, FiveInv
  <2>2. five' <=> thread[t].type = "pressure"
    BY <1>20, <2>1 DEF FiveVoltEnable
  <2>3. \A u \in Threads \ {t} : thread[u].pc \notin Locked
    BY <1>20 DEF FiveVoltEnable, At, LockInv, Locked
  <2>4. ~bPlus' /\ holder' # Nobody
    BY <1>20, <2>1 DEF FiveVoltEnable, At, LockInv, Locked
  <2>5. thread' = [thread EXCEPT ![t].pc = "bplus"]
    BY <1>20 DEF FiveVoltEnable, Goto
  <2>. QED  BY <2>2, <2>3, <2>4, <2>5 DEF FiveInv, Locked
<1>21. CASE BplusEnable(t)
  BY <1>21 DEF BplusEnable, At, Goto, PathInv, LockInv, Locked, FiveInv
<1>22. CASE ConfigureChannel(t)
  <2>1. CASE thread' = [thread EXCEPT ![t].pc = "sample"]
    BY <1>22, <2>1 DEF ConfigureChannel, At, PathInv, LockInv, Locked, FiveInv
  <2>2. CASE thread' = [thread EXCEPT ![t].pc = "setup"]
    BY <1>22, <2>2 DEF ConfigureChannel, At, PathInv, LockInv, Locked, FiveInv
  <2>. QED  BY <1>22, <2>1, <2>2 DEF ConfigureChannel, Goto
<1>23. CASE SetupChannel(t)
  <2>1. CASE thread' = [thread EXCEPT ![t].pc = "sample"]
    BY <1>23, <2>1 DEF SetupChannel, At, AfterSample, PathInv, LockInv, Locked, FiveInv
  <2>2. CASE thread' = [thread EXCEPT ![t].pc = AfterSample(t), ![t].ok = FALSE]
    BY <1>23, <2>2 DEF SetupChannel, At, AfterSample, PathInv, LockInv, Locked, FiveInv
  <2>. QED  BY <1>23, <2>1, <2>2 DEF SetupChannel, Goto
<1>24. CASE SampleChannel(t)
  BY <1>24 DEF SampleChannel, At, Goto, AfterSample, PathInv, LockInv, Locked, FiveInv
<1>25. CASE DisablePower(t)
  BY <1>25 DEF DisablePower, At, Goto, DisableOrder, PathInv, LockInv, Locked, FiveInv
<1>26. CASE BplusDisable(t)
  <2>1. (five <=> thread[t].type = "pressure") /\ (bPlus <=> thread[t].type = "pressure")
    BY <1>26 DEF BplusDisable, At, FiveInv
  <2>2. ~bPlus' /\ (five' <=> thread[t].type = "pressure")
    BY <1>26, <2>1 DEF BplusDisable
  <2>3. \A u \in Threads \ {t} : thread[u].pc \notin Locked
    BY <1>26 DEF BplusDisable, At, LockInv, Locked
  <2>4. holder' # Nobody
    BY <1>26 DEF BplusDisable, At, LockInv, Locked
  <2>5. thread' = [thread EXCEPT ![t].pc = "fiveoff"]
    BY <1>26 DEF BplusDisable, At, AfterDisable, DisableOrder, Goto
  <2>. QED  BY <2>2, <2>3, <2>4, <2>5 DEF FiveInv, Locked
<1>27. CASE FiveVoltDisable(t)
  BY <1>27 DEF FiveVoltDisable, At, AfterDisable, DisableOrder, Goto, PathInv, LockInv, Locked,
     FiveInv
<1>28. CASE GiveLock(t)
  BY <1>28 DEF GiveLock, At, Idle, PathInv, LockInv, Locked, FiveInv
<1>. QED  BY <1>2, <1>3, <1>4, <1>5, <1>6, <1>7, <1>8, <1>9, <1>10, <1>11, <1>12, <1>13, <1>14,
             <1>15, <1>16, <1>17, <1>18, <1>19, <1>20, <1>21, <1>22, <1>23, <1>24, <1>25, <1>26,
             <1>27, <1>28 DEF Continue, Start

\* A supply is switched by the thread that holds the lock, or by a calibration, which ends calm.
LEMMA SupplyStep ==
  ASSUME TypeOK, PathInv, LockInv, SupplyInv, NEW t \in Threads, Continue(t) \/ Start(t)
  PROVE  SupplyInv'
<1>1. thread \in [Threads -> Thread]
  BY DEF TypeOK
<1>. USE <1>1, AdcAssumption
<1>2. CASE MeasureAnalogInput(t)
  BY <1>2 DEF MeasureAnalogInput, At, Idle, PathInv, LockInv, Locked, SupplyInv, Powering
<1>3. CASE ClearAinSel(t)
  BY <1>3 DEF ClearAinSel, At, PathInv, LockInv, Locked, SupplyInv, Powering
<1>4. CASE SelectAin(t)
  <2>1. CASE thread' = [thread EXCEPT ![t].pc = "command"]
    BY <1>4, <2>1 DEF SelectAin, At, PathInv, LockInv, Locked, SupplyInv, Powering
  <2>2. CASE thread' = [thread EXCEPT ![t].pc = "set", ![t].byte = expander] /\ thread[t].i # Inputs
    BY <1>4, <2>2 DEF SelectAin, At, PathInv, LockInv, Locked, SupplyInv, Powering
  <2>3. CASE thread' = [thread EXCEPT ![t].i = thread[t].i + 1]
    BY <1>4, <2>3 DEF SelectAin, At, PathInv, LockInv, Locked, SupplyInv, Powering
  <2>. QED  BY <1>4, <2>1, <2>2, <2>3 DEF SelectAin, Goto, Load
<1>5. CASE SetAinSel(t)
  BY <1>5 DEF SetAinSel, At, AinSelBit, PathInv, LockInv, Locked, SupplyInv, Powering
<1>6. CASE AinSelCommand(t)
  BY <1>6 DEF AinSelCommand, At, Load, PathInv, LockInv, Locked, SupplyInv, Powering
<1>7. CASE WriteAinSel(t)
  <2>1. CASE thread' = [thread EXCEPT ![t].pc = "valid", ![t].byte = Idle.byte]
    BY <1>7, <2>1 DEF WriteAinSel, At, Idle, PathInv, LockInv, Locked, SupplyInv, Powering
  <2>2. CASE thread' = [thread EXCEPT ![t] = Idle]
    BY <1>7, <2>2 DEF WriteAinSel, At, Idle, PathInv, LockInv, Locked, SupplyInv, Powering
  <2>. QED  BY <1>7, <2>1, <2>2 DEF WriteAinSel, I2CWrite
<1>8. CASE ValidInput(t)
  BY <1>8 DEF ValidInput, At, Idle, PathInv, LockInv, Locked, SupplyInv, Powering
<1>9. CASE MeasureThermistor(t)
  BY <1>9 DEF MeasureThermistor, At, Idle, PathInv, LockInv, Locked, SupplyInv, Powering
<1>10. CASE CalibrateThermistor(t)
  BY <1>10 DEF CalibrateThermistor, At, Idle, PathInv, LockInv, Locked, SupplyInv, Powering
<1>11. CASE CalibrationPower(t)
  <2>1. thread' = [thread EXCEPT ![t].pc = "lock"] /\ thread[t].bypass
    BY <1>11 DEF CalibrationPower, At, Goto, PathInv
  <2>2. thread'[t].bypass /\ \A u \in Threads \ {t} : thread'[u] = thread[u]
    BY <2>1
  <2>3. calm' => \A u \in Threads : thread[u].pc \notin Locked
    BY <1>11 DEF CalibrationPower, Disturbs, LockInv
  <2>4. calm' => \A u \in Threads : thread'[u].bypass \/ thread'[u].pc \notin Locked
    BY <2>2, <2>3
  <2>. QED  BY <2>2, <2>4 DEF SupplyInv, Powering, Locked
<1>12. CASE CalibrationDisablePower(t)
  BY <1>12 DEF CalibrationDisablePower, At, Disturbs, Idle, PathInv, LockInv, Locked, SupplyInv,
     Powering
<1>13. CASE ReadPowerVolts(t)
  BY <1>13 DEF ReadPowerVolts, At, Idle, PathInv, LockInv, Locked, SupplyInv, Powering
<1>14. CASE TakeLock(t)
  BY <1>14 DEF TakeLock, At, LockFree, Goto, PathInv, LockInv, Locked, SupplyInv, Powering
<1>15. CASE ConfigPower(t)
  BY <1>15 DEF ConfigPower, At, Goto, PathInv, LockInv, Locked, SupplyInv, Powering
<1>16. CASE ConfigMux(t)
  <2>1. CASE thread' = [thread EXCEPT ![t].pc = "muxset", ![t].byte = expander]
    BY <1>16, <2>1 DEF ConfigMux, At, PathInv, LockInv, Locked, SupplyInv, Powering
  <2>2. CASE thread' = [thread EXCEPT ![t].pc = "five"]
    BY <1>16, <2>2 DEF ConfigMux, At, PathInv, LockInv, Locked, SupplyInv, Powering
  <2>. QED  BY <1>16, <2>1, <2>2 DEF ConfigMux, Goto, Load
<1>17. CASE SetMux(t)
  BY <1>17 DEF SetMux, At, Goto, PathInv, LockInv, Locked, SupplyInv, Powering
<1>18. CASE MuxCommand(t)
  BY <1>18 DEF MuxCommand, At, Load, PathInv, LockInv, Locked, SupplyInv, Powering
<1>19. CASE WriteMux(t)
  <2>1. CASE thread' = [thread EXCEPT ![t].pc = "five", ![t].byte = Idle.byte]
    BY <1>19, <2>1 DEF WriteMux, At, Idle, PathInv, LockInv, Locked, SupplyInv, Powering
  <2>2. CASE thread' = [thread EXCEPT ![t].pc = "five", ![t].ok = FALSE, ![t].byte = Idle.byte]
    BY <1>19, <2>2 DEF WriteMux, At, Idle, PathInv, LockInv, Locked, SupplyInv, Powering
  <2>. QED  BY <1>19, <2>1, <2>2 DEF WriteMux, I2CWrite, AfterMuxFailure
<1>20. CASE FiveVoltEnable(t)
  BY <1>20 DEF FiveVoltEnable, At, Goto, PathInv, LockInv, Locked, SupplyInv, Powering
<1>21. CASE BplusEnable(t)
  BY <1>21 DEF BplusEnable, At, Goto, PathInv, LockInv, Locked, SupplyInv, Powering
<1>22. CASE ConfigureChannel(t)
  <2>1. CASE thread' = [thread EXCEPT ![t].pc = "sample"]
    BY <1>22, <2>1 DEF ConfigureChannel, At, PathInv, LockInv, Locked, SupplyInv, Powering
  <2>2. CASE thread' = [thread EXCEPT ![t].pc = "setup"]
    BY <1>22, <2>2 DEF ConfigureChannel, At, PathInv, LockInv, Locked, SupplyInv, Powering
  <2>. QED  BY <1>22, <2>1, <2>2 DEF ConfigureChannel, Goto
<1>23. CASE SetupChannel(t)
  <2>1. CASE thread' = [thread EXCEPT ![t].pc = "sample"]
    BY <1>23, <2>1 DEF SetupChannel, At, AfterSample, PathInv, LockInv, Locked, SupplyInv,
       Powering
  <2>2. CASE thread' = [thread EXCEPT ![t].pc = AfterSample(t), ![t].ok = FALSE]
    BY <1>23, <2>2 DEF SetupChannel, At, AfterSample, PathInv, LockInv, Locked, SupplyInv,
       Powering
  <2>. QED  BY <1>23, <2>1, <2>2 DEF SetupChannel, Goto
<1>24. CASE SampleChannel(t)
  BY <1>24 DEF SampleChannel, At, Goto, AfterSample, PathInv, LockInv, Locked, SupplyInv, Powering
<1>25. CASE DisablePower(t)
  BY <1>25 DEF DisablePower, At, Goto, DisableOrder, PathInv, LockInv, Locked, SupplyInv, Powering
<1>26. CASE BplusDisable(t)
  BY <1>26 DEF BplusDisable, At, AfterDisable, DisableOrder, Goto, PathInv, LockInv, Locked,
     SupplyInv, Powering
<1>27. CASE FiveVoltDisable(t)
  BY <1>27 DEF FiveVoltDisable, At, AfterDisable, DisableOrder, Goto, PathInv, LockInv, Locked,
     SupplyInv, Powering
<1>28. CASE GiveLock(t)
  BY <1>28 DEF GiveLock, At, Idle, PathInv, LockInv, Locked, SupplyInv, Powering
<1>. QED  BY <1>2, <1>3, <1>4, <1>5, <1>6, <1>7, <1>8, <1>9, <1>10, <1>11, <1>12, <1>13, <1>14,
             <1>15, <1>16, <1>17, <1>18, <1>19, <1>20, <1>21, <1>22, <1>23, <1>24, <1>25, <1>26,
             <1>27, <1>28 DEF Continue, Start

\* Only the thread that holds the lock sets up a channel.
LEMMA ConverterStep ==
  ASSUME TypeOK, PathInv, LockInv, ConverterInv, NEW t \in Threads, Continue(t) \/ Start(t)
  PROVE  ConverterInv'
<1>1. thread \in [Threads -> Thread]
  BY DEF TypeOK
<1>. USE <1>1, AdcAssumption
<1>2. CASE MeasureAnalogInput(t)
  BY <1>2 DEF MeasureAnalogInput, At, Idle, PathInv, LockInv, Locked, ConverterInv, converter
<1>3. CASE ClearAinSel(t)
  BY <1>3 DEF ClearAinSel, At, PathInv, LockInv, Locked, ConverterInv, converter
<1>4. CASE SelectAin(t)
  <2>1. CASE thread' = [thread EXCEPT ![t].pc = "command"]
    BY <1>4, <2>1 DEF SelectAin, At, PathInv, LockInv, Locked, ConverterInv, converter
  <2>2. CASE thread' = [thread EXCEPT ![t].pc = "set", ![t].byte = expander] /\ thread[t].i # Inputs
    BY <1>4, <2>2 DEF SelectAin, At, PathInv, LockInv, Locked, ConverterInv, converter
  <2>3. CASE thread' = [thread EXCEPT ![t].i = thread[t].i + 1]
    BY <1>4, <2>3 DEF SelectAin, At, PathInv, LockInv, Locked, ConverterInv, converter
  <2>. QED  BY <1>4, <2>1, <2>2, <2>3 DEF SelectAin, Goto, Load
<1>5. CASE SetAinSel(t)
  BY <1>5 DEF SetAinSel, At, AinSelBit, PathInv, LockInv, Locked, ConverterInv, converter
<1>6. CASE AinSelCommand(t)
  BY <1>6 DEF AinSelCommand, At, Load, PathInv, LockInv, Locked, ConverterInv, converter
<1>7. CASE WriteAinSel(t)
  <2>1. CASE thread' = [thread EXCEPT ![t].pc = "valid", ![t].byte = Idle.byte]
    BY <1>7, <2>1 DEF WriteAinSel, At, Idle, PathInv, LockInv, Locked, ConverterInv, converter
  <2>2. CASE thread' = [thread EXCEPT ![t] = Idle]
    BY <1>7, <2>2 DEF WriteAinSel, At, Idle, PathInv, LockInv, Locked, ConverterInv, converter
  <2>. QED  BY <1>7, <2>1, <2>2 DEF WriteAinSel, I2CWrite
<1>8. CASE ValidInput(t)
  BY <1>8 DEF ValidInput, At, Idle, PathInv, LockInv, Locked, ConverterInv, converter
<1>9. CASE MeasureThermistor(t)
  BY <1>9 DEF MeasureThermistor, At, Idle, PathInv, LockInv, Locked, ConverterInv, converter
<1>10. CASE CalibrateThermistor(t)
  BY <1>10 DEF CalibrateThermistor, At, Idle, PathInv, LockInv, Locked, ConverterInv, converter
<1>11. CASE CalibrationPower(t)
  BY <1>11 DEF CalibrationPower, At, Goto, PathInv, LockInv, Locked, ConverterInv, converter
<1>12. CASE CalibrationDisablePower(t)
  BY <1>12 DEF CalibrationDisablePower, At, Idle, PathInv, LockInv, Locked, ConverterInv,
     converter
<1>13. CASE ReadPowerVolts(t)
  BY <1>13 DEF ReadPowerVolts, At, Idle, PathInv, LockInv, Locked, ConverterInv, converter
<1>14. CASE TakeLock(t)
  BY <1>14 DEF TakeLock, At, LockFree, Goto, PathInv, LockInv, Locked, ConverterInv, converter
<1>15. CASE ConfigPower(t)
  BY <1>15 DEF ConfigPower, At, Goto, PathInv, LockInv, Locked, ConverterInv, converter
<1>16. CASE ConfigMux(t)
  <2>1. CASE thread' = [thread EXCEPT ![t].pc = "muxset", ![t].byte = expander]
    BY <1>16, <2>1 DEF ConfigMux, At, PathInv, LockInv, Locked, ConverterInv, converter
  <2>2. CASE thread' = [thread EXCEPT ![t].pc = "five"]
    BY <1>16, <2>2 DEF ConfigMux, At, PathInv, LockInv, Locked, ConverterInv, converter
  <2>. QED  BY <1>16, <2>1, <2>2 DEF ConfigMux, Goto, Load
<1>17. CASE SetMux(t)
  BY <1>17 DEF SetMux, At, Goto, PathInv, LockInv, Locked, ConverterInv, converter
<1>18. CASE MuxCommand(t)
  BY <1>18 DEF MuxCommand, At, Load, PathInv, LockInv, Locked, ConverterInv, converter
<1>19. CASE WriteMux(t)
  <2>1. CASE thread' = [thread EXCEPT ![t].pc = "five", ![t].byte = Idle.byte]
    BY <1>19, <2>1 DEF WriteMux, At, Idle, PathInv, LockInv, Locked, ConverterInv, converter
  <2>2. CASE thread' = [thread EXCEPT ![t].pc = "five", ![t].ok = FALSE, ![t].byte = Idle.byte]
    BY <1>19, <2>2 DEF WriteMux, At, Idle, PathInv, LockInv, Locked, ConverterInv, converter
  <2>. QED  BY <1>19, <2>1, <2>2 DEF WriteMux, I2CWrite, AfterMuxFailure
<1>20. CASE FiveVoltEnable(t)
  BY <1>20 DEF FiveVoltEnable, At, Goto, PathInv, LockInv, Locked, ConverterInv, converter
<1>21. CASE BplusEnable(t)
  BY <1>21 DEF BplusEnable, At, Goto, PathInv, LockInv, Locked, ConverterInv, converter
<1>22. CASE ConfigureChannel(t)
  <2>1. \A u \in Threads \ {t} : thread[u].pc \notin Locked
    BY <1>22 DEF ConfigureChannel, At, LockInv, Locked
  <2>2. CASE /\ channel = Channel(thread[t].type)
             /\ thread' = [thread EXCEPT ![t].pc = "sample"] /\ UNCHANGED channel
    <3>1. channel # "none"
      BY <1>1, <2>2 DEF TypeOK, Channel, Thread, MeasurementTypes, Types
    <3>2. steady => channel \in ready
      BY <1>22, <2>1, <3>1 DEF ConfigureChannel, At, ConverterInv, Locked
    <3>. QED  BY <1>22, <2>1, <2>2, <3>2 DEF ConfigureChannel, ConverterInv, Locked
  <2>3. CASE /\ channel' = Channel(thread[t].type)
             /\ thread' = [thread EXCEPT ![t].pc = "setup"]
    BY <1>22, <2>1, <2>3 DEF ConfigureChannel, ConverterInv, Locked
  <2>. QED  BY <1>22, <2>2, <2>3 DEF ConfigureChannel, Goto
<1>23. CASE SetupChannel(t)
  <2>1. CASE thread' = [thread EXCEPT ![t].pc = "sample"]
    BY <1>23, <2>1 DEF SetupChannel, At, AfterSample, PathInv, LockInv, Locked, ConverterInv,
       converter
  <2>2. CASE thread' = [thread EXCEPT ![t].pc = AfterSample(t), ![t].ok = FALSE]
    BY <1>23, <2>2 DEF SetupChannel, At, AfterSample, PathInv, LockInv, Locked, ConverterInv,
       converter
  <2>. QED  BY <1>23, <2>1, <2>2 DEF SetupChannel, Goto
<1>24. CASE SampleChannel(t)
  BY <1>24 DEF SampleChannel, At, Goto, AfterSample, PathInv, LockInv, Locked, ConverterInv,
     converter
<1>25. CASE DisablePower(t)
  BY <1>25 DEF DisablePower, At, Goto, DisableOrder, PathInv, LockInv, Locked, ConverterInv,
     converter
<1>26. CASE BplusDisable(t)
  BY <1>26 DEF BplusDisable, At, AfterDisable, DisableOrder, Goto, PathInv, LockInv, Locked,
     ConverterInv, converter
<1>27. CASE FiveVoltDisable(t)
  BY <1>27 DEF FiveVoltDisable, At, AfterDisable, DisableOrder, Goto, PathInv, LockInv, Locked,
     ConverterInv, converter
<1>28. CASE GiveLock(t)
  BY <1>28 DEF GiveLock, At, Idle, PathInv, LockInv, Locked, ConverterInv, converter
<1>. QED  BY <1>2, <1>3, <1>4, <1>5, <1>6, <1>7, <1>8, <1>9, <1>10, <1>11, <1>12, <1>13, <1>14,
             <1>15, <1>16, <1>17, <1>18, <1>19, <1>20, <1>21, <1>22, <1>23, <1>24, <1>25, <1>26,
             <1>27, <1>28 DEF Continue, Start

\* The expander is used by one thread at a time, until fresh is lost.
LEMMA ExpanderStep ==
  ASSUME TypeOK, PathInv, LockInv, ExpanderInv, NEW t \in Threads, Continue(t) \/ Start(t)
  PROVE  ExpanderInv'
<1>1. /\ thread \in [Threads -> Thread] /\ thread[t].byte \in Expander
     /\ expander \in Expander /\ outputs \in Expander
  BY DEF TypeOK, Thread
<1>. USE <1>1, AdcAssumption DEF Expander
<1>2. CASE MeasureAnalogInput(t)
  <2>1. fresh' => \A u \in Threads \ {t} : ~UsesExpander(u)
    BY <1>2 DEF MeasureAnalogInput, Alone
  <2>2. PICK input \in MuxInputs :
          thread' = [thread EXCEPT ![t] = [Idle EXCEPT !.pc = "clear", !.input = input,
                                                       !.byte = expander]]
    BY <1>2 DEF MeasureAnalogInput
  <2>3. UNCHANGED <<expander, outputs>> /\ (fresh' => fresh) /\ thread[t].pc = "idle"
    BY <1>2 DEF MeasureAnalogInput, At
  <2>. QED  BY <2>1, <2>2, <2>3 DEF ExpanderInv, UsesExpander, Idle
<1>3. CASE ClearAinSel(t)
  BY <1>3 DEF ClearAinSel, At, Store, PathInv, LockInv, Locked, ExpanderInv, UsesExpander
<1>4. CASE SelectAin(t)
  <2>1. CASE thread' = [thread EXCEPT ![t].pc = "command"]
    BY <1>4, <2>1 DEF SelectAin, At, PathInv, LockInv, Locked, ExpanderInv, UsesExpander
  <2>2. CASE thread' = [thread EXCEPT ![t].pc = "set", ![t].byte = expander] /\ thread[t].i # Inputs
    BY <1>4, <2>2 DEF SelectAin, At, PathInv, LockInv, Locked, ExpanderInv, UsesExpander
  <2>3. CASE thread' = [thread EXCEPT ![t].i = thread[t].i + 1]
    BY <1>4, <2>3 DEF SelectAin, At, PathInv, LockInv, Locked, ExpanderInv, UsesExpander
  <2>. QED  BY <1>4, <2>1, <2>2, <2>3 DEF SelectAin, Goto, Load
<1>5. CASE SetAinSel(t)
  BY <1>5 DEF SetAinSel, At, Store, AinSelBit, PathInv, LockInv, Locked, ExpanderInv, UsesExpander
<1>6. CASE AinSelCommand(t)
  BY <1>6 DEF AinSelCommand, At, Load, PathInv, LockInv, Locked, ExpanderInv, UsesExpander
<1>7. CASE WriteAinSel(t)
  <2>1. thread[t].pc = "i2c" /\ UNCHANGED expander
    BY <1>7 DEF WriteAinSel, At
  <2>2. CASE /\ thread' = [thread EXCEPT ![t].pc = "valid", ![t].byte = Idle.byte]
             /\ outputs' = thread[t].byte /\ UNCHANGED fresh
    <3>1. fresh => /\ outputs'.mux = expander.mux
                   /\ \A u \in Threads \ {t} : ~UsesExpander(u)
      BY <2>1, <2>2 DEF ExpanderInv, UsesExpander, PathInv
    <3>. QED  BY <2>1, <2>2, <3>1 DEF ExpanderInv, UsesExpander, PathInv, LockInv, Locked
  <2>3. CASE fresh' = FALSE
    BY <2>3 DEF ExpanderInv
  <2>. QED  BY <1>7, <2>2, <2>3 DEF WriteAinSel, I2CWrite
<1>8. CASE ValidInput(t)
  BY <1>8 DEF ValidInput, At, Idle, PathInv, LockInv, Locked, ExpanderInv, UsesExpander
<1>9. CASE MeasureThermistor(t)
  BY <1>9 DEF MeasureThermistor, At, Idle, PathInv, LockInv, Locked, ExpanderInv, UsesExpander
<1>10. CASE CalibrateThermistor(t)
  BY <1>10 DEF CalibrateThermistor, At, Idle, PathInv, LockInv, Locked, ExpanderInv, UsesExpander
<1>11. CASE CalibrationPower(t)
  BY <1>11 DEF CalibrationPower, At, Goto, PathInv, LockInv, Locked, ExpanderInv, UsesExpander
<1>12. CASE CalibrationDisablePower(t)
  BY <1>12 DEF CalibrationDisablePower, At, Idle, PathInv, LockInv, Locked, ExpanderInv,
     UsesExpander
<1>13. CASE ReadPowerVolts(t)
  BY <1>13 DEF ReadPowerVolts, At, Idle, PathInv, LockInv, Locked, ExpanderInv, UsesExpander
<1>14. CASE TakeLock(t)
  BY <1>14 DEF TakeLock, At, LockFree, Goto, PathInv, LockInv, Locked, ExpanderInv, UsesExpander
<1>15. CASE ConfigPower(t)
  <2>1. fresh' => \A u \in Threads \ {t} : ~UsesExpander(u)
    BY <1>15 DEF ConfigPower, Alone
  <2>2. thread' = [thread EXCEPT ![t].pc = "mux"] /\ thread[t].pc = "power"
    BY <1>15 DEF ConfigPower, At, Goto
  <2>3. UNCHANGED <<expander, outputs>> /\ (fresh' => fresh)
    BY <1>15 DEF ConfigPower
  <2>. QED  BY <2>1, <2>2, <2>3 DEF ExpanderInv, UsesExpander
<1>16. CASE ConfigMux(t)
  <2>1. thread[t].pc = "mux" /\ UNCHANGED <<expander, outputs, fresh>>
    BY <1>16 DEF ConfigMux, At
  <2>2. CASE thread' = [thread EXCEPT ![t].pc = "muxset", ![t].byte = expander]
    BY <2>1, <2>2 DEF ExpanderInv, UsesExpander, PathInv
  <2>3. CASE thread' = [thread EXCEPT ![t].pc = "five"] /\ expander.mux = thread[t].input
    <3>1. fresh => \A u \in Threads \ {t} : ~UsesExpander(u)
      BY <2>1 DEF ExpanderInv, UsesExpander, PathInv
    <3>2. fresh => outputs.mux = thread[t].input
      BY <2>1, <2>3, <3>1 DEF ExpanderInv, UsesExpander, PathInv
    <3>. QED  BY <2>1, <2>3, <3>1, <3>2 DEF ExpanderInv, UsesExpander, PathInv
  <2>. QED  BY <1>16, <2>2, <2>3 DEF ConfigMux, SwitchNeeded, Goto, Load
<1>17. CASE SetMux(t)
  BY <1>17 DEF SetMux, At, Store, Goto, PathInv, LockInv, Locked, ExpanderInv, UsesExpander
<1>18. CASE MuxCommand(t)
  BY <1>18 DEF MuxCommand, At, Load, PathInv, LockInv, Locked, ExpanderInv, UsesExpander
<1>19. CASE WriteMux(t)
  <2>1. thread[t].pc = "muxi2c" /\ UNCHANGED expander
    BY <1>19 DEF WriteMux, At
  <2>2. CASE /\ thread' = [thread EXCEPT ![t].pc = "five", ![t].byte = Idle.byte]
             /\ outputs' = thread[t].byte /\ UNCHANGED fresh
    <3>1. fresh => /\ outputs'.mux = expander.mux /\ outputs'.mux = thread[t].input
                   /\ \A u \in Threads \ {t} : ~UsesExpander(u)
      BY <2>1, <2>2 DEF ExpanderInv, UsesExpander, PathInv
    <3>. QED  BY <2>1, <2>2, <3>1 DEF ExpanderInv, UsesExpander, PathInv, LockInv, Locked
  <2>3. CASE fresh' = FALSE
    BY <2>3 DEF ExpanderInv
  <2>. QED  BY <1>19, <2>2, <2>3 DEF WriteMux, I2CWrite
<1>20. CASE FiveVoltEnable(t)
  BY <1>20 DEF FiveVoltEnable, At, Goto, PathInv, LockInv, Locked, ExpanderInv, UsesExpander
<1>21. CASE BplusEnable(t)
  BY <1>21 DEF BplusEnable, At, Goto, PathInv, LockInv, Locked, ExpanderInv, UsesExpander
<1>22. CASE ConfigureChannel(t)
  <2>1. CASE thread' = [thread EXCEPT ![t].pc = "sample"]
    BY <1>22, <2>1 DEF ConfigureChannel, At, PathInv, LockInv, Locked, ExpanderInv, UsesExpander
  <2>2. CASE thread' = [thread EXCEPT ![t].pc = "setup"]
    BY <1>22, <2>2 DEF ConfigureChannel, At, PathInv, LockInv, Locked, ExpanderInv, UsesExpander
  <2>. QED  BY <1>22, <2>1, <2>2 DEF ConfigureChannel, Goto
<1>23. CASE SetupChannel(t)
  <2>1. CASE thread' = [thread EXCEPT ![t].pc = "sample"]
    BY <1>23, <2>1 DEF SetupChannel, At, AfterSample, PathInv, LockInv, Locked, ExpanderInv,
       UsesExpander
  <2>2. CASE thread' = [thread EXCEPT ![t].pc = AfterSample(t), ![t].ok = FALSE]
    BY <1>23, <2>2 DEF SetupChannel, At, AfterSample, PathInv, LockInv, Locked, ExpanderInv,
       UsesExpander
  <2>. QED  BY <1>23, <2>1, <2>2 DEF SetupChannel, Goto
<1>24. CASE SampleChannel(t)
  BY <1>24 DEF SampleChannel, At, Goto, AfterSample, PathInv, LockInv, Locked, ExpanderInv,
     UsesExpander
<1>25. CASE DisablePower(t)
  BY <1>25 DEF DisablePower, At, Goto, DisableOrder, PathInv, LockInv, Locked, ExpanderInv,
     UsesExpander
<1>26. CASE BplusDisable(t)
  BY <1>26 DEF BplusDisable, At, AfterDisable, DisableOrder, Goto, PathInv, LockInv, Locked,
     ExpanderInv, UsesExpander
<1>27. CASE FiveVoltDisable(t)
  BY <1>27 DEF FiveVoltDisable, At, AfterDisable, DisableOrder, Goto, PathInv, LockInv, Locked,
     ExpanderInv, UsesExpander
<1>28. CASE GiveLock(t)
  BY <1>28 DEF GiveLock, At, Idle, PathInv, LockInv, Locked, ExpanderInv, UsesExpander
<1>. QED  BY <1>2, <1>3, <1>4, <1>5, <1>6, <1>7, <1>8, <1>9, <1>10, <1>11, <1>12, <1>13, <1>14,
             <1>15, <1>16, <1>17, <1>18, <1>19, <1>20, <1>21, <1>22, <1>23, <1>24, <1>25, <1>26,
             <1>27, <1>28 DEF Continue, Start

----------------------------------------------------------------------------
(* The invariant holds, and the properties follow from it                  *)

IInv ==
  TypeOK /\ PathInv /\ LockInv /\ FiveInv /\ SupplyInv /\ ConverterInv /\ ExpanderInv

\* It holds when no thread has started.
LEMMA InvInit == Init => IInv
<1>. SUFFICES ASSUME Init PROVE IInv
  OBVIOUS
<1>. USE AdcAssumption
<1>1. 0 \in MuxInputs /\ 0 \in 0 .. Inputs /\ CurrentInputs \in SUBSET MuxInputs
  BY DEF MuxInputs, CurrentInputs
<1>2. Idle \in Thread
  BY <1>1 DEF Idle, Thread, Expander, Steps, MeasurementTypes, Types
<1>3. TypeOK
  <2>1. types \in [MuxInputs -> Types] /\ thread \in [Threads -> Thread]
    BY <1>2 DEF Init
  <2>2. expander \in Expander /\ outputs \in Expander
    BY <1>1 DEF Init, Expander
  <2>3. jobs \in 0 .. MaxJobs /\ writes \in 0 .. MaxWrites
    BY DEF Init
  <2>4. /\ five \in BOOLEAN /\ bPlus \in BOOLEAN
        /\ steady \in BOOLEAN /\ fresh \in BOOLEAN /\ calm \in BOOLEAN
    BY DEF Init
  <2>5. supply \in {"none", "analog", "thermistor"} /\ holder \in Threads \cup {Nobody}
    BY DEF Init
  <2>6. channel \in Channels \cup {"none"} /\ ready \subseteq Channels
    BY DEF Init
  <2>. QED  BY <2>1, <2>2, <2>3, <2>4, <2>5, <2>6 DEF TypeOK
<1>4. \A t \in Threads : thread[t].pc = "idle" /\ thread[t].type = "voltage" /\ ~thread[t].bypass
  BY DEF Init, Idle
<1>5. PathInv /\ LockInv /\ FiveInv
  BY <1>4 DEF Init, PathInv, LockInv, FiveInv, Locked
<1>6. SupplyInv /\ ConverterInv
  BY <1>4 DEF Init, SupplyInv, ConverterInv, Powering
<1>7. ExpanderInv
  BY <1>4 DEF Init, ExpanderInv, UsesExpander
<1>. QED  BY <1>3, <1>5, <1>6, <1>7 DEF IInv

\* A client that changes the type of an input disturbs nothing: a measurement remembers what it
\* has read.
LEMMA InvFrame ==
  ASSUME IInv, WriteType \/ UNCHANGED vars
  PROVE  IInv'
<1>1. UNCHANGED <<expander, outputs, supply, five, bPlus, channel, ready, steady, holder, thread,
                  fresh, calm>>
  BY DEF WriteType, vars, converter
<1>2. TypeOK'
  <2>1. types' \in [MuxInputs -> Types] /\ writes' \in 0 .. MaxWrites /\ jobs' = jobs
    BY AdcAssumption DEF IInv, TypeOK, WriteType, vars
  <2>. QED  BY <1>1, <2>1 DEF IInv, TypeOK
<1>3. PathInv' /\ LockInv' /\ FiveInv'
  BY <1>1 DEF IInv, PathInv, LockInv, FiveInv, Locked
<1>4. SupplyInv' /\ ConverterInv'
  BY <1>1 DEF IInv, SupplyInv, ConverterInv, Powering, Supply, Channel
<1>5. ExpanderInv'
  BY <1>1 DEF IInv, ExpanderInv, UsesExpander
<1>. QED  BY <1>2, <1>3, <1>4, <1>5 DEF IInv

\* Every step preserves it.
LEMMA InvStep == IInv /\ [Next]_vars => IInv'
<1>. SUFFICES ASSUME IInv, [Next]_vars PROVE IInv'
  OBVIOUS
<1>1. CASE \E t \in Threads : Continue(t) \/ Start(t)
  <2>1. PICK t \in Threads : Continue(t) \/ Start(t)
    BY <1>1
  <2>2. TypeOK' /\ PathInv' /\ LockInv'
    BY <2>1, VariableType, PathStep, LockStep DEF IInv
  <2>3. FiveInv' /\ SupplyInv'
    BY <2>1, FiveStep, SupplyStep DEF IInv
  <2>4. ConverterInv' /\ ExpanderInv'
    BY <2>1, ConverterStep, ExpanderStep DEF IInv
  <2>. QED  BY <2>2, <2>3, <2>4 DEF IInv
<1>2. CASE WriteType \/ UNCHANGED vars
  BY <1>2, InvFrame
<1>. QED  BY <1>1, <1>2 DEF Next, Start

\* So it holds in every state.
LEMMA Invariance == Spec => []IInv
<1>. QED  BY InvInit, InvStep, PTL DEF Spec

\* The state has the types of the declarations, whatever the threads do.
THEOREM TypeCorrect == Spec => []TypeOK
<1>1. IInv => TypeOK
  BY DEF IInv
<1>. QED  BY <1>1, Invariance, PTL

\* Two threads are never between the steps LOCKING_ID_adc covers at the same time.
Exclusive == \A t, u \in Threads : thread[t].pc \in Locked /\ thread[u].pc \in Locked => t = u

\* LOCKING_ID_adc excludes: mux, supplies and converter belong to one measurement at a time.
THEOREM MeasurementsExclusive == Spec => []Exclusive
<1>1. IInv => Exclusive
  BY DEF IInv, LockInv, Exclusive
<1>. QED  BY <1>1, Invariance, PTL

\* A measurement samples with its supply on, with 5V and b+ for a pressure sensor, unless a
\* calibration switched the supply under its lock.
THEOREM SamplesSupplied == Spec => []SampleSupplied
<1>1. IInv => SampleSupplied
  BY DEF IInv, SampleSupplied, SupplyInv, FiveInv, Powering, At
<1>. QED  BY <1>1, Invariance, PTL

\* Whatever fails, b+ is never on without 5V, and nothing stays on when no measurement holds the
\* lock and no calibration is under way.
THEOREM SuppliesAlwaysOff == Spec => []SuppliesOff
<1>1. IInv => SuppliesOff
  <2>. SUFFICES ASSUME IInv PROVE SuppliesOff
    OBVIOUS
  <2>1. bPlus => five
    <3>1. CASE holder = Nobody
      BY <3>1 DEF IInv, FiveInv
    <3>2. CASE holder # Nobody
      BY <3>2 DEF IInv, LockInv, FiveInv, Locked
    <3>. QED  BY <3>1, <3>2
  <2>2. holder = Nobody => ~five /\ ~bPlus
    BY DEF IInv, FiveInv
  <2>3. holder = Nobody => \A t \in Threads : ~Powering(t)
    BY AdcAssumption DEF IInv, LockInv, Powering, Locked
  <2>. QED  BY <2>1, <2>2, <2>3 DEF IInv, SuppliesOff, SupplyInv
<1>. QED  BY <1>1, Invariance, PTL

\* The input that is sampled is the one asked for, as long as no write to the expander has failed
\* and no two threads have met between their accesses to it.
THEOREM SamplesTheInput == Spec => []SampleOfInput
<1>1. IInv => SampleOfInput
  BY DEF IInv, SampleOfInput, ExpanderInv, At
<1>. QED  BY <1>1, Invariance, PTL

\* The converter has been set up for the channel that is sampled, as long as no setup has failed.
THEOREM ChannelsSetUp == Spec => []ChannelSetUp
<1>1. IInv => ChannelSetUp
  BY DEF IInv, ChannelSetUp, ConverterInv, At
<1>. QED  BY <1>1, Invariance, PTL
=============================================================================
