-------------------------- MODULE SerialPort_proofs --------------------------
(***************************************************************************)
(* Proofs about the serial port, for any length of the debounce and of the *)
(* delay of the shut-off and any number of edges and clients.              *)
(***************************************************************************)
EXTENDS SerialPort, TLAPS

----------------------------------------------------------------------------
(* Types                                                                   *)

\* The initial states have the types of the declarations.
LEMMA InitType == Init => TypeOK
<1> SUFFICES ASSUME Init
             PROVE  TypeOK
    OBVIOUS
<1> USE SerialPortAssumption DEF Init
<1>1. delay \in [Works -> 0 .. ShutOffTime]
  <2>1. DebounceTime \in 0 .. ShutOffTime /\ 0 \in 0 .. ShutOffTime
        OBVIOUS
  <2> QED
      BY <2>1
<1>2. /\ running \in [work : Works \cup {"none"}, high : BOOLEAN]
      /\ uart \in [on : BOOLEAN, log : BOOLEAN]
      BY DEF Idle
<1>3. onFor \in 0 .. ShutOffTime /\ events \in 0 .. MaxEvents
      OBVIOUS
<1>4. /\ cts \in BOOLEAN /\ restore \in BOOLEAN /\ wanted \in BOOLEAN /\ twice \in BOOLEAN
      /\ due \subseteq Works
      BY Zenon
<1> QED
    BY <1>1, <1>2, <1>3, <1>4, Zenon DEF TypeOK

\* A handler of the system work queue keeps the types.
LEMMA HandlerType == TypeOK /\ Handler => TypeOK'
<1> SUFFICES ASSUME TypeOK, Handler
             PROVE  TypeOK'
    OBVIOUS
<1> USE SerialPortAssumption DEF TypeOK, Works, Idle, line, work, port
<1>1. CASE StartHandler
      BY <1>1 DEF StartHandler
<1>2. CASE ShutOff
      BY <1>2 DEF ShutOff
<1>3. CASE LeaveOn
      BY <1>3 DEF LeaveOn
<1>4. CASE ScheduleShutOff
      BY <1>4 DEF ScheduleShutOff, ShutOffDelay
<1>5. CASE TurnOn
  <2>1. /\ due' \subseteq Works
        /\ delay' \in [Works -> 0 .. ShutOffTime]
        BY <1>5 DEF TurnOn, WithoutShutOff
  <2>2. uart' \in [on : BOOLEAN, log : BOOLEAN]
        BY <1>5 DEF TurnOn, LogAfterTurnOn
  <2> QED
      BY <1>5, <2>1, <2>2 DEF TurnOn
<1>6. CASE StayOn
      BY <1>6 DEF StayOn
<1> QED
    BY <1>1, <1>2, <1>3, <1>4, <1>5, <1>6 DEF Handler

\* Every step keeps the types.
LEMMA NextType == TypeOK /\ [Next]_vars => TypeOK'
<1> SUFFICES ASSUME TypeOK, [Next]_vars
             PROVE  TypeOK'
    OBVIOUS
<1> USE SerialPortAssumption DEF TypeOK, line, work, port
<1>1. CASE CtsMoves
      BY <1>1 DEF CtsMoves, Event, Works
<1>2. CASE SwitchLogging
      BY <1>2 DEF SwitchLogging, Event
<1>3. CASE Tick
  <2>1. delay' \in [Works -> 0 .. ShutOffTime]
        BY <1>3 DEF Tick
  <2>2. due' \subseteq Works
        BY <1>3 DEF Tick
  <2>3. onFor' \in 0 .. ShutOffTime
        BY <1>3 DEF Tick, Capped
  <2> QED
      BY <1>3, <2>1, <2>2, <2>3 DEF Tick
<1>4. CASE Handler
      BY <1>4, HandlerType
<1>5. CASE UNCHANGED vars
      BY <1>5 DEF vars
<1> QED
    BY <1>1, <1>2, <1>3, <1>4, <1>5 DEF Next

\* Every reachable state of the serial port is well-typed.
THEOREM TypeCorrect == Spec => []TypeOK
  BY InitType, NextType, PTL DEF Spec

----------------------------------------------------------------------------
(* No client is forgotten                                                  *)

\* When the debounce was handled, or is being handled, with a level of CTS that is not the line's
\* any more, another look at the line is still to come.
LooksAgain == running.work = "debounce" /\ running.high # cts => Waits("debounce")

ForgottenInv == NothingForgotten /\ LooksAgain

\* An item that waits does so until its handler starts or it is cancelled.
LEMMA TickWaits ==
  ASSUME TypeOK, Tick, NEW w \in Works, Waits(w)
  PROVE  Waits(w)'
<1> USE DEF TypeOK, Waits, Tick
<1>1. CASE delay[w] = 1
      BY <1>1
<1>2. CASE delay[w] > 1
      BY <1>2
<1>3. CASE w \in due
      BY <1>3
<1> QED
    BY <1>1, <1>2, <1>3

\* ForgottenInv is an invariant of the specification.
LEMMA ForgottenInvariant == Spec => []ForgottenInv
<1>1. Init => ForgottenInv
  <2> SUFFICES ASSUME Init
               PROVE  ForgottenInv
      OBVIOUS
  <2>1. delay["debounce"] = DebounceTime /\ DebounceTime > 0
        BY SerialPortAssumption DEF Init, Works
  <2>2. Waits("debounce")
        BY <2>1 DEF Waits
  <2> QED
      BY <2>2 DEF ForgottenInv, NothingForgotten, LooksAgain
<1>2. TypeOK /\ ForgottenInv /\ [Next]_vars => ForgottenInv'
  <2> SUFFICES ASSUME TypeOK, ForgottenInv, [Next]_vars
               PROVE  ForgottenInv'
      OBVIOUS
  <2> USE SerialPortAssumption
      DEF TypeOK, ForgottenInv, NothingForgotten, LooksAgain, Handles, Works, line, work, port
  <2>1. CASE CtsMoves
        BY <2>1 DEF CtsMoves, Waits
  <2>2. CASE SwitchLogging
        BY <2>2 DEF SwitchLogging, Waits
  <2>3. CASE Tick
    <3>1. \A w \in Works : Waits(w) => Waits(w)'
          BY <2>3, TickWaits
    <3> QED
        BY <2>3, <3>1 DEF Tick
  <2>4. CASE StartHandler
    <3>1. PICK w \in due : running' = [work |-> w, high |-> cts] /\ due' = due \ {w}
          BY <2>4 DEF StartHandler
    <3>2. CASE w = "debounce"
          BY <2>4, <3>1, <3>2 DEF StartHandler, Waits
    <3>3. CASE w = "shutOff"
          BY <2>4, <3>1, <3>3 DEF StartHandler, Waits, Idle
    <3> QED
        BY <3>1, <3>2, <3>3
  <2>5. CASE ShutOff
        BY <2>5 DEF ShutOff, Waits, Idle, MayShutOff
  <2>6. CASE LeaveOn
        BY <2>6 DEF LeaveOn, Waits, Idle, MayShutOff
  <2>7. CASE ScheduleShutOff
    <3>1. running = [work |-> "debounce", high |-> TRUE] /\ running' = Idle
          BY <2>7 DEF ScheduleShutOff
    <3>2. /\ delay'["shutOff"] = ShutOffTime /\ delay'["debounce"] = delay["debounce"]
          /\ ShutOffTime > 0
          BY <2>7 DEF ScheduleShutOff, ShutOffDelay
    <3>3. cts' = cts /\ due' = due /\ uart' = uart
          BY <2>7 DEF ScheduleShutOff
    <3>4. Waits("shutOff")' /\ (Waits("debounce") => Waits("debounce")')
          BY <3>2, <3>3 DEF Waits
    <3>5. ~cts => Waits("debounce")
          BY <3>1
    <3> QED
        BY <3>1, <3>3, <3>4, <3>5 DEF Idle
  <2>8. CASE TurnOn
        BY <2>8 DEF TurnOn, WithoutShutOff, Waits, Idle
  <2>9. CASE StayOn
        BY <2>9 DEF StayOn, NeedsTurnOn, Waits, Idle
  <2>10. CASE UNCHANGED vars
        BY <2>10 DEF vars, Waits
  <2> QED
      BY <2>1, <2>2, <2>3, <2>4, <2>5, <2>6, <2>7, <2>8, <2>9, <2>10 DEF Next, Handler
<1> QED
    BY <1>1, <1>2, TypeCorrect, PTL DEF Spec

\* However edges of CTS and the two work items interleave, a client that waits finds the UART on
\* and an idle UART is on its way to be shut off, unless a look at the line is still to come.
THEOREM ClientNeverForgotten == Spec => []NothingForgotten
<1>1. ForgottenInv => NothingForgotten
      BY DEF ForgottenInv
<1> QED
    BY <1>1, ForgottenInvariant, PTL

----------------------------------------------------------------------------
(* Logging                                                                 *)

\* While the UART is off nothing is logged, and what its client wanted is kept.
LoggingInv ==
  /\ LoggingComesBack
  /\ ~uart.on => ~uart.log
  /\ ~uart.on /\ ~twice => restore = wanted

\* A client finds logging as the last one left it, unless a second shut-off has found the UART off.
THEOREM LoggingRestored == Spec => []LoggingComesBack
<1>1. Init => LoggingInv
      BY DEF Init, LoggingInv, LoggingComesBack
<1>2. TypeOK /\ LoggingInv /\ [Next]_vars => LoggingInv'
  <2> SUFFICES ASSUME TypeOK, LoggingInv, [Next]_vars
               PROVE  LoggingInv'
      OBVIOUS
  <2> USE DEF TypeOK, LoggingInv, LoggingComesBack, line, work, port
  <2>1. CASE CtsMoves
        BY <2>1 DEF CtsMoves
  <2>2. CASE SwitchLogging
        BY <2>2 DEF SwitchLogging
  <2>3. CASE Tick
        BY <2>3 DEF Tick
  <2>4. CASE StartHandler
        BY <2>4 DEF StartHandler
  <2>5. CASE ShutOff
        BY <2>5 DEF ShutOff
  <2>6. CASE LeaveOn
        BY <2>6 DEF LeaveOn
  <2>7. CASE ScheduleShutOff
        BY <2>7 DEF ScheduleShutOff
  <2>8. CASE TurnOn
        BY <2>8 DEF TurnOn, NeedsTurnOn, LogAfterTurnOn
  <2>9. CASE StayOn
        BY <2>9 DEF StayOn
  <2>10. CASE UNCHANGED vars
        BY <2>10 DEF vars
  <2> QED
      BY <2>1, <2>2, <2>3, <2>4, <2>5, <2>6, <2>7, <2>8, <2>9, <2>10 DEF Next, Handler
<1>3. LoggingInv => LoggingComesBack
      BY DEF LoggingInv
<1> QED
    BY <1>1, <1>2, <1>3, TypeCorrect, PTL DEF Spec

----------------------------------------------------------------------------
(* The delay of the shut-off                                               *)

\* A shut-off that is scheduled while the UART is on comes no earlier than ShutOffTime after it
\* was turned on: turning it on cancels every earlier one, delayed, waiting or running.
DelayInv ==
  uart.on =>
    /\ delay["shutOff"] > 0 => onFor + delay["shutOff"] >= ShutOffTime
    /\ "shutOff" \in due => onFor = ShutOffTime
    /\ running.work = "shutOff" => onFor = ShutOffTime

\* DelayInv is an invariant of the specification.
LEMMA DelayInvariant == Spec => []DelayInv
<1>1. Init => DelayInv
      BY DEF Init, DelayInv, Works, Idle
<1>2. TypeOK /\ DelayInv /\ [Next]_vars => DelayInv'
  <2> SUFFICES ASSUME TypeOK, DelayInv, [Next]_vars
               PROVE  DelayInv'
      OBVIOUS
  <2> USE SerialPortAssumption DEF TypeOK, DelayInv, Works, line, work, port
  <2>1. CASE CtsMoves
        BY <2>1 DEF CtsMoves
  <2>2. CASE SwitchLogging
        BY <2>2 DEF SwitchLogging
  <2>3. CASE Tick
        BY <2>3 DEF Tick, Capped
  <2>4. CASE StartHandler
        BY <2>4 DEF StartHandler
  <2>5. CASE ShutOff
        BY <2>5 DEF ShutOff
  <2>6. CASE LeaveOn
        BY <2>6 DEF LeaveOn, Idle
  <2>7. CASE ScheduleShutOff
        BY <2>7 DEF ScheduleShutOff, ShutOffDelay, Idle
  <2>8. CASE TurnOn
        BY <2>8 DEF TurnOn, WithoutShutOff, Idle
  <2>9. CASE StayOn
        BY <2>9 DEF StayOn, Idle
  <2>10. CASE UNCHANGED vars
        BY <2>10 DEF vars
  <2> QED
      BY <2>1, <2>2, <2>3, <2>4, <2>5, <2>6, <2>7, <2>8, <2>9, <2>10 DEF Next, Handler
<1> QED
    BY <1>1, <1>2, TypeCorrect, PTL DEF Spec

\* Each time the UART is turned on it stays on for at least ShutOffTime, whatever was scheduled
\* before.
THEOREM ClientHasWholeDelay == Spec => OnForWholeDelay
<1>1. TypeOK /\ DelayInv /\ [Next]_vars => [uart.on /\ ~uart'.on => onFor = ShutOffTime]_vars
  <2> SUFFICES ASSUME TypeOK, DelayInv, Next, uart.on, ~uart'.on
               PROVE  onFor = ShutOffTime
      OBVIOUS
  <2> USE DEF TypeOK, line, work, port
  <2>1. CASE ShutOff
        BY <2>1 DEF ShutOff, DelayInv
  <2>2. CASE CtsMoves \/ Tick \/ StartHandler \/ LeaveOn \/ ScheduleShutOff \/ StayOn
        BY <2>2 DEF CtsMoves, Tick, StartHandler, LeaveOn, ScheduleShutOff, StayOn
  <2>3. CASE SwitchLogging
        BY <2>3 DEF SwitchLogging
  <2>4. CASE TurnOn
    <3>1. uart'.on = TRUE
          BY <2>4 DEF TurnOn
    <3> QED
        BY <3>1
  <2> QED
      BY <2>1, <2>2, <2>3, <2>4 DEF Next, Handler
<1> QED
    BY <1>1, TypeCorrect, DelayInvariant, PTL DEF Spec, OnForWholeDelay
=============================================================================
