----------------------------- MODULE SerialPort -----------------------------
(***************************************************************************)
(* The console UART and the power it saves (BspSupport.c): the CTS line    *)
(* tells whether a client is connected, an edge of it starts a debounce,   *)
(* and the debounce turns the UART on or starts the delay after which it   *)
(* is shut off.  The two delayed work items share one handler and run one  *)
(* at a time on the system work queue; the handler reads CTS once, at its  *)
(* start, and the line may move before it is done.  Baud rate and flow     *)
(* control are left out.                                                   *)
(*                                                                         *)
(* A definition whose name starts with Mutant is a plausible slip in the   *)
(* one below it, used by no specification.                                 *)
(***************************************************************************)
EXTENDS Integers

CONSTANTS DebounceTime,  \* BSP_SUPPORT_UART_CTS_DEBOUNCE_TIME_MS
          ShutOffTime,   \* BSP_SUPPORT_UART_DISABLE_UART_TIMER_MS, in the same unit
          MaxEvents      \* bound: how often CTS moves and clients act

ASSUME SerialPortAssumption ==
  /\ DebounceTime \in Nat \ {0}
  /\ ShutOffTime \in Nat
  /\ DebounceTime < ShutOffTime
  /\ MaxEvents \in Nat

VARIABLES
  cts,       \* the level of the CTS line; high: no client is connected
  delay,     \* the time left of each delayed work item, 0 if it is not scheduled
  due,       \* the work items whose delay is over, on the system work queue
  running,   \* the work item its handler runs for and the level of CTS it has read
  uart,      \* uart0_on and whether the log backend is active
  restore,   \* restore_logging
  onFor,     \* history: how long the UART has been on, up to ShutOffTime
  wanted,    \* history: whether the client left logging active
  twice,     \* history: the UART was shut off while it was off
  events     \* how often CTS has moved and clients have acted

line    == <<cts, wanted, events>>
work    == <<delay, due, running>>
port    == <<uart, restore, onFor, twice>>
vars    == <<line, work, port>>

Works    == {"debounce", "shutOff"}
Idle     == [work |-> "none", high |-> FALSE]

\* main leaves logging active if log_on_boot says so, and UART0Initialise schedules the first look
\* at CTS.
Init ==
  /\ cts \in BOOLEAN
  /\ delay = [w \in Works |-> IF w = "debounce" THEN DebounceTime ELSE 0]
  /\ due = {}
  /\ running = Idle
  /\ wanted \in BOOLEAN
  /\ uart = [on |-> TRUE, log |-> wanted]
  /\ restore = FALSE
  /\ onFor = 0
  /\ twice = FALSE
  /\ events = 0

----------------------------------------------------------------------------
(* The line and the clients                                                *)

Event == events < MaxEvents /\ events' = events + 1

\* UART0CTSHandlerIsr.
CtsMoves ==
  /\ Event
  /\ cts' = ~cts
  /\ delay' = [delay EXCEPT !["debounce"] = DebounceTime]
  /\ UNCHANGED <<wanted, due, running, port>>

\* A client at the console turns logging on or off.
SwitchLogging ==
  /\ Event
  /\ uart.on /\ running = Idle /\ ~cts
  /\ uart' = [uart EXCEPT !.log = ~@]
  /\ wanted' = ~uart.log
  /\ UNCHANGED <<cts, work, restore, onFor, twice>>

----------------------------------------------------------------------------
(* The system work queue                                                   *)

Capped(n) == IF n < ShutOffTime THEN n + 1 ELSE ShutOffTime

\* A unit of time passes; the items whose delay is over are submitted. An item that waits on
\* the queue already is not submitted twice. Which of two that wait runs first is left open.
Tick ==
  /\ delay' = [w \in Works |-> IF delay[w] > 0 THEN delay[w] - 1 ELSE 0]
  /\ due' = due \cup {w \in Works : delay[w] = 1}
  /\ onFor' = IF uart.on THEN Capped(onFor) ELSE 0
  /\ UNCHANGED <<line, running, uart, restore, twice>>

\* UART0WorkqHandler starts and reads the line.
StartHandler ==
  /\ running = Idle
  /\ \E w \in due :
       /\ running' = [work |-> w, high |-> cts]
       /\ due' = due \ {w}
  /\ UNCHANGED <<line, delay, port>>

Handles(w, high) == running = [work |-> w, high |-> high]

MutantBlind(high) == TRUE
MayShutOff(high) == high

\* What is left of the logging before the shut-off is remembered.
ShutOff ==
  /\ running.work = "shutOff" /\ MayShutOff(running.high)
  /\ restore' = uart.log
  /\ uart' = [on |-> FALSE, log |-> FALSE]
  /\ twice' = (twice \/ ~uart.on)
  /\ onFor' = 0
  /\ running' = Idle
  /\ UNCHANGED <<line, delay, due>>

\* CTS is low: the shut-off does nothing.
LeaveOn ==
  /\ running.work = "shutOff" /\ ~MayShutOff(running.high)
  /\ running' = Idle
  /\ UNCHANGED <<line, delay, due, port>>

MutantAfterDebounce == DebounceTime + ShutOffTime
ShutOffDelay == ShutOffTime

\* k_work_reschedule.
ScheduleShutOff ==
  /\ Handles("debounce", TRUE)
  /\ delay' = [delay EXCEPT !["shutOff"] = ShutOffDelay]
  /\ running' = Idle
  /\ UNCHANGED <<line, due, port>>

\* k_work_cancel_delayable of the shut-off: neither delayed nor on the queue afterwards.
MutantDelayOnly(works) == works
WithoutShutOff(works) == works \ {"shutOff"}

MutantLogLost(log, r) == log
LogAfterTurnOn(log, r) == log \/ r

MutantInverted(on) == on
NeedsTurnOn(on) == ~on

TurnOn ==
  /\ Handles("debounce", FALSE) /\ NeedsTurnOn(uart.on)
  /\ delay' = [delay EXCEPT !["shutOff"] = 0]
  /\ due' = WithoutShutOff(due)
  /\ uart' = [on |-> TRUE, log |-> LogAfterTurnOn(uart.log, restore)]
  /\ running' = Idle
  /\ UNCHANGED <<line, restore, onFor, twice>>

\* The UART is on and its client is back: a shut-off that is scheduled stays so.
StayOn ==
  /\ Handles("debounce", FALSE) /\ ~NeedsTurnOn(uart.on)
  /\ running' = Idle
  /\ UNCHANGED <<line, delay, due, port>>

----------------------------------------------------------------------------

Handler == StartHandler \/ ShutOff \/ LeaveOn \/ ScheduleShutOff \/ TurnOn \/ StayOn

Next ==
  \/ CtsMoves
  \/ SwitchLogging
  \/ Tick
  \/ Handler

\* Time passes, and the system work queue is a cooperative thread of the kernel.
Fairness == WF_vars(Tick) /\ WF_vars(Handler)

Spec == Init /\ [][Next]_vars /\ Fairness

----------------------------------------------------------------------------
(* Properties                                                              *)

\* The state has the types of the declarations.
TypeOK ==
  /\ cts \in BOOLEAN
  /\ delay \in [Works -> 0 .. ShutOffTime]
  /\ due \subseteq Works
  /\ running \in [work : Works \cup {"none"}, high : BOOLEAN]
  /\ uart \in [on : BOOLEAN, log : BOOLEAN]
  /\ restore \in BOOLEAN /\ wanted \in BOOLEAN /\ twice \in BOOLEAN
  /\ onFor \in 0 .. ShutOffTime
  /\ events \in 0 .. MaxEvents

Waits(w) == delay[w] > 0 \/ w \in due

\* Whatever CTS did, and whenever the handler read it: a client that waits finds the UART on,
\* and an idle UART is on its way to be shut off, unless a look at the line is still to come.
NothingForgotten ==
  Waits("debounce") \/ running.work = "debounce" \/
  (IF cts THEN ~uart.on \/ Waits("shutOff") \/ running = [work |-> "shutOff", high |-> TRUE]
   ELSE uart.on /\ ~Handles("shutOff", TRUE))

\* A client that turns the UART on has it for the whole delay, whatever was scheduled before:
\* the UART is on for at least ShutOffTime each time.
OnForWholeDelay == [][uart.on /\ ~uart'.on => onFor = ShutOffTime]_vars

\* A client finds logging as the last one left it, unless the UART was shut off a second time
\* while it was off.
LoggingComesBack == uart.on /\ ~twice => uart.log = wanted

\* A client that stays connected gets the UART, and one that stays away saves its power.
PortFollowsClient ==
  /\ ~cts ~> (uart.on \/ cts)
  /\ cts ~> (~uart.on \/ ~cts)
=============================================================================
