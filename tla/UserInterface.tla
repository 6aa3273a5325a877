--------------------------- MODULE UserInterface ---------------------------
(***************************************************************************)
(* The user interface task (UserInterfaceTask.c, LEDs.c): the button, the  *)
(* magnet and the tamper switch interrupt; the handlers time how long the  *)
(* button is held and the magnet is near and post messages to the task,    *)
(* which shows patterns on the two LEDs, leaves shelf mode and passes on   *)
(* a factory reset.  The LwM2M client posts to the same queue.             *)
(*                                                                         *)
(* Pins are modelled as what they mean: `open` is BSP_PinGet of the tamper *)
(* switch, simulated or not.  What the task and the sensor task store of   *)
(* the switches is in SwitchInputs.                                        *)
(*                                                                         *)
(* A definition whose name starts with Mutant is a plausible slip in the   *)
(* one below it, used by no specification.                                 *)
(***************************************************************************)
EXTENDS Integers, Sequences, SequencesExt

CONSTANTS MaxAlive,         \* CONFIG_UI_MAX_ALIVE_MS, in units of the model
          PairMin,          \* CONFIG_UI_PAIR_MIN_MS
          PairMax,          \* CONFIG_UI_PAIR_MAX_MS
          MinFactoryReset,  \* CONFIG_UI_MIN_FACTORY_RESET_MS
          MaxFactoryReset,  \* CONFIG_UI_MAX_FACTORY_RESET_MS
          QueueDepth,       \* USER_IF_TASK_QUEUE_DEPTH
          Scenes,           \* bound: the sets of actors that act in one behaviour
          PoolMayFail,      \* whether BufferPool_Take can find the pool exhausted
          MaxActs           \* bound: how often the world acts

\* The first two inequalities are the BUILD_ASSERTs.
ASSUME UserInterfaceAssumption ==
  /\ {MaxAlive, PairMin, PairMax, MinFactoryReset, MaxFactoryReset} \subseteq Nat
  /\ MaxAlive < PairMin
  /\ PairMin < MinFactoryReset
  /\ PairMax <= MaxFactoryReset
  /\ QueueDepth \in Nat \ {0}
  /\ Scenes \subseteq SUBSET {"button", "magnet", "tamper", "dm"}
  /\ PoolMayFail \in BOOLEAN
  /\ MaxActs \in Nat

VARIABLES
  actors,     \* who acts in this behaviour
  held,       \* whether the button is held and the magnet is near
  open,       \* whether the tamper switch reads 1
  irq,        \* the inputs whose interrupt has not been served yet
  since,      \* the time since swEventTime and amrEventTime, up to the horizon of the input
  pressSeen,  \* button0_pressed
  queue,      \* userIfTaskQueue
  lost,       \* history: a message was dropped
  started,    \* the task has reached its loop
  led,        \* what each LED shows
  active,     \* the attribute active_mode
  enabled,    \* the attribute factory_reset_enable
  resets,     \* a FACTORY_RESET message is on its way to the control task
  dm,         \* whether the LwM2M client is connected
  call,       \* the code a client's thread is about to send from Button2HandlerIsr
  hold,       \* history: how long each of the two is or was held, up to the horizon of the input
  disturbed,  \* history: the inputs whose last hold was not timed from its edges alone
  overlapped, \* history: the magnet's interrupt came within a client's call
  acts        \* how often the world has acted

world  == <<actors, held, open, irq, dm, hold, acts>>
task   == <<started, led, active, enabled, resets>>
vars   == <<world, since, pressSeen, queue, lost, task, call, disturbed, overlapped>>

Timed    == {"button", "magnet"}
Codes    == {"ALIVE", "TAMPER", "ENTER_ACTIVE_MODE", "FACTORY_RESET", "AMR_LED_ON",
             "LEDS_OFF", "DM_CONNECTED"}
Patterns == {"alive", "tamper", "exit", "reset"}
Shown    == {"off", "on", "dm"} \cup Patterns
Message  == [code : Codes, by : Timed \cup {"tamper", "dm", "client"}]

\* Longer times are all alike: no window of the input reaches further.
Horizon(i) == IF i = "button" THEN MaxFactoryReset ELSE PairMax
Age(i, n)  == IF n < Horizon(i) THEN n + 1 ELSE Horizon(i)

Init ==
  /\ actors \in Scenes
  /\ held \in [Timed -> BOOLEAN]
  /\ \A i \in Timed \ actors : ~held[i]
  /\ open \in BOOLEAN
  /\ "tamper" \in actors \/ ~open
  /\ irq = {}
  /\ since = [i \in Timed |-> 0]
  /\ pressSeen = FALSE
  /\ queue = <<>>
  /\ lost = FALSE
  /\ started = FALSE
  /\ led = [green |-> "off", red |-> "off"]
  /\ active \in BOOLEAN
  /\ "tamper" \in actors \/ ~active
  /\ enabled \in BOOLEAN
  /\ "button" \in actors \/ enabled
  /\ resets = FALSE
  /\ dm = FALSE
  /\ call = "none"
  /\ hold = [i \in Timed |-> 0]
  /\ disturbed = {}
  /\ overlapped = FALSE
  /\ acts = 0

----------------------------------------------------------------------------
(* The world                                                               *)

Act == acts < MaxActs /\ acts' = acts + 1

\* An edge while the interrupt of an earlier one is pending is served with it.
Merges(i) == IF i \in irq THEN {i} ELSE {}

\* The button is pressed or released, the magnet comes or goes.
Moves(i) ==
  /\ Act
  /\ held' = [held EXCEPT ![i] = ~@]
  /\ hold' = IF held[i] THEN hold ELSE [hold EXCEPT ![i] = 0]
  /\ irq' = irq \cup {i}
  /\ disturbed' = disturbed \cup Merges(i)
  /\ UNCHANGED <<actors, open, dm, since, pressSeen, queue, lost, task, call, overlapped>>

TamperMoves ==
  /\ Act
  /\ open' = ~open
  /\ irq' = irq \cup {"tamper"}
  /\ UNCHANGED <<actors, held, dm, hold, since, pressSeen, queue, lost, task, call, disturbed, overlapped>>

\* Interrupts are served within a unit of time.
Tick ==
  /\ irq = {}
  /\ since' = [i \in Timed |-> IF i \in actors THEN Age(i, since[i]) ELSE since[i]]
  /\ hold' = [i \in Timed |-> IF held[i] THEN Age(i, hold[i]) ELSE hold[i]]
  /\ UNCHANGED <<actors, held, open, irq, dm, acts, pressSeen, queue, lost, task, call, disturbed, overlapped>>

----------------------------------------------------------------------------
(* Interrupt handlers                                                      *)

MutantOneTooMany(q) == Len(q) <= QueueDepth
HasRoom(q) == Len(q) < QueueDepth

\* FRAMEWORK_MSG_CREATE_AND_SEND to the task.
Post(code, by) ==
  \/ /\ HasRoom(queue)
     /\ queue' = Append(queue, [code |-> code, by |-> by])
     /\ UNCHANGED lost
  \/ /\ PoolMayFail \/ ~HasRoom(queue)
     /\ lost' = TRUE
     /\ UNCHANGED queue

ValidAliveDuration(d)         == d < MaxAlive
ValidExitShelfModeDuration(d) == PairMin < d /\ d < PairMax
ValidFactoryResetDuration(d)  == MinFactoryReset < d /\ d < MaxFactoryReset

\* The longest first; nothing between the windows.
MutantNoExit(d) == IF ValidFactoryResetDuration(d) THEN "FACTORY_RESET" ELSE "ALIVE"
ButtonCode(d) ==
  IF ValidFactoryResetDuration(d) THEN "FACTORY_RESET"
  ELSE IF ValidExitShelfModeDuration(d) THEN "ENTER_ACTIVE_MODE"
  ELSE IF ValidAliveDuration(d) THEN "ALIVE" ELSE "none"

\* k_uptime_delta: the time since the last event, which is now.
MutantReleaseOnly(i) == IF held[i] THEN since ELSE [since EXCEPT ![i] = 0]
AfterEvent(i) == [since EXCEPT ![i] = 0]

Undisturbed(i) == IF held[i] THEN disturbed \ {i} ELSE disturbed

\* A release is timed from the last event of the button, whichever it was; pressSeen is never
\* cleared.
Button0HandlerIsr ==
  /\ "button" \in irq
  /\ irq' = irq \ {"button"}
  /\ since' = AfterEvent("button")
  /\ pressSeen' = (pressSeen \/ held["button"])
  /\ LET code == ButtonCode(since["button"])
     IN  IF ~held["button"] /\ pressSeen /\ code # "none"
         THEN Post(code, "button")
         ELSE UNCHANGED <<queue, lost>>
  /\ disturbed' = Undisturbed("button")
  /\ UNCHANGED <<actors, held, open, dm, hold, acts, task, call, overlapped>>

Button1HandlerIsr ==
  /\ "tamper" \in irq
  /\ irq' = irq \ {"tamper"}
  /\ Post("TAMPER", "tamper")
  /\ UNCHANGED <<actors, held, open, dm, hold, acts, since, pressSeen, task, call, disturbed, overlapped>>

MagnetCode(near, d) ==
  IF near THEN "AMR_LED_ON"
  ELSE IF ValidExitShelfModeDuration(d) THEN "ENTER_ACTIVE_MODE" ELSE "LEDS_OFF"

\* The message to the sensor task that goes with it is in SwitchInputs.
Button2HandlerIsr ==
  /\ "magnet" \in irq
  /\ irq' = irq \ {"magnet"}
  /\ since' = AfterEvent("magnet")
  /\ Post(MagnetCode(held["magnet"], since["magnet"]), "magnet")
  /\ disturbed' = Undisturbed("magnet")
  /\ overlapped' = (call # "none")
  /\ UNCHANGED <<actors, held, open, dm, hold, acts, pressSeen, task, call>>

----------------------------------------------------------------------------
(* Clients and the LwM2M client                                            *)

\* UserInterfaceTask_UpdateMagSwitchSimulated...: a client that simulates the magnet runs
\* Button2HandlerIsr in its own thread, which reads the pin and takes the time ...
SimulateMagnet ==
  /\ "magnet" \in actors /\ call = "none" /\ Act
  /\ call' = MagnetCode(held["magnet"], since["magnet"])
  /\ since' = AfterEvent("magnet")
  /\ disturbed' = disturbed \cup {"magnet"}
  /\ UNCHANGED <<actors, held, open, irq, dm, hold, pressSeen, queue, lost, task, overlapped>>

\* ... and sends the message, when interrupts may have come between.
SendOfClient ==
  /\ call # "none"
  /\ Post(call, "client")
  /\ call' = "none"
  /\ UNCHANGED <<world, since, pressSeen, task, disturbed, overlapped>>

\* An attribute is written where an actor makes the task read it.
WriteAttribute ==
  /\ Act
  /\ \/ "tamper" \in actors /\ active' = ~active /\ UNCHANGED enabled
     \/ "button" \in actors /\ enabled' = ~enabled /\ UNCHANGED active
  /\ UNCHANGED <<actors, held, open, irq, dm, hold, since, pressSeen, queue, lost, started, led, resets,
                 call, disturbed, overlapped>>

MutantOnOnly(connected) == "DM_CONNECTED"
DmCode(connected) == IF connected THEN "DM_CONNECTED" ELSE "LEDS_OFF"

lwm2m_client_connected_event ==
  /\ "dm" \in actors /\ Act
  /\ dm' = ~dm
  /\ Post(DmCode(~dm), "dm")
  /\ UNCHANGED <<actors, held, open, irq, hold, since, pressSeen, task, call, disturbed, overlapped>>

----------------------------------------------------------------------------
(* The task                                                                *)

\* led_blink and led_on turn both LEDs off first.
Green(pattern) == [green |-> pattern, red |-> "off"]
Red(pattern)   == [green |-> "off", red |-> pattern]
Amber(pattern) == [green |-> pattern, red |-> pattern]
AllOff         == Amber("off")

\* TamperSwitchStatus, from what the LEDs show.
TamperSwitchStatus(shown) ==
  IF ~open THEN [shown EXCEPT !.red = "off"]
  ELSE IF active THEN Red("tamper") ELSE shown

\* UserIfTaskThread up to its loop: the LED test leaves both LEDs off.
UserIfTaskThread ==
  /\ ~started
  /\ started' = TRUE
  /\ led' = TamperSwitchStatus(AllOff)
  /\ UNCHANGED <<world, since, pressSeen, queue, lost, active, enabled, resets, call, disturbed,
                 overlapped>>

Receives(code) == started /\ queue # <<>> /\ Head(queue).code = code

Handled ==
  /\ queue' = Tail(queue)
  /\ UNCHANGED <<world, since, pressSeen, lost, started, enabled, call, disturbed, overlapped>>

Shows(shown) == led' = shown /\ UNCHANGED <<active, resets>>

AliveMsgHandler       == Receives("ALIVE") /\ Handled /\ Shows(Amber("alive"))
TamperMsgHandler      == Receives("TAMPER") /\ Handled /\ Shows(TamperSwitchStatus(led))
AmrLedOnMsgHandler    == Receives("AMR_LED_ON") /\ Handled /\ Shows(Green("on"))
LedsOffMsgHandler     == Receives("LEDS_OFF") /\ Handled /\ Shows(AllOff)
DmConnectedMsgHandler == Receives("DM_CONNECTED") /\ Handled /\ Shows(Green("dm"))

EnterActiveModeMsgHandler ==
  /\ Receives("ENTER_ACTIVE_MODE") /\ Handled
  /\ led' = Green("exit")
  /\ active' = TRUE
  /\ UNCHANGED resets

UiFactoryResetMsgHandler ==
  /\ Receives("FACTORY_RESET") /\ Handled
  /\ IF enabled
     THEN led' = Amber("reset") /\ resets' = TRUE
     ELSE led' = Red("reset") /\ UNCHANGED resets
  /\ UNCHANGED active

\* Every pattern but the one of the LwM2M connection ends after so many blinks.
PatternEnds(colour) ==
  /\ led[colour] \in Patterns
  /\ led' = [led EXCEPT ![colour] = "off"]
  /\ UNCHANGED <<world, since, pressSeen, queue, lost, started, active, enabled, resets, call,
                 disturbed, overlapped>>

MessageHandler ==
  \/ AliveMsgHandler \/ TamperMsgHandler \/ AmrLedOnMsgHandler \/ LedsOffMsgHandler
  \/ DmConnectedMsgHandler \/ EnterActiveModeMsgHandler \/ UiFactoryResetMsgHandler

----------------------------------------------------------------------------

Interrupt == Button0HandlerIsr \/ Button1HandlerIsr \/ Button2HandlerIsr

Next ==
  \/ \E i \in Timed \cap actors : Moves(i)
  \/ "tamper" \in actors /\ TamperMoves
  \/ Tick
  \/ Interrupt
  \/ SimulateMagnet
  \/ SendOfClient
  \/ WriteAttribute
  \/ lwm2m_client_connected_event
  \/ UserIfTaskThread
  \/ MessageHandler
  \/ PatternEnds("green")
  \/ PatternEnds("red")

\* Interrupts are served, and the task runs when it has a message: no thread of the same
\* priority runs for ever.
Fairness ==
  /\ WF_vars(Button0HandlerIsr)
  /\ WF_vars(Button1HandlerIsr)
  /\ WF_vars(Button2HandlerIsr)
  /\ WF_vars(UserIfTaskThread)
  /\ WF_vars(MessageHandler)

Spec == Init /\ [][Next]_vars /\ Fairness

----------------------------------------------------------------------------
(* Properties                                                              *)

\* The state has the types of the declarations.
TypeOK ==
  /\ actors \in Scenes
  /\ held \in [Timed -> BOOLEAN] /\ open \in BOOLEAN
  /\ irq \subseteq Timed \cup {"tamper"}
  /\ since \in [Timed -> Nat] /\ hold \in [Timed -> Nat]
  /\ \A i \in Timed : since[i] <= Horizon(i) /\ hold[i] <= Horizon(i)
  /\ pressSeen \in BOOLEAN
  /\ queue \in Seq(Message) /\ Len(queue) <= QueueDepth
  /\ led \in [green : Shown, red : Shown]
  /\ call \in Codes \cup {"none"}
  /\ disturbed \subseteq Timed
  /\ {lost, started, active, enabled, resets, dm, overlapped} \subseteq BOOLEAN
  /\ acts \in 0 .. MaxActs

Posted(m) == Len(queue') > Len(queue) /\ Last(queue') = m

\* A device leaves shelf mode or is reset by hand only after the button was really held, or the
\* magnet really near, for a time within the window of the command, and it was not reported
\* without a press; this holds unless edges were served together or a client simulated the
\* magnet within the hold.
CommandsFollowHolds ==
  [][\A i \in Timed \ disturbed :
       /\ Posted([code |-> "ENTER_ACTIVE_MODE", by |-> i]) => ValidExitShelfModeDuration(hold[i])
       /\ Posted([code |-> "FACTORY_RESET", by |-> i]) => ValidFactoryResetDuration(hold[i])]_vars

Released == "button" \in irq /\ ~held["button"] /\ pressSeen /\ "button" \notin disturbed

\* The button's hold is answered, by the LED of the exit from shelf mode or by the LEDs that
\* accept or refuse a factory reset, unless a message was dropped or the button moved again
\* before its interrupt was served.
HoldAnswered ==
  /\ Released /\ ValidExitShelfModeDuration(hold["button"])
       ~> (led.green = "exit" \/ lost \/ "button" \in disturbed)
  /\ Released /\ ValidFactoryResetDuration(hold["button"])
       ~> (led.red = "reset" \/ lost \/ "button" \in disturbed)

Quiet == started /\ queue = <<>> /\ irq = {} /\ call = "none" /\ ~lost

\* When nothing is on its way, no LED claims what is not so: steady green a magnet that is near,
\* green flashes of the LwM2M connection that it is up, red flashes that the tamper switch is
\* open. The magnet's interrupt within a client's call is the exception.
LedsTruthful ==
  Quiet =>
    /\ led.green = "on" => held["magnet"] \/ overlapped
    /\ led.green = "dm" => dm
    /\ led.red = "tamper" => open
=============================================================================
