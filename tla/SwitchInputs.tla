---------------------------- MODULE SwitchInputs ----------------------------
(***************************************************************************)
(* The inputs that are on or off: a digital input, the magnet switch and   *)
(* the tamper switch, and the attributes that simulate them.  An edge of   *)
(* the pin runs an interrupt handler, which sends a message; the task that *)
(* handles the message reads the pin and stores what it shows in an        *)
(* attribute and a flag.  A client that simulates the input makes the      *)
(* firmware behave as if the pin had moved.                                *)
(*                                                                         *)
(* The flag is set as Flags.tla tells, by the task or by a client that     *)
(* reads the input.                                                        *)
(*                                                                         *)
(* The two digital inputs are alike and one of them is modelled.  An input *)
(* only counts the messages on their way.  A definition whose name starts  *)
(* with Mutant is a plausible slip in the one below it, used by no         *)
(* specification.                                                          *)
(***************************************************************************)
EXTENDS Flags

CONSTANTS Inputs,        \* the inputs modelled, of "din", "magnet" and "tamper"
          QueueDepth,    \* bound: how many messages of an input may wait
          PoolMayFail,   \* whether BufferPool_Take can find the pool exhausted
          MaxChanges     \* bound: how often pins move and clients write or read

ASSUME SwitchInputsAssumption ==
  /\ Inputs \subseteq {"din", "magnet", "tamper"}
  /\ Bits = Inputs  \* the flag of an input has its name here
  /\ Threads = {"SensorTask", "UserInterfaceTask", "client"}
  /\ QueueDepth \in Nat \ {0}
  /\ PoolMayFail \in BOOLEAN
  /\ MaxChanges \in Nat

VARIABLES
  pin,        \* the level of each pin
  simulated,  \* the attribute that enables the simulation of each input
  value,      \* the simulated value of each input
  last,       \* ..._last_state: the level read when the simulation was enabled
  shown,      \* digital_input, magnet_state and tamper_switch_status
  enabled,    \* whether the pin of each input is connected
  edge,       \* which edges interrupt, as configured
  sent,       \* messages on their way to the task that handles the input
  task,       \* the level of each input that its task has read and not yet stored
  client,     \* what the client's thread is in the middle of
  lost,       \* history: a message was dropped
  synced,     \* history: the input was stored since it was last configured, and by one thread
  changes     \* how often pins have moved and clients have written or read

vars == <<pin, simulated, value, last, shown, enabled, edge, sent, task, client, lost, synced, changes,
          flagVars>>

Edges    == {"none", "falling", "rising", "both"}
NoLevel  == [read |-> FALSE, level |-> FALSE]
NoClient == [doing |-> "nothing", input |-> "none", level |-> FALSE]

\* A simulated magnet is near when the value is true, and the pin is then low.
Inverted(i, level) == IF i = "magnet" THEN ~level ELSE level

\* A pin that is not connected reads low.
LiveLevel(i) == enabled[i] /\ pin[i]

\* BSP_PinGet.
PinGet(i) == IF simulated[i] THEN Inverted(i, value[i]) ELSE LiveLevel(i)

\* What UpdateDin1, UpdateMagnet and TamperSwitchStatus store of a level.
Stored(i, level) == Inverted(i, level)

\* The digital input is powered at boot and does not interrupt before it is configured; the tasks
\* have just read the switches for the first time.
Init ==
  /\ pin \in [Inputs -> BOOLEAN]
  /\ simulated = [i \in Inputs |-> FALSE]
  /\ value = [i \in Inputs |-> FALSE]
  /\ last = [i \in Inputs |-> FALSE]
  /\ shown = [i \in Inputs |-> FALSE]
  /\ enabled = [i \in Inputs |-> TRUE]
  /\ edge = [i \in Inputs |-> IF i = "din" THEN "none" ELSE "both"]
  /\ sent = [i \in Inputs |-> 0]
  /\ task = [i \in Inputs |-> IF i = "din" THEN NoLevel ELSE [read |-> TRUE, level |-> pin[i]]]
  /\ client = NoClient
  /\ lost = FALSE
  /\ synced = [i \in Inputs |-> FALSE]
  /\ changes = 0
  /\ FlagsInit

----------------------------------------------------------------------------
(* Interrupts                                                              *)

MutantOneTooMany(i) == sent[i] <= QueueDepth
HasRoom(i) == sent[i] < QueueDepth

\* SendDigitalInputStatus, Button1HandlerIsr, Button2HandlerIsr.
Send(i) ==
  \/ HasRoom(i) /\ sent' = [sent EXCEPT ![i] = @ + 1] /\ UNCHANGED lost
  \/ (PoolMayFail \/ ~HasRoom(i)) /\ lost' = TRUE /\ UNCHANGED sent

SendIf(needed, i) == IF needed THEN Send(i) ELSE UNCHANGED <<sent, lost>>

\* The port interrupts on the edges it is configured for.
Interrupts(i, level) ==
  enabled[i] /\ edge[i] \in (IF level THEN {"rising", "both"} ELSE {"falling", "both"})

Change == changes < MaxChanges /\ changes' = changes + 1

PinMoves(i) ==
  /\ Change
  /\ pin' = [pin EXCEPT ![i] = ~@]
  /\ SendIf(Interrupts(i, ~pin[i]), i)
  /\ UNCHANGED <<simulated, value, last, shown, enabled, edge, task, client, synced, flagVars>>

----------------------------------------------------------------------------
(* The task                                                                *)

TaskOf(i)   == IF i = "tamper" THEN "UserInterfaceTask" ELSE "SensorTask"
TaskFree(i) == ~InFlagsSet(TaskOf(i)) /\ \A j \in Inputs : TaskOf(j) = TaskOf(i) => task[j] = NoLevel

\* SensorTaskDigitalInAlarmMsgHandler, MagnetStateMsgHandler, TamperMsgHandler: the pin is read;
\* a digital input only if it is enabled.
HandleMessage(i) ==
  /\ sent[i] > 0 /\ TaskFree(i)
  /\ sent' = [sent EXCEPT ![i] = @ - 1]
  /\ task' = IF enabled[i] THEN [task EXCEPT ![i] = [read |-> TRUE, level |-> PinGet(i)]] ELSE task
  /\ UNCHANGED <<pin, simulated, value, last, shown, enabled, edge, client, lost, synced, changes, flagVars>>

\* The client is about to store a level of the input, or to set its flag.
Reading(i) == \/ client.doing = "read" /\ client.input = i
              \/ calls["client"].bit = i

\* What was read is stored in the attribute, and the flag is about to be set.
StoreLevel(i) ==
  /\ task[i] # NoLevel
  /\ shown' = [shown EXCEPT ![i] = Stored(i, task[i].level)]
  /\ task' = [task EXCEPT ![i] = NoLevel]
  /\ Flags_Set(TaskOf(i), i, Stored(i, task[i].level))
  /\ synced' = [synced EXCEPT ![i] = ~Reading(i)]
  /\ UNCHANGED <<pin, simulated, value, last, enabled, edge, sent, client, lost, changes>>

\* SensorTaskDigitalInConfigMsgHandler: a client has written digital_input_N_config.
ConfigureDigitalInputs ==
  /\ "din" \in Inputs /\ TaskFree("din")
  /\ Change
  /\ \E e \in Edges : edge' = [edge EXCEPT !["din"] = e]
  /\ \E on \in BOOLEAN : enabled' = [enabled EXCEPT !["din"] = on]
  /\ synced' = [synced EXCEPT !["din"] = FALSE]
  /\ UNCHANGED <<pin, simulated, value, last, shown, sent, task, client, lost, flagVars>>

----------------------------------------------------------------------------
(* Clients                                                                 *)

ClientFree == client = NoClient /\ ~InFlagsSet("client")

\* DigitalInputIRQNeeded: a mask of both edges has a bit of each.
IRQNeeded(i, new, old) == edge[i] # "none" /\ new # old

\* av_din1simen, av_magsimen, av_tampsimen: the simulation starts from what is shown, and the
\* live level is kept before the attribute is set.
EnableSimulation(i) ==
  /\ ClientFree /\ ~simulated[i]
  /\ Change
  /\ value' = [value EXCEPT ![i] = shown[i]]
  /\ last' = [last EXCEPT ![i] = PinGet(i)]
  /\ client' = [NoClient EXCEPT !.doing = "enable", !.input = i]
  /\ UNCHANGED <<pin, simulated, shown, enabled, edge, sent, task, lost, synced, flagVars>>

SetSimulated ==
  /\ client.doing = "enable"
  /\ simulated' = [simulated EXCEPT ![client.input] = TRUE]
  /\ client' = NoClient
  /\ UNCHANGED <<pin, value, last, shown, enabled, edge, sent, task, lost, synced, changes, flagVars>>

\* The attribute is cleared first, so that the live level can be read.
DisableSimulation(i) ==
  /\ ClientFree /\ simulated[i]
  /\ Change
  /\ simulated' = [simulated EXCEPT ![i] = FALSE]
  /\ client' = [NoClient EXCEPT !.doing = "disable", !.input = i]
  /\ UNCHANGED <<pin, value, last, shown, enabled, edge, sent, task, lost, synced, flagVars>>

MutantSimulatedOnly(i, live) == IRQNeeded(i, live, last[i])
UpdateNeeded(i, live) == IRQNeeded(i, live, last[i]) \/ IRQNeeded(i, live, value[i])

\* BSP_UpdateDigitalInput1SimulatedStatus, UserInterfaceTask_Update...SwitchSimulatedStatus:
\* an interrupt is feigned if the live level differs from what it was or from the value.
UpdateSimulatedStatus ==
  /\ client.doing = "disable"
  /\ LET i == client.input IN SendIf(UpdateNeeded(i, PinGet(i)), i)
  /\ client' = NoClient
  /\ UNCHANGED <<pin, simulated, value, last, shown, enabled, edge, task, synced, changes, flagVars>>

\* av_din1sim, av_magsim, av_tampsim, and the ...SimulatedValue functions they call.
WriteSimulatedValue(i) ==
  /\ ClientFree
  /\ Change
  /\ value' = [value EXCEPT ![i] = ~@]
  /\ SendIf(simulated[i] /\ IRQNeeded(i, ~value[i], value[i]), i)
  /\ UNCHANGED <<pin, simulated, last, shown, enabled, edge, task, client, synced, flagVars>>

\* attr_prepare_digital_input: a client that reads digital_input has it updated first.
ReadDigitalInput ==
  /\ "din" \in Inputs /\ ClientFree
  /\ Change
  /\ client' = [doing |-> "read", input |-> "din", level |-> PinGet("din")]
  /\ UNCHANGED <<pin, simulated, value, last, shown, enabled, edge, sent, task, lost, synced, flagVars>>

StoreRead ==
  /\ client.doing = "read"
  /\ shown' = [shown EXCEPT ![client.input] = Stored(client.input, client.level)]
  /\ Flags_Set("client", client.input, Stored(client.input, client.level))
  /\ client' = NoClient
  /\ UNCHANGED <<pin, simulated, value, last, enabled, edge, sent, task, lost, synced, changes>>

----------------------------------------------------------------------------

Next ==
  \/ \E i \in Inputs : PinMoves(i) \/ HandleMessage(i) \/ StoreLevel(i)
  \/ ConfigureDigitalInputs
  \/ \E i \in Inputs : EnableSimulation(i) \/ DisableSimulation(i) \/ WriteSimulatedValue(i)
  \/ SetSimulated
  \/ UpdateSimulatedStatus
  \/ ReadDigitalInput
  \/ StoreRead
  \/ \E t \in Threads : FlagStep(t) /\ UNCHANGED <<pin, simulated, value, last, shown, enabled, edge,
                                                    sent, task, client, lost, synced, changes>>

Spec == Init /\ [][Next]_vars

----------------------------------------------------------------------------
(* Properties                                                              *)

\* The state has the types of the declarations.
TypeOK ==
  /\ pin \in [Inputs -> BOOLEAN]
  /\ simulated \in [Inputs -> BOOLEAN]
  /\ value \in [Inputs -> BOOLEAN]
  /\ last \in [Inputs -> BOOLEAN]
  /\ shown \in [Inputs -> BOOLEAN]
  /\ enabled \in [Inputs -> BOOLEAN]
  /\ edge \in [Inputs -> Edges]
  /\ sent \in [Inputs -> 0 .. QueueDepth]
  /\ task \in [Inputs -> [read : BOOLEAN, level : BOOLEAN]]
  /\ client \in [doing : {"nothing", "enable", "disable", "read"}, input : Inputs \cup {"none"},
                 level : BOOLEAN]
  /\ lost \in BOOLEAN
  /\ synced \in [Inputs -> BOOLEAN]
  /\ changes \in 0 .. MaxChanges
  /\ FlagsTypeOK

\* Nothing of input i is under way: no message was dropped, none waits, the task was the only one
\* to store the input, and it interrupts on both edges and is not simulated.
Settled(i) ==
  /\ ~lost /\ synced[i] /\ edge[i] = "both" /\ enabled[i]
  /\ ~simulated[i] /\ ~(client.doing = "disable" /\ client.input = i)
  /\ sent[i] = 0 /\ task[i] = NoLevel

\* A settled digital input or tamper switch shows its pin, whatever the pin and the simulation did
\* before.
InputShown == \A i \in Inputs \ {"magnet"} : Settled(i) => shown[i] = Stored(i, pin[i])

\* So does the flag that is advertised, unless it is just being set, whatever the flags are that
\* other threads set at the same time.
FlagShown ==
  \A i \in Inputs \ {"magnet"} :
    Settled(i) /\ (\A t \in Threads : calls[t].bit # i) => word[i] = Stored(i, pin[i])

----------------------------------------------------------------------------
(* What a comment of the source says of it                                 *)

\* "If simulation has been disabled we need to know whether we need to update the live value"
\* (UserInterfaceTask.c, UserInterfaceTask_UpdateMagSwitchSimulatedStatus): a settled magnet
\* switch shows its pin.
MagnetShown == \A i \in Inputs \cap {"magnet"} : Settled(i) => shown[i] = Stored(i, pin[i])
=============================================================================
