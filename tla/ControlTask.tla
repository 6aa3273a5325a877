---------------------------- MODULE ControlTask ----------------------------
(***************************************************************************)
(* The control task of src/ControlTask.c and the RAM of src/NonInit.c that *)
(* survives a reset: the heartbeat, the factory reset, the software reset  *)
(* and what is saved before it, and the clock that is put right after it.  *)
(*                                                                         *)
(* Time passes in ticks, Second of them a second; the clock counts whole   *)
(* seconds, and so does everything that is saved of it.  One attribute     *)
(* stands for the configuration.  The clock library and the attribute      *)
(* library are external and modelled by what the task needs of them.  A    *)
(* definition whose name starts with Mutant is a plausible slip in the one *)
(* below it, used by no specification.                                     *)
(***************************************************************************)
EXTENDS Integers, Sequences

CONSTANTS Second,           \* MS_TO_SECONDS_DIVISOR: ticks in a second
          SanityCheck,      \* BOOTLOADER_MAX_TIME_SANITY_CHECK
          BootloaderTimes,  \* how long the bootloader may take
          QueueDepth,       \* CONTROL_TASK_QUEUE_DEPTH
          PoolMayFail,      \* whether BufferPool_Take can find the pool exhausted
          MaxTime,          \* bound: ticks the model follows
          MaxResets         \* bound: how often the device is reset

ASSUME ControlTaskAssumption ==
  /\ Second \in Nat \ {0}
  /\ SanityCheck \in Nat
  /\ BootloaderTimes \subseteq Nat
  /\ QueueDepth \in Nat \ {0}
  /\ PoolMayFail \in BOOLEAN
  /\ MaxTime \in Nat
  /\ MaxResets \in Nat

VARIABLES
  phase,      \* where the device is between two resets
  now,        \* history: the true time
  uptime,     \* k_uptime_get
  offset,     \* the clock library: the epoch at start-up
  nird,       \* pnird, the RAM that is not initialised
  config,     \* the attribute, and what is saved of it
  written,    \* history: the attribute as it was last written, or reloaded after a crash
  factory,    \* cto.factoryResetFlag
  heartbeat,  \* whether the heartbeat timer runs
  controlQ,   \* controlTaskQueue
  lost,       \* history: a message to the task was dropped since the last reset
  clock,      \* history: whether the clock was set, and pnird->qrtc written since
  savedAt,    \* history: when pnird->qrtc was last written
  missed,     \* history: ticks the clock could not know of since it was set
  resets      \* how often the device has been reset

vars == <<phase, now, uptime, offset, nird, config, written, factory, heartbeat, controlQ, lost, clock,
          savedAt, missed, resets>>

Codes == {"PERIODIC", "SOFTWARE_RESET", "FACTORY_RESET"}

\* lcz_qrtc_get_epoch: whole seconds.
Epoch == offset + uptime \div Second

\* What becomes of the clock when pnird->qrtc is written.
Kept == IF clock = "unset" THEN "unset" ELSE "kept"

Init ==
  /\ phase = "bootloader"
  /\ now = 0
  /\ uptime = 0
  /\ offset = 0
  /\ nird = [valid |-> FALSE, qrtc |-> 0, bootloader_time |-> 0]
  /\ config = [ram |-> "default", saved |-> "default"]
  /\ written = "default"
  /\ factory = FALSE
  /\ heartbeat = FALSE
  /\ controlQ = <<>>
  /\ lost = FALSE
  /\ clock = "unset"
  /\ savedAt = 0
  /\ missed = 0
  /\ resets = 0

----------------------------------------------------------------------------
(* Messages and time                                                       *)

MutantOneTooMany(q) == Len(q) <= QueueDepth
HasRoom(q) == Len(q) < QueueDepth

Post(q, code) ==
  \/ HasRoom(q) /\ controlQ' = Append(q, code) /\ UNCHANGED lost
  \/ (PoolMayFail \/ ~HasRoom(q)) /\ controlQ' = q /\ lost' = TRUE

Receives(code) == phase = "running" /\ controlQ # <<>> /\ Head(controlQ) = code

HasMsg(code) == \E i \in DOMAIN controlQ : controlQ[i] = code

Tick ==
  /\ phase # "bootloader" /\ now < MaxTime
  /\ now' = now + 1
  /\ uptime' = uptime + 1
  /\ UNCHANGED <<phase, offset, nird, config, written, factory, heartbeat, controlQ, lost, clock,
                 savedAt, missed, resets>>

\* The heartbeat timer expires.
HeartbeatTimer ==
  /\ heartbeat /\ heartbeat' = FALSE
  /\ Post(controlQ, "PERIODIC")
  /\ UNCHANGED <<phase, now, uptime, offset, nird, config, written, factory, clock, savedAt,
                 missed, resets>>

----------------------------------------------------------------------------
(* Start-up                                                                *)

\* The bootloader: non_init_set_bootloader_time clears the RAM first if it is not valid.
Bootloader ==
  /\ phase = "bootloader" /\ phase' = "starting"
  /\ \E time \in BootloaderTimes :
       /\ now' = now + time
       /\ nird' = [valid |-> TRUE, qrtc |-> IF nird.valid THEN nird.qrtc ELSE 0,
                   bootloader_time |-> time]
       /\ missed' = IF time >= SanityCheck THEN missed + time ELSE missed
  /\ uptime' = 0 /\ offset' = 0
  /\ config' = [config EXCEPT !.ram = config.saved]
  /\ factory' = FALSE
  /\ controlQ' = <<>> /\ lost' = FALSE /\ heartbeat' = FALSE
  /\ UNCHANGED <<written, clock, savedAt, resets>>

\* A bootloader time that is not believed counts as none.
Believed(time) == IF time >= SanityCheck THEN 0 ELSE time

\* What the clock had been, and the time since in whole seconds.
MutantNoBootloaderTime == nird.qrtc + uptime \div Second
RestoredEpoch == nird.qrtc + (Believed(nird.bootloader_time) + uptime) \div Second

\* RebootHandler, and the rest of ControlTaskThread up to its loop.
RebootHandler ==
  /\ phase = "starting" /\ phase' = "running"
  /\ IF nird.qrtc > 0
     THEN /\ nird' = [nird EXCEPT !.qrtc = RestoredEpoch, !.bootloader_time = 0]
          /\ offset' = RestoredEpoch - uptime \div Second
          /\ clock' = Kept
     ELSE /\ nird' = [nird EXCEPT !.bootloader_time = 0]
          /\ clock' = "unset"
          /\ UNCHANGED offset
  /\ savedAt' = now
  /\ heartbeat' = TRUE
  /\ UNCHANGED <<now, uptime, config, written, factory, controlQ, lost, missed, resets>>

----------------------------------------------------------------------------
(* The message handlers                                                    *)

\* Framework_StartTimer comes last in the handler.
MutantOneBeat == FALSE
AfterHeartbeat == TRUE

HeartbeatMsgHandler ==
  /\ Receives("PERIODIC")
  /\ controlQ' = Tail(controlQ)
  /\ IF factory
     THEN UNCHANGED <<nird, savedAt, clock>>
     ELSE nird' = [nird EXCEPT !.qrtc = Epoch] /\ savedAt' = now /\ clock' = Kept
  /\ heartbeat' = AfterHeartbeat
  /\ UNCHANGED <<phase, now, uptime, offset, config, written, factory, lost, missed, resets>>

\* attr_factory_reset, and a message to the task itself.
FactoryResetMsgHandler ==
  /\ Receives("FACTORY_RESET")
  /\ factory' = TRUE
  /\ config' = [ram |-> "default", saved |-> "default"]
  /\ written' = "default"
  /\ Post(Tail(controlQ), "SOFTWARE_RESET")
  /\ UNCHANGED <<phase, now, uptime, offset, nird, heartbeat, clock, savedAt, missed, resets>>

\* app_prepare_for_reboot: attr_force_save, and non_init_save_data.
Saved(attribute) == [attribute EXCEPT !.saved = attribute.ram]

\* The task then sleeps for 5 seconds.
SoftwareResetMsgHandler ==
  /\ Receives("SOFTWARE_RESET")
  /\ controlQ' = Tail(controlQ)
  /\ phase' = "resetting"
  /\ config' = Saved(config)
  /\ nird' = [nird EXCEPT !.qrtc = IF factory THEN 0 ELSE Epoch]
  /\ savedAt' = now
  /\ clock' = Kept
  /\ UNCHANGED <<now, uptime, offset, written, factory, heartbeat, lost, missed, resets>>

----------------------------------------------------------------------------
(* Resets                                                                  *)

\* Whether the start-up has come as far as task_started.
TaskStarted == phase \in {"running", "resetting"}

MutantSavedOnce(attribute) == attribute
SavedByNotification(attribute) == Saved(attribute)

\* sys_reboot, at the end of the software reset or for a client: sys_reboot_notification
\* prepares for the reboot once more.
Reboot ==
  /\ TaskStarted
  /\ resets < MaxResets /\ resets' = resets + 1
  /\ phase' = "bootloader"
  /\ config' = SavedByNotification(config)
  /\ nird' = [nird EXCEPT !.qrtc = Epoch]
  /\ savedAt' = now
  /\ clock' = Kept
  /\ UNCHANGED <<now, uptime, offset, written, factory, heartbeat, controlQ, lost, missed>>

\* A client has uploaded an image: what a reboot needs is saved, for the client resets the
\* device next. The attribute boot_phy, written here, is modelled with the BLE task.
mcumgr_mgmt_callback ==
  /\ TaskStarted
  /\ config' = Saved(config)
  /\ nird' = [nird EXCEPT !.qrtc = Epoch]
  /\ savedAt' = now
  /\ clock' = Kept
  /\ UNCHANGED <<phase, now, uptime, offset, written, factory, heartbeat, controlQ, lost, missed,
                 resets>>

\* The watchdog, a fault or the reset pin: nothing is saved, and the RAM is not valid if it
\* was being written. A reboot before task_started saves nothing either.
Crash ==
  /\ phase # "bootloader"
  /\ resets < MaxResets /\ resets' = resets + 1
  /\ phase' = "bootloader"
  /\ \E torn \in BOOLEAN : nird' = [nird EXCEPT !.valid = ~torn]
  /\ missed' = missed + (now - savedAt)
  /\ clock' = IF clock = "set" THEN "unset" ELSE clock
  /\ written' = config.saved
  /\ UNCHANGED <<now, uptime, offset, config, factory, heartbeat, controlQ, lost, savedAt>>

----------------------------------------------------------------------------
(* Clients and the other tasks                                             *)

\* A client sets the clock, to the second.
SetTime ==
  /\ TaskStarted /\ now \div Second > 0
  /\ offset' = now \div Second - uptime \div Second
  /\ clock' = "set"
  /\ missed' = 0
  /\ UNCHANGED <<phase, now, uptime, nird, config, written, factory, heartbeat, controlQ, lost,
                 savedAt, resets>>

WriteConfig ==
  /\ phase # "bootloader"
  /\ \E v \in {"default", "changed"} \ {config.ram} :
       config' = [config EXCEPT !.ram = v] /\ written' = v
  /\ UNCHANGED <<phase, now, uptime, offset, nird, factory, heartbeat, controlQ, lost, clock,
                 savedAt, missed, resets>>

\* The attribute library saves what was changed a while ago.
DeferredSave ==
  /\ phase # "bootloader" /\ config.saved # config.ram
  /\ config' = Saved(config)
  /\ UNCHANGED <<phase, now, uptime, offset, nird, written, factory, heartbeat, controlQ, lost,
                 clock, savedAt, missed, resets>>

\* The user interface task asks for a factory reset, or the sensor task for a software reset.
Request ==
  /\ phase = "running"
  /\ \E code \in {"FACTORY_RESET", "SOFTWARE_RESET"} : ~HasMsg(code) /\ Post(controlQ, code)
  /\ UNCHANGED <<phase, now, uptime, offset, nird, config, written, factory, heartbeat, clock,
                 savedAt, missed, resets>>

----------------------------------------------------------------------------

Next ==
  \/ Tick
  \/ HeartbeatTimer
  \/ Bootloader
  \/ RebootHandler
  \/ HeartbeatMsgHandler
  \/ FactoryResetMsgHandler
  \/ SoftwareResetMsgHandler
  \/ Reboot
  \/ mcumgr_mgmt_callback
  \/ Crash
  \/ SetTime
  \/ WriteConfig
  \/ DeferredSave
  \/ Request

Spec == Init /\ [][Next]_vars

----------------------------------------------------------------------------
(* Properties                                                              *)

\* The state has the types of the declarations, and the queue its depth.
TypeOK ==
  /\ phase \in {"bootloader", "starting", "running", "resetting"}
  /\ now \in Nat
  /\ uptime \in 0 .. MaxTime
  /\ offset \in Int
  /\ nird \in [valid : BOOLEAN, qrtc : Nat, bootloader_time : BootloaderTimes \cup {0}]
  /\ config \in [ram : {"default", "changed"}, saved : {"default", "changed"}]
  /\ written \in {"default", "changed"}
  /\ factory \in BOOLEAN
  /\ heartbeat \in BOOLEAN
  /\ controlQ \in Seq(Codes) /\ Len(controlQ) <= QueueDepth
  /\ lost \in BOOLEAN
  /\ clock \in {"unset", "set", "kept"}
  /\ savedAt \in Nat
  /\ missed \in Nat
  /\ resets \in 0 .. MaxResets

\* By how many ticks the clock is ahead of the true time.
Ahead == Epoch * Second - now

\* A clock that was set stays right through resets of every kind. It gains less than a second
\* for the setting and for each reset. It loses less than two, since the fractions of seconds
\* are cut off before and after it, besides the ticks it could not know of: those between the
\* last save and a crash, and those of a bootloader time that is not believed.
ClockTracks ==
  phase = "running" /\ clock # "unset" =>
    /\ Ahead <= (resets + 1) * (Second - 1)
    /\ Ahead >= -(missed + 2 * (resets + 1) * (Second - 1))

\* The device has the configuration as clients or a factory reset left it, before and after any
\* number of resets, though clients write while the software reset sleeps and in the start-up:
\* only a crash takes away what was not saved by then.
ConfigSurvives == phase # "bootloader" => config.ram = written

\* As long as no message is dropped, the heartbeat goes on, during a factory reset too.
HeartbeatGoesOn == phase = "running" /\ ~lost => heartbeat \/ HasMsg("PERIODIC")
=============================================================================
