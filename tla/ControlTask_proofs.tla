------------------------- MODULE ControlTask_proofs --------------------------
(***************************************************************************)
(* Proofs about the control task, for any length of a second in ticks, any *)
(* bootloader times, depth of the queue, losses and number of resets.      *)
(***************************************************************************)
EXTENDS ControlTask, TLAPS

----------------------------------------------------------------------------
(* Arithmetic                                                              *)

\* Whole seconds are at most a second less than the ticks.
LEMMA WholeSeconds ==
  ASSUME NEW n \in Nat
  PROVE  /\ n \div Second \in Nat
         /\ (n \div Second) * Second <= n
         /\ n <= (n \div Second) * Second + (Second - 1)
  BY ControlTaskAssumption

\* The longer time has at least as many whole seconds.
LEMMA SecondsMonotone ==
  ASSUME NEW m \in Nat, NEW n \in Nat, m <= n
  PROVE  m \div Second <= n \div Second
<1>1. /\ m \div Second \in Nat /\ (m \div Second) * Second <= m
      /\ n \div Second \in Nat /\ n <= (n \div Second) * Second + (Second - 1)
      BY WholeSeconds
<1>2. Second \in Nat /\ Second > 0
      BY ControlTaskAssumption
<1>3. SUFFICES ASSUME m \div Second >= n \div Second + 1
               PROVE  FALSE
      BY <1>1
<1>4. \A a, b, c \in Nat : a >= b + 1 => a * c >= b * c + c
      OBVIOUS
<1>5. (m \div Second) * Second >= (n \div Second) * Second + Second
      BY <1>1, <1>2, <1>3, <1>4
<1>6. (n \div Second) * Second \in Nat /\ (m \div Second) * Second \in Nat
      BY <1>1, <1>2
<1> QED
    BY <1>1, <1>2, <1>5, <1>6

----------------------------------------------------------------------------
(* Types                                                                   *)

\* What bounds the clock: the device is not up for longer than time has passed, and nothing was
\* saved in the future.
Clocked == uptime <= now /\ savedAt <= now /\ offset >= 0

Typed == TypeOK /\ Clocked

\* The clock counts from an epoch that is not negative.
LEMMA EpochType == Typed => Epoch \in Nat
<1> SUFFICES ASSUME Typed
             PROVE  Epoch \in Nat
    OBVIOUS
<1>1. uptime \in Nat /\ offset \in Nat
      BY ControlTaskAssumption DEF Typed, TypeOK, Clocked
<1>2. uptime \div Second \in Nat
      BY <1>1, WholeSeconds
<1> QED
    BY <1>1, <1>2 DEF Epoch

\* So does the clock that is put right after a reset, and from then on.
LEMMA RestoredType ==
  Typed => RestoredEpoch \in Nat /\ RestoredEpoch - uptime \div Second \in Nat
<1> SUFFICES ASSUME Typed
             PROVE  RestoredEpoch \in Nat /\ RestoredEpoch - uptime \div Second \in Nat
    OBVIOUS
<1> DEFINE b == Believed(nird.bootloader_time)
<1>1. b \in Nat /\ uptime \in Nat /\ nird.qrtc \in Nat
  <2>1. uptime \in Nat /\ nird.qrtc \in Nat
        BY ControlTaskAssumption DEF Typed, TypeOK
  <2>2. nird.bootloader_time \in BootloaderTimes \cup {0}
        BY DEF Typed, TypeOK
  <2>3. nird.bootloader_time \in Nat
    <3>1. BootloaderTimes \subseteq Nat
          BY ControlTaskAssumption
    <3>2. \A n \in BootloaderTimes \cup {0} : n \in Nat
          BY <3>1
    <3> QED
        BY <2>2, <3>2, Zenon
  <2> QED
      BY <2>1, <2>3 DEF Believed
<1>2. RestoredEpoch = nird.qrtc + (b + uptime) \div Second
      BY DEF RestoredEpoch
<1> HIDE DEF b
<1>3. uptime \div Second <= (b + uptime) \div Second
      BY <1>1, SecondsMonotone
<1>4. (b + uptime) \div Second \in Nat /\ uptime \div Second \in Nat
      BY <1>1, WholeSeconds
<1> QED
    BY <1>1, <1>2, <1>3, <1>4

\* A message that is posted, or dropped, keeps the type of the queue.
LEMMA PostType ==
  ASSUME NEW q \in Seq(Codes), Len(q) <= QueueDepth, NEW code \in Codes, Post(q, code),
         lost \in BOOLEAN
  PROVE  controlQ' \in Seq(Codes) /\ Len(controlQ') <= QueueDepth /\ lost' \in BOOLEAN
<1>1. CASE HasRoom(q) /\ controlQ' = Append(q, code) /\ UNCHANGED lost
      BY <1>1, ControlTaskAssumption DEF HasRoom
<1>2. CASE controlQ' = q /\ lost' = TRUE
      BY <1>2
<1> QED
    BY <1>1, <1>2 DEF Post

\* A message that is taken leaves a queue.
LEMMA TailType ==
  ASSUME TypeOK, controlQ # <<>>
  PROVE  Tail(controlQ) \in Seq(Codes) /\ Len(Tail(controlQ)) <= QueueDepth
  BY ControlTaskAssumption DEF TypeOK

\* The initial states are well-typed.
LEMMA InitTyped == Init => Typed
<1> SUFFICES ASSUME Init
             PROVE  Typed
    OBVIOUS
<1> USE ControlTaskAssumption DEF Init
<1>1. /\ now \in Nat /\ uptime \in 0 .. MaxTime /\ offset \in Int
      /\ savedAt \in Nat /\ missed \in Nat /\ resets \in 0 .. MaxResets
      /\ controlQ \in Seq(Codes) /\ Len(controlQ) <= QueueDepth
      OBVIOUS
<1>2. /\ nird \in [valid : BOOLEAN, qrtc : Nat, bootloader_time : BootloaderTimes \cup {0}]
      /\ config \in [ram : {"default", "changed"}, saved : {"default", "changed"}]
      /\ phase \in {"bootloader", "starting", "running", "resetting"}
      /\ clock \in {"unset", "set", "kept"}
      OBVIOUS
<1>3. factory \in BOOLEAN /\ heartbeat \in BOOLEAN /\ lost \in BOOLEAN
      BY Zenon
<1>4. Clocked
      BY DEF Clocked
<1> QED
    BY <1>1, <1>2, <1>3, <1>4, Zenon DEF Typed, TypeOK

\* A step that saves the clock, or the configuration, keeps their types.
LEMMA SavedType ==
  ASSUME Typed
  PROVE  /\ Saved(config) \in [ram : {"default", "changed"}, saved : {"default", "changed"}]
         /\ [nird EXCEPT !.qrtc = Epoch] \in
              [valid : BOOLEAN, qrtc : Nat, bootloader_time : BootloaderTimes \cup {0}]
         /\ Kept \in {"unset", "kept"}
<1>1. Epoch \in Nat
      BY EpochType
<1> QED
    BY <1>1 DEF Typed, TypeOK, Saved, Kept

\* Every step keeps the types.
LEMMA NextTyped == Typed /\ [Next]_vars => Typed'
<1> SUFFICES ASSUME Typed, [Next]_vars
             PROVE  Typed'
    OBVIOUS
<1> USE ControlTaskAssumption
<1>0. /\ TypeOK /\ Clocked /\ now \in Nat /\ uptime \in 0 .. MaxTime /\ uptime \in Nat
      /\ offset \in Nat /\ savedAt \in Nat /\ missed \in Nat /\ resets \in 0 .. MaxResets
      BY DEF Typed, TypeOK, Clocked
<1>1. CASE Tick
  <2>1. now' \in Nat /\ uptime' \in 0 .. MaxTime /\ Clocked'
        BY <1>0, <1>1 DEF Tick, Clocked
  <2> QED
      BY <1>0, <1>1, <2>1, Zenon DEF Tick, Typed, TypeOK
<1>2. CASE HeartbeatTimer
  <2>1. controlQ' \in Seq(Codes) /\ Len(controlQ') <= QueueDepth /\ lost' \in BOOLEAN
        BY <1>0, <1>2, PostType DEF HeartbeatTimer, TypeOK, Codes
  <2>2. Clocked'
        BY <1>0, <1>2, Zenon DEF HeartbeatTimer, Clocked
  <2> QED
      BY <1>0, <1>2, <2>1, <2>2, Zenon DEF HeartbeatTimer, Typed, TypeOK
<1>3. CASE Bootloader
  <2>1. PICK time \in BootloaderTimes :
          /\ now' = now + time
          /\ nird' = [valid |-> TRUE, qrtc |-> IF nird.valid THEN nird.qrtc ELSE 0,
                      bootloader_time |-> time]
          /\ missed' = IF time >= SanityCheck THEN missed + time ELSE missed
        BY <1>3 DEF Bootloader
  <2>2. now' \in Nat /\ missed' \in Nat /\ uptime' \in 0 .. MaxTime /\ offset' \in Int /\ Clocked'
        BY <1>0, <1>3, <2>1 DEF Bootloader, Clocked
  <2>3. /\ nird' \in [valid : BOOLEAN, qrtc : Nat, bootloader_time : BootloaderTimes \cup {0}]
        /\ config' \in [ram : {"default", "changed"}, saved : {"default", "changed"}]
        BY <1>0, <1>3, <2>1 DEF Bootloader, TypeOK
  <2>4. controlQ' \in Seq(Codes) /\ Len(controlQ') <= QueueDepth
        BY <1>3 DEF Bootloader
  <2>5. /\ phase' \in {"bootloader", "starting", "running", "resetting"}
        /\ factory' \in BOOLEAN /\ heartbeat' \in BOOLEAN /\ lost' \in BOOLEAN
        BY <1>3, Zenon DEF Bootloader
  <2> QED
      BY <1>0, <1>3, <2>2, <2>3, <2>4, <2>5, Zenon DEF Bootloader, Typed, TypeOK
<1>4. CASE RebootHandler
  <2>1. /\ nird' \in [valid : BOOLEAN, qrtc : Nat, bootloader_time : BootloaderTimes \cup {0}]
        /\ offset' \in Nat
        BY <1>0, <1>4, RestoredType DEF RebootHandler, Typed, TypeOK
  <2>2. clock' \in {"unset", "set", "kept"} /\ savedAt' \in Nat /\ offset' \in Int /\ Clocked'
        BY <1>0, <1>4, <2>1 DEF RebootHandler, Kept, TypeOK, Clocked
  <2>3. /\ phase' \in {"bootloader", "starting", "running", "resetting"}
        /\ heartbeat' \in BOOLEAN
        BY <1>4, Zenon DEF RebootHandler
  <2> QED
      BY <1>0, <1>4, <2>1, <2>2, <2>3, Zenon DEF RebootHandler, Typed, TypeOK
<1>5. CASE HeartbeatMsgHandler
  <2>1. controlQ' \in Seq(Codes) /\ Len(controlQ') <= QueueDepth
        BY <1>0, <1>5, TailType DEF HeartbeatMsgHandler, Receives
  <2>2. /\ nird' \in [valid : BOOLEAN, qrtc : Nat, bootloader_time : BootloaderTimes \cup {0}]
        /\ clock' \in {"unset", "set", "kept"} /\ savedAt' \in Nat /\ Clocked'
        BY <1>0, <1>5, SavedType DEF HeartbeatMsgHandler, Typed, TypeOK, Clocked
  <2>3. heartbeat' \in BOOLEAN
        BY <1>5, Zenon DEF HeartbeatMsgHandler, AfterHeartbeat
  <2> QED
      BY <1>0, <1>5, <2>1, <2>2, <2>3, Zenon DEF HeartbeatMsgHandler, Typed, TypeOK
<1>6. CASE FactoryResetMsgHandler
  <2>1. controlQ' \in Seq(Codes) /\ Len(controlQ') <= QueueDepth /\ lost' \in BOOLEAN
        BY <1>0, <1>6, TailType, PostType DEF FactoryResetMsgHandler, Receives, TypeOK, Codes
  <2>2. /\ config' \in [ram : {"default", "changed"}, saved : {"default", "changed"}]
        /\ Clocked'
        BY <1>0, <1>6 DEF FactoryResetMsgHandler, Clocked
  <2>3. factory' \in BOOLEAN
        BY <1>6, Zenon DEF FactoryResetMsgHandler
  <2> QED
      BY <1>0, <1>6, <2>1, <2>2, <2>3, Zenon DEF FactoryResetMsgHandler, Typed, TypeOK
<1>7. CASE SoftwareResetMsgHandler
  <2>1. controlQ' \in Seq(Codes) /\ Len(controlQ') <= QueueDepth
        BY <1>0, <1>7, TailType DEF SoftwareResetMsgHandler, Receives
  <2>2. nird' \in [valid : BOOLEAN, qrtc : Nat, bootloader_time : BootloaderTimes \cup {0}]
        BY <1>0, <1>7, EpochType DEF SoftwareResetMsgHandler, Typed, TypeOK
  <2>3. /\ config' \in [ram : {"default", "changed"}, saved : {"default", "changed"}]
        /\ clock' \in {"unset", "set", "kept"} /\ savedAt' \in Nat /\ Clocked'
        /\ phase' \in {"bootloader", "starting", "running", "resetting"}
        BY <1>0, <1>7, SavedType DEF SoftwareResetMsgHandler, Clocked
  <2> QED
      BY <1>0, <1>7, <2>1, <2>2, <2>3, Zenon DEF SoftwareResetMsgHandler, Typed, TypeOK
<1>8. CASE Reboot
  <2>1. /\ nird' \in [valid : BOOLEAN, qrtc : Nat, bootloader_time : BootloaderTimes \cup {0}]
        /\ config' \in [ram : {"default", "changed"}, saved : {"default", "changed"}]
        /\ clock' \in {"unset", "set", "kept"} /\ savedAt' \in Nat /\ Clocked'
        /\ phase' \in {"bootloader", "starting", "running", "resetting"}
        BY <1>0, <1>8, SavedType DEF Reboot, SavedByNotification, Clocked
  <2>2. resets' \in 0 .. MaxResets
        BY <1>0, <1>8 DEF Reboot
  <2> QED
      BY <1>0, <1>8, <2>1, <2>2, Zenon DEF Reboot, Typed, TypeOK
<1>9. CASE mcumgr_mgmt_callback
  <2>1. /\ nird' \in [valid : BOOLEAN, qrtc : Nat, bootloader_time : BootloaderTimes \cup {0}]
        /\ config' \in [ram : {"default", "changed"}, saved : {"default", "changed"}]
        /\ clock' \in {"unset", "set", "kept"} /\ savedAt' \in Nat /\ Clocked'
        BY <1>0, <1>9, SavedType DEF mcumgr_mgmt_callback, Clocked
  <2> QED
      BY <1>0, <1>9, <2>1, Zenon DEF mcumgr_mgmt_callback, Typed, TypeOK
<1>10. CASE Crash
  <2>1. nird' \in [valid : BOOLEAN, qrtc : Nat, bootloader_time : BootloaderTimes \cup {0}]
    <3>1. PICK torn \in BOOLEAN : nird' = [nird EXCEPT !.valid = ~torn]
          BY <1>10 DEF Crash
    <3>2. (~torn) \in BOOLEAN
          BY Zenon
    <3> QED
        BY <1>0, <3>1, <3>2 DEF TypeOK
  <2>2. resets' \in 0 .. MaxResets /\ missed' \in Nat /\ Clocked'
        BY <1>0, <1>10 DEF Crash, Clocked
  <2>3. /\ clock' \in {"unset", "set", "kept"}
        /\ phase' \in {"bootloader", "starting", "running", "resetting"}
        BY <1>0, <1>10 DEF Crash, TypeOK
  <2> QED
      BY <1>0, <1>10, <2>1, <2>2, <2>3, Zenon DEF Crash, Typed, TypeOK
<1>11. CASE SetTime
  <2>1. now \div Second \in Nat /\ uptime \div Second \in Nat
        /\ uptime \div Second <= now \div Second
        BY <1>0, WholeSeconds, SecondsMonotone DEF Clocked
  <2>2. /\ offset' \in Int /\ missed' \in Nat /\ clock' \in {"unset", "set", "kept"}
        /\ Clocked'
        BY <1>0, <1>11, <2>1 DEF SetTime, Clocked
  <2> QED
      BY <1>0, <1>11, <2>2, Zenon DEF SetTime, Typed, TypeOK
<1>12. CASE WriteConfig
  <2>1. config' \in [ram : {"default", "changed"}, saved : {"default", "changed"}]
        BY <1>0, <1>12 DEF WriteConfig, TypeOK
  <2>2. Clocked'
        BY <1>0, <1>12, Zenon DEF WriteConfig, Clocked
  <2> QED
      BY <1>0, <1>12, <2>1, <2>2, Zenon DEF WriteConfig, Typed, TypeOK
<1>13. CASE DeferredSave
  <2>1. config' \in [ram : {"default", "changed"}, saved : {"default", "changed"}]
        BY <1>13, SavedType DEF DeferredSave
  <2>2. Clocked'
        BY <1>0, <1>13, Zenon DEF DeferredSave, Clocked
  <2> QED
      BY <1>0, <1>13, <2>1, <2>2, Zenon DEF DeferredSave, Typed, TypeOK
<1>14. CASE Request
  <2>1. controlQ' \in Seq(Codes) /\ Len(controlQ') <= QueueDepth /\ lost' \in BOOLEAN
        BY <1>0, <1>14, PostType DEF Request, TypeOK, Codes
  <2>2. Clocked'
        BY <1>0, <1>14, Zenon DEF Request, Clocked
  <2> QED
      BY <1>0, <1>14, <2>1, <2>2, Zenon DEF Request, Typed, TypeOK
<1>15. CASE UNCHANGED vars
      BY <1>0, <1>15, Zenon DEF vars, Typed, TypeOK, Clocked
<1> QED
    BY <1>1, <1>2, <1>3, <1>4, <1>5, <1>6, <1>7, <1>8, <1>9, <1>10, <1>11, <1>12, <1>13, <1>14,
       <1>15 DEF Next

\* Typed is an invariant of the specification.
LEMMA TypedInvariant == Spec => []Typed
  BY InitTyped, NextTyped, PTL DEF Spec

\* Every reachable state of the control task is well-typed, and its queue keeps its depth.
THEOREM TypeCorrect == Spec => []TypeOK
<1>1. Typed => TypeOK
      BY DEF Typed
<1> QED
    BY <1>1, TypedInvariant, PTL

----------------------------------------------------------------------------
(* The configuration                                                       *)

\* The attribute is what was written, and while the bootloader runs and the attribute is yet to be
\* loaded, what is saved of it is.
ConfigInv == written = IF phase = "bootloader" THEN config.saved ELSE config.ram

\* ConfigInv is an invariant of the specification.
LEMMA ConfigInvariant == Spec => []ConfigInv
<1>1. Init => ConfigInv
      BY DEF Init, ConfigInv
<1>2. Typed /\ ConfigInv /\ [Next]_vars => ConfigInv'
  <2> SUFFICES ASSUME Typed, ConfigInv, [Next]_vars
               PROVE  ConfigInv'
      OBVIOUS
  <2>0. config \in [ram : {"default", "changed"}, saved : {"default", "changed"}]
        BY DEF Typed, TypeOK
  <2>1. CASE Bootloader
    <3>1. phase = "bootloader" /\ phase' = "starting" /\ written' = written
          BY <2>1 DEF Bootloader
    <3>2. config'.ram = config.saved
          BY <2>0, <2>1 DEF Bootloader
    <3> QED
        BY <3>1, <3>2 DEF ConfigInv
  <2>2. CASE Reboot
    <3>1. phase # "bootloader" /\ phase' = "bootloader" /\ written' = written
          BY <2>2 DEF Reboot, TaskStarted
    <3>2. config'.saved = config.ram
          BY <2>0, <2>2 DEF Reboot, SavedByNotification, Saved
    <3> QED
        BY <3>1, <3>2 DEF ConfigInv
  <2>3. CASE SoftwareResetMsgHandler \/ mcumgr_mgmt_callback \/ DeferredSave
    <3>1. phase # "bootloader" /\ phase' # "bootloader" /\ written' = written
          BY <2>3 DEF SoftwareResetMsgHandler, mcumgr_mgmt_callback, DeferredSave, Receives,
                      TaskStarted
    <3>2. config'.ram = config.ram
          BY <2>0, <2>3 DEF SoftwareResetMsgHandler, mcumgr_mgmt_callback, DeferredSave, Saved
    <3> QED
        BY <3>1, <3>2 DEF ConfigInv
  <2>4. CASE FactoryResetMsgHandler
        BY <2>4 DEF FactoryResetMsgHandler, Receives, ConfigInv
  <2>5. CASE WriteConfig
        BY <2>0, <2>5 DEF WriteConfig, ConfigInv
  <2>6. CASE Crash
        BY <2>6 DEF Crash, ConfigInv
  <2>7. CASE RebootHandler
        BY <2>7 DEF RebootHandler, ConfigInv
  <2>8. CASE \/ Tick \/ HeartbeatTimer \/ HeartbeatMsgHandler \/ SetTime \/ Request
             \/ UNCHANGED vars
    <3>1. phase' = phase /\ config' = config /\ written' = written
          BY <2>8, Zenon DEF Tick, HeartbeatTimer, HeartbeatMsgHandler, SetTime, Request, vars
    <3> QED
        BY <3>1 DEF ConfigInv
  <2> QED
      BY <2>1, <2>2, <2>3, <2>4, <2>5, <2>6, <2>7, <2>8 DEF Next
<1> QED
    BY <1>1, <1>2, TypedInvariant, PTL DEF Spec

\* The configuration survives any number of resets, whatever clients write between the save of a
\* software reset and the reboot, but for what a crash takes away.
THEOREM ConfigSurvivesResets == Spec => []ConfigSurvives
<1>1. ConfigInv => ConfigSurvives
      BY DEF ConfigInv, ConfigSurvives
<1> QED
    BY <1>1, ConfigInvariant, PTL

----------------------------------------------------------------------------
(* The heartbeat                                                           *)

\* Posting a message keeps those that wait.
LEMMA PostKeeps ==
  ASSUME NEW q \in Seq(Codes), NEW code \in Codes, NEW c \in Codes, Post(q, code),
         \E i \in DOMAIN q : q[i] = c
  PROVE  HasMsg(c)'
<1>1. PICK i \in DOMAIN q : q[i] = c
      OBVIOUS
<1>2. controlQ' = q \/ controlQ' = Append(q, code)
      BY DEF Post
<1>3. i \in DOMAIN controlQ' /\ controlQ'[i] = c
      BY <1>1, <1>2
<1> QED
    BY <1>3 DEF HasMsg

\* Taking a message keeps those with another code.
LEMMA TailKeeps ==
  ASSUME controlQ \in Seq(Codes), NEW c \in Codes, controlQ # <<>>, Head(controlQ) # c, HasMsg(c)
  PROVE  \E i \in DOMAIN Tail(controlQ) : Tail(controlQ)[i] = c
<1>1. PICK i \in DOMAIN controlQ : controlQ[i] = c
      BY DEF HasMsg
<1>2. i # 1
      BY <1>1
<1>3. i - 1 \in DOMAIN Tail(controlQ) /\ Tail(controlQ)[i - 1] = c
      BY <1>1, <1>2
<1> QED
    BY <1>3

\* As long as no message is dropped, the heartbeat goes on, during a factory reset too.
THEOREM HeartbeatAlive == Spec => []HeartbeatGoesOn
<1>1. Init => HeartbeatGoesOn
      BY DEF Init, HeartbeatGoesOn
<1>2. Typed /\ HeartbeatGoesOn /\ [Next]_vars => HeartbeatGoesOn'
  <2> SUFFICES ASSUME Typed, HeartbeatGoesOn, Next \/ UNCHANGED vars,
                      phase' = "running", ~lost'
               PROVE  heartbeat' \/ HasMsg("PERIODIC")'
      BY Zenon DEF HeartbeatGoesOn
  <2>0. controlQ \in Seq(Codes) /\ "PERIODIC" \in Codes
        BY DEF Typed, TypeOK, Codes
  <2>1. CASE HeartbeatTimer
    <3>1. controlQ' = Append(controlQ, "PERIODIC")
          BY <2>1 DEF HeartbeatTimer, Post
    <3>2. Len(controlQ) + 1 \in DOMAIN controlQ' /\ controlQ'[Len(controlQ) + 1] = "PERIODIC"
          BY <2>0, <3>1
    <3> QED
        BY <3>2 DEF HasMsg
  <2>2. CASE RebootHandler \/ HeartbeatMsgHandler
        BY <2>2, Zenon DEF RebootHandler, HeartbeatMsgHandler, AfterHeartbeat
  <2>3. CASE FactoryResetMsgHandler
    <3>1. heartbeat \/ HasMsg("PERIODIC")
      <4>1. phase = "running" /\ Post(Tail(controlQ), "SOFTWARE_RESET")
            BY <2>3 DEF FactoryResetMsgHandler, Receives
      <4>2. ~lost
            BY <4>1, Zenon DEF Post
      <4> QED
          BY <4>1, <4>2, Zenon DEF HeartbeatGoesOn
    <3>2. /\ controlQ # <<>> /\ Head(controlQ) # "PERIODIC" /\ heartbeat' = heartbeat
          /\ Post(Tail(controlQ), "SOFTWARE_RESET")
          BY <2>3 DEF FactoryResetMsgHandler, Receives
    <3>3. CASE HasMsg("PERIODIC")
      <4>1. \E i \in DOMAIN Tail(controlQ) : Tail(controlQ)[i] = "PERIODIC"
            BY <2>0, <3>2, <3>3, TailKeeps
      <4>2. Tail(controlQ) \in Seq(Codes) /\ "SOFTWARE_RESET" \in Codes
            BY <2>0, <3>2 DEF Codes
      <4> QED
          BY <2>0, <3>2, <4>1, <4>2, PostKeeps
    <3> QED
        BY <3>1, <3>2, <3>3
  <2>4. CASE Request
    <3>1. PICK code \in {"FACTORY_RESET", "SOFTWARE_RESET"} : Post(controlQ, code)
          BY <2>4 DEF Request
    <3>2. code \in Codes /\ heartbeat' = heartbeat /\ phase' = phase
          BY <2>4 DEF Request, Codes
    <3>3. ~lost
          BY <3>1, Zenon DEF Post
    <3>4. heartbeat \/ HasMsg("PERIODIC")
          BY <3>2, <3>3, Zenon DEF HeartbeatGoesOn
    <3>5. CASE HasMsg("PERIODIC")
          BY <2>0, <3>1, <3>2, <3>5, PostKeeps DEF HasMsg
    <3> QED
        BY <3>2, <3>4, <3>5
  <2>5. CASE Bootloader \/ SoftwareResetMsgHandler \/ Reboot \/ Crash
        BY <2>5 DEF Bootloader, SoftwareResetMsgHandler, Reboot, Crash
  <2>6. CASE Tick \/ mcumgr_mgmt_callback \/ SetTime \/ WriteConfig \/ DeferredSave
    <3>1. phase' = phase /\ lost' = lost /\ heartbeat' = heartbeat /\ controlQ' = controlQ
          BY <2>6, Zenon DEF Tick, mcumgr_mgmt_callback, SetTime, WriteConfig, DeferredSave
    <3> QED
        BY <3>1, Zenon DEF HeartbeatGoesOn, HasMsg
  <2>7. CASE UNCHANGED vars
        BY <2>7, Zenon DEF vars, HeartbeatGoesOn, HasMsg
  <2> QED
      BY <2>1, <2>2, <2>3, <2>4, <2>5, <2>6, <2>7 DEF Next
<1> QED
    BY <1>1, <1>2, TypedInvariant, PTL DEF Spec

----------------------------------------------------------------------------
(* The clock                                                               *)

\* By how much the clock would be ahead of the true time if it counted ticks.
Exact == offset * Second + uptime - now

\* What the resets may have added to that.
Slack == resets * (Second - 1)

\* The epoch that was saved, in ticks.
SavedTicks == nird.qrtc * Second

\* From the start-up until a reset the clock neither gains nor loses.
RunningRight ==
  TaskStarted /\ clock # "unset" =>
    /\ Exact <= Slack + (Second - 1)
    /\ Exact >= -(missed + 2 * Slack + (Second - 1))

\* What was saved of it was cut off to a second.
SavedRight ==
  TaskStarted /\ clock = "kept" /\ nird.qrtc > 0 =>
    /\ SavedTicks - savedAt <= Slack + (Second - 1)
    /\ SavedTicks - savedAt >= -(missed + 2 * Slack + 2 * (Second - 1))

\* After a reset it is behind by the ticks that are missed besides.
ResetRight ==
  phase = "bootloader" /\ clock = "kept" /\ nird.qrtc > 0 =>
    /\ SavedTicks - now <= Slack
    /\ SavedTicks - now >= -(missed + 2 * Slack)

\* And after the bootloader by those of the bootloader and of the start-up as well, which are
\* known.
StartingRight ==
  phase = "starting" =>
    /\ savedAt + Believed(nird.bootloader_time) + uptime <= now
    /\ clock = "kept" /\ nird.qrtc > 0 =>
         /\ SavedTicks + Believed(nird.bootloader_time) + uptime - now <= Slack
         /\ SavedTicks + Believed(nird.bootloader_time) + uptime - now >= -(missed + 2 * Slack)

ClockInv ==
  /\ ~TaskStarted => clock # "set"
  /\ RunningRight /\ SavedRight /\ ResetRight /\ StartingRight

\* The quantities of ClockInv are whole numbers.
LEMMA ClockTypes ==
  ASSUME Typed
  PROVE  /\ now \in Nat /\ uptime \in Nat /\ offset \in Nat /\ savedAt \in Nat /\ missed \in Nat
         /\ resets \in Nat /\ Second \in Nat /\ Second > 0
         /\ uptime <= now /\ savedAt <= now
         /\ nird.qrtc \in Nat /\ Epoch \in Nat
         /\ Exact \in Int /\ Slack \in Nat /\ SavedTicks \in Nat
         /\ Believed(nird.bootloader_time) \in Nat
<1> USE ControlTaskAssumption
<1>1. /\ now \in Nat /\ uptime \in Nat /\ offset \in Nat /\ savedAt \in Nat /\ missed \in Nat
      /\ resets \in Nat /\ Second \in Nat /\ Second > 0
      /\ uptime <= now /\ savedAt <= now
      /\ nird.qrtc \in Nat
      BY DEF Typed, TypeOK, Clocked
<1>2. \A m, n \in Nat : m * n \in Nat
      OBVIOUS
<1>3. SavedTicks \in Nat
      BY <1>1, <1>2 DEF SavedTicks
<1>4. Slack \in Nat
  <2>1. Second - 1 \in Nat
        BY <1>1
  <2> QED
      BY <1>1, <1>2, <2>1 DEF Slack
<1>5. Exact \in Int
      BY <1>1, <1>2 DEF Exact
<1>6. Believed(nird.bootloader_time) \in Nat
  <2>1. BootloaderTimes \subseteq Nat
        OBVIOUS
  <2>2. \A n \in BootloaderTimes \cup {0} : n \in Nat
        BY <2>1
  <2>3. nird.bootloader_time \in BootloaderTimes \cup {0}
        BY DEF Typed, TypeOK
  <2>4. nird.bootloader_time \in Nat
        BY <2>2, <2>3, Zenon
  <2> QED
      BY <2>4 DEF Believed
<1> QED
    BY <1>1, <1>3, <1>4, <1>5, <1>6, EpochType

\* The clock itself counts whole seconds.
LEMMA EpochRight ==
  ASSUME Typed
  PROVE  Epoch * Second - now <= Exact /\ Epoch * Second - now >= Exact - (Second - 1)
<1> DEFINE s == uptime \div Second
<1>1. /\ s \in Nat /\ s * Second <= uptime /\ uptime <= s * Second + (Second - 1)
      BY ClockTypes, WholeSeconds
<1>2. Epoch = offset + s
      BY DEF Epoch
<1> HIDE DEF s
<1>3. \A a, b, c \in Nat : (a + b) * c = a * c + b * c /\ a * c \in Nat /\ b * c \in Nat
      OBVIOUS
<1>4. Epoch * Second = offset * Second + s * Second
      /\ offset * Second \in Nat /\ s * Second \in Nat
      BY <1>1, <1>2, <1>3, ClockTypes
<1> QED
    BY <1>1, <1>4, ClockTypes DEF Exact

\* A reset adds to the slack.
LEMMA SlackGrows ==
  ASSUME Typed, resets' = resets + 1
  PROVE  Slack' = Slack + (Second - 1)
<1>1. \A a, b \in Nat : (a + 1) * b = a * b + b
      OBVIOUS
<1>2. resets \in Nat /\ Second - 1 \in Nat
      BY ClockTypes
<1> QED
    BY <1>1, <1>2 DEF Slack

\* What is saved while the clock runs is as right as the clock.
LEMMA SaveRight ==
  ASSUME Typed, RunningRight, TaskStarted, clock # "unset"
  PROVE  /\ Epoch * Second - now <= Slack + (Second - 1)
         /\ Epoch * Second - now >= -(missed + 2 * Slack + 2 * (Second - 1))
<1>1. /\ Exact <= Slack + (Second - 1)
      /\ Exact >= -(missed + 2 * Slack + (Second - 1))
      BY DEF RunningRight
<1>2. Epoch * Second \in Nat
  <2>1. \A m, n \in Nat : m * n \in Nat
        OBVIOUS
  <2> QED
      BY <2>1, ClockTypes
<1> QED
    BY <1>1, <1>2, EpochRight, ClockTypes

\* A save while the clock runs, with the reset that may follow it, keeps ClockInv.
LEMMA SaveKeepsClock ==
  ASSUME Typed, Typed', ClockInv, TaskStarted,
         nird' = [nird EXCEPT !.qrtc = Epoch], savedAt' = now, clock' = Kept,
         now' = now, uptime' = uptime, offset' = offset, missed' = missed,
         \/ TaskStarted' /\ resets' = resets
         \/ phase' = "bootloader" /\ resets' = resets + 1
  PROVE  ClockInv'
<1>1. nird'.qrtc = Epoch /\ SavedTicks' = Epoch * Second
      BY DEF Typed, TypeOK, SavedTicks
<1>2. clock' # "set" /\ (clock' # "unset" => clock # "unset")
      BY DEF Kept
<1>3. Exact' = Exact
      BY DEF Exact
<1>4. clock # "unset" =>
        /\ SavedTicks' - now <= Slack + (Second - 1)
        /\ SavedTicks' - now >= -(missed + 2 * Slack + 2 * (Second - 1))
      BY <1>1, SaveRight DEF ClockInv
<1>5. CASE TaskStarted' /\ resets' = resets
  <2>1. Slack' = Slack
        BY <1>5 DEF Slack
  <2>2. phase' \notin {"bootloader", "starting"}
        BY <1>5 DEF TaskStarted
  <2> QED
      BY <1>2, <1>3, <1>4, <1>5, <2>1, <2>2
      DEF ClockInv, RunningRight, SavedRight, ResetRight, StartingRight
<1>6. CASE phase' = "bootloader" /\ resets' = resets + 1
  <2>1. Slack' = Slack + (Second - 1)
        BY <1>6, SlackGrows
  <2>2. clock # "unset" =>
          /\ SavedTicks' - now' <= Slack'
          /\ SavedTicks' - now' >= -(missed' + 2 * Slack')
    <3>1. now \in Nat /\ missed \in Nat /\ Slack \in Nat /\ Second \in Nat /\ SavedTicks' \in Nat
          BY ClockTypes, <1>1
    <3> QED
        BY <1>4, <2>1, <3>1
  <2>3. ~TaskStarted' /\ phase' # "starting"
        BY <1>6 DEF TaskStarted
  <2> QED
      BY <1>2, <1>6, <2>2, <2>3
      DEF ClockInv, RunningRight, SavedRight, ResetRight, StartingRight
<1> QED
    BY <1>5, <1>6

\* The bootloader keeps ClockInv: it takes as long as it says, or is missed.
LEMMA BootloaderKeepsClock ==
  ASSUME Typed, Typed', ClockInv, Bootloader
  PROVE  ClockInv'
<1>1. PICK time \in BootloaderTimes :
        /\ now' = now + time
        /\ nird' = [valid |-> TRUE, qrtc |-> IF nird.valid THEN nird.qrtc ELSE 0,
                    bootloader_time |-> time]
        /\ missed' = IF time >= SanityCheck THEN missed + time ELSE missed
      BY DEF Bootloader
<1>2. /\ phase = "bootloader" /\ phase' = "starting" /\ uptime' = 0
      /\ clock' = clock /\ savedAt' = savedAt /\ resets' = resets
      BY DEF Bootloader
<1>3. time \in Nat /\ SanityCheck \in Nat
      BY ControlTaskAssumption
<1>4. /\ Believed(nird.bootloader_time)' = IF time >= SanityCheck THEN 0 ELSE time
      /\ nird'.qrtc > 0 => nird'.qrtc = nird.qrtc
      BY <1>1 DEF Believed
<1>5. Slack' = Slack /\ (nird'.qrtc > 0 => SavedTicks' = SavedTicks)
      BY <1>2, <1>4 DEF Slack, SavedTicks
<1>6. savedAt' + Believed(nird.bootloader_time)' + uptime' <= now'
      BY <1>1, <1>2, <1>3, <1>4, ClockTypes
<1>7. ASSUME clock' = "kept", nird'.qrtc > 0
      PROVE  /\ SavedTicks' + Believed(nird.bootloader_time)' + uptime' - now' <= Slack'
             /\ SavedTicks' + Believed(nird.bootloader_time)' + uptime' - now' >=
                  -(missed' + 2 * Slack')
  <2>1. SavedTicks - now <= Slack /\ SavedTicks - now >= -(missed + 2 * Slack)
        BY <1>2, <1>4, <1>7 DEF ClockInv, ResetRight
  <2>2. SavedTicks' = SavedTicks /\ Slack' = Slack /\ uptime' = 0 /\ now' = now + time
        BY <1>1, <1>2, <1>5, <1>7
  <2>3. CASE time >= SanityCheck
        BY <1>1, <1>3, <1>4, <2>1, <2>2, <2>3, ClockTypes
  <2>4. CASE ~(time >= SanityCheck)
        BY <1>1, <1>3, <1>4, <2>1, <2>2, <2>4, ClockTypes
  <2> QED
      BY <2>3, <2>4
<1>8. ~TaskStarted /\ ~TaskStarted' /\ phase' # "bootloader"
      BY <1>2 DEF TaskStarted
<1> QED
    BY <1>2, <1>6, <1>7, <1>8
    DEF ClockInv, RunningRight, SavedRight, ResetRight, StartingRight

\* The clock is put right after a reset: the time since the save is known to a second.
LEMMA RebootHandlerKeepsClock ==
  ASSUME Typed, Typed', ClockInv, RebootHandler
  PROVE  ClockInv'
<1>1. /\ phase = "starting" /\ phase' = "running" /\ savedAt' = now
      /\ now' = now /\ uptime' = uptime /\ missed' = missed /\ resets' = resets
      BY DEF RebootHandler
<1>2. Slack' = Slack
      BY <1>1 DEF Slack
<1>3. ~TaskStarted /\ TaskStarted' /\ phase' # "bootloader" /\ phase' # "starting"
      BY <1>1 DEF TaskStarted
<1>4. CASE ~(nird.qrtc > 0)
  <2>1. clock' = "unset"
        BY <1>4 DEF RebootHandler
  <2> QED
      BY <1>3, <2>1 DEF ClockInv, RunningRight, SavedRight, ResetRight, StartingRight
<1>5. CASE nird.qrtc > 0
  <2> DEFINE b == Believed(nird.bootloader_time)
             s == (b + uptime) \div Second
             u == uptime \div Second
  <2>1. /\ nird'.qrtc = RestoredEpoch /\ offset' = RestoredEpoch - u /\ clock' = Kept
        BY <1>5 DEF RebootHandler, Typed, TypeOK
  <2>2. RestoredEpoch = nird.qrtc + s
        BY DEF RestoredEpoch
  <2>3. b \in Nat /\ uptime \in Nat /\ b + uptime \in Nat /\ nird.qrtc \in Nat
        BY ClockTypes
  <2>4. /\ s \in Nat /\ s * Second <= b + uptime /\ b + uptime <= s * Second + (Second - 1)
        /\ u \in Nat /\ u * Second <= uptime /\ uptime <= u * Second + (Second - 1)
        BY <2>3, WholeSeconds
  <2>5. ASSUME clock = "kept"
        PROVE  /\ SavedTicks + b + uptime - now <= Slack
               /\ SavedTicks + b + uptime - now >= -(missed + 2 * Slack)
        BY <1>1, <1>5, <2>5 DEF ClockInv, StartingRight
  <2> HIDE DEF b, s, u
  <2>6. \A m, n \in Nat : m * n \in Nat
        OBVIOUS
  <2>7. \A q, m, n, k \in Nat : /\ (q + m) * k = q * k + m * k
                                 /\ (q + m - n) * k = q * k + m * k - n * k
        OBVIOUS
  <2>8. /\ SavedTicks' = SavedTicks + s * Second
        /\ offset' * Second = SavedTicks + s * Second - u * Second
        /\ s * Second \in Nat /\ u * Second \in Nat
    <3>1. Second \in Nat
          BY ClockTypes
    <3>2. /\ (nird.qrtc + s) * Second = nird.qrtc * Second + s * Second
          /\ (nird.qrtc + s - u) * Second = nird.qrtc * Second + s * Second - u * Second
          BY <2>3, <2>4, <2>7, <3>1
    <3>3. nird'.qrtc = nird.qrtc + s /\ offset' = nird.qrtc + s - u
          BY <2>1, <2>2, <2>3, <2>4
    <3>4. s * Second \in Nat /\ u * Second \in Nat
          BY <2>4, <2>6, <3>1
    <3> QED
        BY <3>2, <3>3, <3>4 DEF SavedTicks
  <2>9. /\ now \in Nat /\ missed \in Nat /\ Slack \in Nat /\ SavedTicks \in Nat
        /\ Second \in Nat /\ Second > 0
        BY ClockTypes
  <2>10. ASSUME clock = "kept"
         PROVE  /\ Exact' <= Slack' + (Second - 1)
                /\ Exact' >= -(missed' + 2 * Slack' + (Second - 1))
    <3>1. Exact' = SavedTicks + s * Second - u * Second + uptime - now
          BY <1>1, <2>8 DEF Exact
    <3> QED
        BY <1>1, <1>2, <2>3, <2>4, <2>5, <2>8, <2>9, <2>10, <3>1
  <2>11. ASSUME clock = "kept"
         PROVE  /\ SavedTicks' - savedAt' <= Slack' + (Second - 1)
                /\ SavedTicks' - savedAt' >= -(missed' + 2 * Slack' + 2 * (Second - 1))
        BY <1>1, <1>2, <2>3, <2>4, <2>5, <2>8, <2>9, <2>11
  <2>12. clock' # "unset" => clock = "kept"
    <3>1. clock # "set"
          BY <1>3 DEF ClockInv
    <3>2. clock \in {"unset", "set", "kept"}
          BY DEF Typed, TypeOK
    <3> QED
        BY <2>1, <3>1, <3>2 DEF Kept
  <2> QED
      BY <1>3, <2>10, <2>11, <2>12
      DEF ClockInv, RunningRight, SavedRight, ResetRight, StartingRight
<1> QED
    BY <1>4, <1>5

\* A crash keeps ClockInv: it misses the ticks since the last save.
LEMMA CrashKeepsClock ==
  ASSUME Typed, Typed', ClockInv, Crash
  PROVE  ClockInv'
<1>1. /\ phase # "bootloader" /\ phase' = "bootloader" /\ resets' = resets + 1
      /\ missed' = missed + (now - savedAt)
      /\ clock' = (IF clock = "set" THEN "unset" ELSE clock)
      /\ now' = now
      BY DEF Crash
<1>2. nird'.qrtc = nird.qrtc /\ SavedTicks' = SavedTicks
      BY DEF Crash, Typed, TypeOK, SavedTicks
<1>3. Slack' = Slack + (Second - 1)
      BY <1>1, SlackGrows
<1>4. /\ now \in Nat /\ missed \in Nat /\ Slack \in Nat /\ SavedTicks \in Nat /\ savedAt \in Nat
      /\ Second \in Nat /\ Second > 0 /\ savedAt <= now /\ uptime \in Nat
      /\ Believed(nird.bootloader_time) \in Nat
      BY ClockTypes
<1>5. ~TaskStarted' /\ phase' # "starting" /\ clock' # "set"
      BY <1>1 DEF TaskStarted
<1>6. ASSUME clock' = "kept", nird'.qrtc > 0
      PROVE  SavedTicks' - now' <= Slack' /\ SavedTicks' - now' >= -(missed' + 2 * Slack')
  <2>1. clock = "kept" /\ nird.qrtc > 0
        BY <1>1, <1>2, <1>6
  <2>2. CASE phase = "starting"
    <3>1. /\ savedAt + Believed(nird.bootloader_time) + uptime <= now
          /\ SavedTicks + Believed(nird.bootloader_time) + uptime - now <= Slack
          /\ SavedTicks + Believed(nird.bootloader_time) + uptime - now >= -(missed + 2 * Slack)
          BY <2>1, <2>2 DEF ClockInv, StartingRight
    <3> QED
        BY <1>1, <1>2, <1>3, <1>4, <3>1
  <2>3. CASE TaskStarted
    <3>1. /\ SavedTicks - savedAt <= Slack + (Second - 1)
          /\ SavedTicks - savedAt >= -(missed + 2 * Slack + 2 * (Second - 1))
          BY <2>1, <2>3 DEF ClockInv, SavedRight
    <3> QED
        BY <1>1, <1>2, <1>3, <1>4, <3>1
  <2>4. phase = "starting" \/ TaskStarted
        BY <1>1 DEF Typed, TypeOK, TaskStarted
  <2> QED
      BY <2>2, <2>3, <2>4
<1> QED
    BY <1>1, <1>5, <1>6
    DEF ClockInv, RunningRight, SavedRight, ResetRight, StartingRight

\* Setting the clock, to the second, keeps ClockInv.
LEMMA SetTimeKeepsClock ==
  ASSUME Typed, Typed', ClockInv, SetTime
  PROVE  ClockInv'
<1> DEFINE n == now \div Second
           u == uptime \div Second
<1>1. /\ TaskStarted /\ offset' = n - u /\ clock' = "set" /\ missed' = 0
      /\ phase' = phase /\ now' = now /\ uptime' = uptime /\ resets' = resets
      BY DEF SetTime
<1>2. /\ now \in Nat /\ uptime \in Nat /\ Second \in Nat /\ Second > 0 /\ Slack \in Nat
      BY ClockTypes
<1>3. /\ n \in Nat /\ n * Second <= now /\ now <= n * Second + (Second - 1)
      /\ u \in Nat /\ u * Second <= uptime /\ uptime <= u * Second + (Second - 1)
      BY <1>2, WholeSeconds
<1> HIDE DEF n, u
<1>4. Slack' = Slack
      BY <1>1 DEF Slack
<1>5. TaskStarted' /\ phase' # "bootloader" /\ phase' # "starting"
      BY <1>1 DEF TaskStarted
<1>6. /\ Exact' = n * Second - u * Second + uptime - now
      /\ n * Second \in Nat /\ u * Second \in Nat
  <2>1. \A a, b, c \in Nat : (a - b) * c = a * c - b * c /\ a * c \in Nat
        OBVIOUS
  <2>2. (n - u) * Second = n * Second - u * Second /\ n * Second \in Nat /\ u * Second \in Nat
        BY <1>2, <1>3, <2>1
  <2> QED
      BY <1>1, <2>2 DEF Exact
<1>7. /\ Exact' <= Slack' + (Second - 1)
      /\ Exact' >= -(missed' + 2 * Slack' + (Second - 1))
      BY <1>1, <1>2, <1>3, <1>4, <1>6
<1> QED
    BY <1>1, <1>5, <1>7
    DEF ClockInv, RunningRight, SavedRight, ResetRight, StartingRight

\* A tick keeps ClockInv.
LEMMA TickKeepsClock ==
  ASSUME Typed, Typed', ClockInv, Tick
  PROVE  ClockInv'
<1>1. /\ phase # "bootloader" /\ now' = now + 1 /\ uptime' = uptime + 1 /\ phase' = phase
      /\ offset' = offset /\ nird' = nird /\ clock' = clock /\ savedAt' = savedAt
      /\ missed' = missed /\ resets' = resets
      BY DEF Tick
<1>2. /\ now \in Nat /\ uptime \in Nat /\ SavedTicks \in Nat /\ Slack \in Nat /\ savedAt \in Nat
      /\ Believed(nird.bootloader_time) \in Nat /\ Exact \in Int
      BY ClockTypes
<1>3. Exact' = Exact
  <2>1. offset * Second \in Int
    <3>1. \A a, b \in Nat : a * b \in Int
          OBVIOUS
    <3> QED
        BY <3>1, ClockTypes
  <2> QED
      BY <1>1, <1>2, <2>1 DEF Exact
<1>4. /\ Slack' = Slack /\ SavedTicks' = SavedTicks
      /\ Believed(nird.bootloader_time)' = Believed(nird.bootloader_time)
      /\ TaskStarted' = TaskStarted
      BY <1>1, Zenon DEF Slack, SavedTicks, Believed, TaskStarted
<1>5. StartingRight'
      BY <1>1, <1>2, <1>4 DEF ClockInv, StartingRight
<1>6. RunningRight' /\ SavedRight' /\ ResetRight' /\ (~TaskStarted' => clock' # "set")
      BY <1>1, <1>3, <1>4, Zenon DEF ClockInv, RunningRight, SavedRight, ResetRight
<1> QED
    BY <1>5, <1>6 DEF ClockInv

\* ClockInv is an invariant of the specification.
LEMMA ClockInvariant == Spec => []ClockInv
<1>1. Init => ClockInv
      BY DEF Init, ClockInv, RunningRight, SavedRight, ResetRight, StartingRight, TaskStarted
<1>2. Typed /\ Typed' /\ ClockInv /\ [Next]_vars => ClockInv'
  <2> SUFFICES ASSUME Typed, Typed', ClockInv, [Next]_vars
               PROVE  ClockInv'
      OBVIOUS
  <2>1. CASE Tick
        BY <2>1, TickKeepsClock
  <2>2. CASE Bootloader
        BY <2>2, BootloaderKeepsClock
  <2>3. CASE RebootHandler
        BY <2>3, RebootHandlerKeepsClock
  <2>4. CASE HeartbeatMsgHandler /\ ~factory
    <3>1. TaskStarted /\ TaskStarted'
          BY <2>4 DEF HeartbeatMsgHandler, Receives, TaskStarted
    <3> QED
        BY <2>4, <3>1, SaveKeepsClock DEF HeartbeatMsgHandler
  <2>5. CASE SoftwareResetMsgHandler /\ ~factory
    <3>1. TaskStarted /\ TaskStarted'
          BY <2>5 DEF SoftwareResetMsgHandler, Receives, TaskStarted
    <3> QED
        BY <2>5, <3>1, SaveKeepsClock DEF SoftwareResetMsgHandler
  <2>6. CASE SoftwareResetMsgHandler /\ factory
    <3>1. /\ TaskStarted /\ TaskStarted' /\ phase' # "bootloader" /\ phase' # "starting"
          /\ nird'.qrtc = 0 /\ ~(nird'.qrtc > 0)
          BY <2>6 DEF SoftwareResetMsgHandler, Receives, TaskStarted, Typed, TypeOK
    <3>2. /\ clock' = Kept /\ Exact' = Exact /\ Slack' = Slack /\ missed' = missed
          BY <2>6 DEF SoftwareResetMsgHandler, Exact, Slack
    <3>3. clock' # "unset" => clock # "unset"
          BY <3>2 DEF Kept
    <3>4. RunningRight'
          BY <3>1, <3>2, <3>3, Zenon DEF ClockInv, RunningRight
    <3> QED
        BY <3>1, <3>4, Zenon DEF ClockInv, SavedRight, ResetRight, StartingRight
  <2>7. CASE Reboot
        BY <2>7, SaveKeepsClock DEF Reboot
  <2>8. CASE mcumgr_mgmt_callback
    <3>1. TaskStarted'
          BY <2>8 DEF mcumgr_mgmt_callback, TaskStarted
    <3> QED
        BY <2>8, <3>1, SaveKeepsClock DEF mcumgr_mgmt_callback
  <2>9. CASE Crash
        BY <2>9, CrashKeepsClock
  <2>10. CASE SetTime
        BY <2>10, SetTimeKeepsClock
  <2>11. CASE \/ HeartbeatTimer \/ FactoryResetMsgHandler \/ WriteConfig \/ DeferredSave \/ Request
              \/ (HeartbeatMsgHandler /\ factory) \/ UNCHANGED vars
    <3>1. /\ phase' = phase /\ now' = now /\ uptime' = uptime /\ offset' = offset /\ nird' = nird
          /\ clock' = clock /\ savedAt' = savedAt /\ missed' = missed /\ resets' = resets
          BY <2>11, Zenon DEF HeartbeatTimer, FactoryResetMsgHandler, WriteConfig, DeferredSave,
                              Request, HeartbeatMsgHandler, vars
    <3> QED
        BY <3>1, Zenon DEF ClockInv, RunningRight, SavedRight, ResetRight, StartingRight,
                           TaskStarted, Exact, Slack, SavedTicks, Believed
  <2> QED
      BY <2>1, <2>2, <2>3, <2>4, <2>5, <2>6, <2>7, <2>8, <2>9, <2>10, <2>11 DEF Next
<1> QED
    BY <1>1, <1>2, TypedInvariant, PTL DEF Spec

\* A clock that was set stays right through resets of every kind, for any length of a second and
\* any number of resets.
THEOREM ClockStaysRight == Spec => []ClockTracks
<1>1. Typed /\ ClockInv => ClockTracks
  <2> SUFFICES ASSUME Typed, ClockInv, phase = "running", clock # "unset"
               PROVE  /\ Ahead <= (resets + 1) * (Second - 1)
                      /\ Ahead >= -(missed + 2 * (resets + 1) * (Second - 1))
      BY DEF ClockTracks
  <2>1. TaskStarted
        BY DEF TaskStarted
  <2>2. /\ Ahead <= Slack + (Second - 1)
        /\ Ahead >= -(missed + 2 * Slack + 2 * (Second - 1))
        BY <2>1, SaveRight DEF ClockInv, Ahead
  <2>3. /\ (resets + 1) * (Second - 1) = Slack + (Second - 1)
        /\ 2 * (resets + 1) * (Second - 1) = 2 * Slack + 2 * (Second - 1)
    <3>1. \A a, b \in Nat : /\ (a + 1) * b = a * b + b
                            /\ 2 * (a + 1) * b = 2 * (a * b) + 2 * b
          OBVIOUS
    <3>2. resets \in Nat /\ Second - 1 \in Nat
          BY ClockTypes
    <3> QED
        BY <3>1, <3>2 DEF Slack
  <2> QED
      BY <2>2, <2>3, ClockTypes
<1> QED
    BY <1>1, TypedInvariant, ClockInvariant, PTL
=============================================================================
