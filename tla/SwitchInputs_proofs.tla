------------------------- MODULE SwitchInputs_proofs -------------------------
(***************************************************************************)
(* Proofs about the inputs that are on or off and the flags that are       *)
(* advertised, for any inputs, depth of the queues and losses.             *)
(***************************************************************************)
EXTENDS SwitchInputs, TLAPS

----------------------------------------------------------------------------
(* Flags_Set                                                               *)

\* A thread outside Flags_Set has no call, and one within it sets a flag.
CallsNamed == \A t \in Threads : calls[t] = NoCall \/ (InFlagsSet(t) /\ calls[t].bit \in Bits)

\* Entering Flags_Set changes the call of the thread alone.
LEMMA EnterFlagsSet ==
  ASSUME FlagsTypeOK, CallsNamed, NEW t \in Threads, NEW bit \in Bits, NEW v \in BOOLEAN,
         Flags_Set(t, bit, v)
  PROVE  /\ FlagsTypeOK' /\ CallsNamed'
         /\ word' = word
         /\ calls'[t].at = "entered" /\ calls'[t].bit = bit /\ calls'[t].value = v
         /\ \A u \in Threads \ {t} : calls'[u] = calls[u]
<1> USE DEF Flags_Set, FlagsTypeOK
<1>1. [at |-> "entered", bit |-> bit, value |-> v] \in Call
      BY DEF Call
<1>2. overlap' \in BOOLEAN
      BY Zenon DEF Alone, InFlagsSet
<1>3. /\ calls' \in [Threads -> Call]
      /\ calls'[t] = [at |-> "entered", bit |-> bit, value |-> v]
      /\ \A u \in Threads \ {t} : calls'[u] = calls[u]
      BY <1>1
<1>4. CallsNamed'
      BY <1>3 DEF CallsNamed, InFlagsSet
<1> QED
    BY <1>2, <1>3, <1>4

\* A step within Flags_Set keeps the flag and the value of the call, unless it is the last one.
LEMMA StepOfFlags ==
  ASSUME FlagsTypeOK, CallsNamed, NEW t \in Threads, FlagStep(t)
  PROVE  /\ FlagsTypeOK' /\ CallsNamed'
         /\ \A u \in Threads \ {t} : calls'[u] = calls[u]
         /\ \/ calls'[t] = NoCall
            \/ calls'[t].bit = calls[t].bit /\ calls'[t].value = calls[t].value
<1> USE DEF FlagsTypeOK
<1>1. calls[t] \in Call
      OBVIOUS
<1>2. CASE LockFlags(t)
  <2>1. calls[t].bit \in Bits /\ calls[t].value \in BOOLEAN
        BY <1>1, <1>2 DEF LockFlags, CallsNamed, NoCall, Call
  <2>2. [at |-> "locked", bit |-> calls[t].bit, value |-> calls[t].value, copy |-> word] \in Call
        BY <2>1 DEF Call
  <2>3. /\ calls' \in [Threads -> Call]
        /\ calls'[t] = [at |-> "locked", bit |-> calls[t].bit, value |-> calls[t].value,
                        copy |-> word]
        /\ \A u \in Threads \ {t} : calls'[u] = calls[u]
        BY <1>2, <2>2 DEF LockFlags
  <2>4. CallsNamed'
        BY <2>1, <2>3 DEF CallsNamed, InFlagsSet
  <2> QED
      BY <1>2, <2>3, <2>4 DEF LockFlags
<1>3. CASE SetFlag(t)
  <2>1. calls[t].bit \in Bits /\ calls[t].value \in BOOLEAN /\ calls[t].copy \in Word
        BY <1>1, <1>3 DEF SetFlag, Call
  <2>2. [at |-> "unlocked", bit |-> calls[t].bit, value |-> calls[t].value] \in Call
        BY <2>1 DEF Call
  <2>3. /\ calls' \in [Threads -> Call]
        /\ calls'[t] = [at |-> "unlocked", bit |-> calls[t].bit, value |-> calls[t].value]
        /\ \A u \in Threads \ {t} : calls'[u] = calls[u]
        BY <1>3, <2>2 DEF SetFlag
  <2>4. CallsNamed'
        BY <2>1, <2>3 DEF CallsNamed, InFlagsSet
  <2>5. word' \in Word
        BY <1>3, <2>1 DEF SetFlag, Word
  <2> QED
      BY <1>3, <2>3, <2>4, <2>5 DEF SetFlag
<1>4. CASE ReadWord(t)
  <2>1. calls[t].bit \in Bits /\ calls[t].value \in BOOLEAN
        BY <1>1, <1>4 DEF ReadWord, CallsNamed, NoCall, Call
  <2>2. [at |-> "writing", bit |-> calls[t].bit, value |-> calls[t].value, copy |-> word] \in Call
        BY <2>1 DEF Call
  <2>3. /\ calls' \in [Threads -> Call]
        /\ calls'[t] = [at |-> "writing", bit |-> calls[t].bit, value |-> calls[t].value,
                        copy |-> word]
        /\ \A u \in Threads \ {t} : calls'[u] = calls[u]
        BY <1>4, <2>2 DEF ReadWord, ReadForShadow
  <2>4. CallsNamed'
        BY <2>1, <2>3 DEF CallsNamed, InFlagsSet
  <2> QED
      BY <1>4, <2>3, <2>4 DEF ReadWord
<1>5. CASE WriteShadow(t)
  <2>1. NoCall \in Call
        BY DEF NoCall, Call
  <2>2. calls[t].copy \in Word
        BY <1>1, <1>5 DEF WriteShadow, Call
  <2>3. /\ calls' \in [Threads -> Call]
        /\ calls'[t] = NoCall
        /\ \A u \in Threads \ {t} : calls'[u] = calls[u]
        BY <1>5, <2>1 DEF WriteShadow
  <2>4. CallsNamed'
        BY <2>3 DEF CallsNamed, InFlagsSet
  <2> QED
      BY <1>5, <2>2, <2>3, <2>4 DEF WriteShadow
<1> QED
    BY <1>2, <1>3, <1>4, <1>5 DEF FlagStep

----------------------------------------------------------------------------
(* Types                                                                   *)

\* A task that has read a level is not in Flags_Set and has read one level only, a client that
\* is in the middle of something is not in Flags_Set either, and a flag is set by the task of its
\* input or by a client.
ThreadsApart ==
  /\ \A i \in Inputs : task[i] # NoLevel =>
       /\ ~InFlagsSet(TaskOf(i))
       /\ \A j \in Inputs \ {i} : TaskOf(j) = TaskOf(i) => task[j] = NoLevel
  /\ client.doing # "nothing" => client.input \in Inputs /\ ~InFlagsSet("client")
  /\ \A t \in Threads, i \in Inputs : calls[t].bit = i => t \in {TaskOf(i), "client"}

\* TypeOK alone is not inductive: a call that sets no flag has the type of one that does.
Typed == TypeOK /\ CallsNamed /\ ThreadsApart

\* The threads are those of the model, and a flag is named as its input.
LEMMA Named ==
  /\ Bits = Inputs /\ "none" \notin Inputs
  /\ \A i \in Inputs : TaskOf(i) \in Threads \ {"client"}
  /\ "client" \in Threads
  BY SwitchInputsAssumption DEF TaskOf

\* The initial states are well-typed.
LEMMA InitTyped == Init => Typed
<1> SUFFICES ASSUME Init
             PROVE  Typed
    OBVIOUS
<1> USE SwitchInputsAssumption DEF Init
<1>1. /\ edge \in [Inputs -> Edges]
      /\ sent \in [Inputs -> 0 .. QueueDepth]
      /\ client \in [doing : {"nothing", "enable", "disable", "read"},
                     input : Inputs \cup {"none"}, level : BOOLEAN]
      /\ changes \in 0 .. MaxChanges
      BY DEF Edges, NoClient
<1>2. /\ pin \in [Inputs -> BOOLEAN] /\ simulated \in [Inputs -> BOOLEAN]
      /\ value \in [Inputs -> BOOLEAN] /\ last \in [Inputs -> BOOLEAN]
      /\ enabled \in [Inputs -> BOOLEAN] /\ synced \in [Inputs -> BOOLEAN]
      /\ lost \in BOOLEAN
      BY Zenon
<1>3. /\ shown \in [Inputs -> BOOLEAN]
      /\ task \in [Inputs -> [read : BOOLEAN, level : BOOLEAN]]
  <2>1. \A i \in Inputs : pin[i] \in BOOLEAN
        BY <1>2
  <2>2. \A v \in BOOLEAN : [read |-> TRUE, level |-> v] \in [read : BOOLEAN, level : BOOLEAN]
        BY Zenon
  <2>3. NoLevel \in [read : BOOLEAN, level : BOOLEAN]
        BY DEF NoLevel
  <2> QED
      BY <2>1, <2>2, <2>3, Zenon
<1>4. \A t \in Threads : calls[t] = NoCall
      BY DEF FlagsInit
<1>5. FlagsTypeOK
  <2>1. NoCall \in Call
        BY DEF NoCall, Call
  <2>2. word \in Word /\ shadow \in Word
        BY <1>3, Zenon DEF FlagsInit, Word
  <2> QED
      BY <2>1, <2>2, Zenon DEF FlagsInit, FlagsTypeOK
<1>6. CallsNamed
      BY <1>4 DEF CallsNamed
<1>7. ThreadsApart
  <2>1. \A t \in Threads, i \in Inputs : calls[t].bit # i
        BY <1>4 DEF NoCall
  <2>2. \A t \in Threads : ~InFlagsSet(t)
        BY <1>4 DEF InFlagsSet, NoCall
  <2>3. \A i, j \in Inputs :
          task[i] # NoLevel /\ TaskOf(j) = TaskOf(i) /\ j # i => task[j] = NoLevel
        BY DEF TaskOf
  <2>4. client.doing = "nothing"
        BY DEF NoClient
  <2>5. \A i \in Inputs : TaskOf(i) \in Threads
        BY Named
  <2> QED
      BY <2>1, <2>2, <2>3, <2>4, <2>5, Zenon DEF ThreadsApart
<1> QED
    BY <1>1, <1>2, <1>3, <1>5, <1>6, <1>7, Zenon DEF Typed, TypeOK

\* A message that is sent, or dropped, keeps the types.
LEMMA SendType ==
  ASSUME TypeOK, NEW i \in Inputs, NEW needed \in BOOLEAN, SendIf(needed, i)
  PROVE  /\ sent' \in [Inputs -> 0 .. QueueDepth] /\ lost' \in BOOLEAN
         /\ \A j \in Inputs \ {i} : sent'[j] = sent[j]
         /\ lost => lost'
         /\ needed /\ ~lost' => sent'[i] > 0
         /\ sent[i] > 0 => sent'[i] > 0
         /\ ~needed => sent' = sent /\ lost' = lost
<1> USE SwitchInputsAssumption DEF TypeOK
<1>1. CASE needed
  <2>1. Send(i)
        BY <1>1 DEF SendIf
  <2>2. CASE HasRoom(i) /\ sent' = [sent EXCEPT ![i] = @ + 1] /\ UNCHANGED lost
        BY <1>1, <2>2 DEF HasRoom
  <2>3. CASE lost' = TRUE /\ UNCHANGED sent
        BY <1>1, <2>3
  <2> QED
      BY <2>1, <2>2, <2>3 DEF Send
<1>2. CASE ~needed
      BY <1>2, Zenon DEF SendIf
<1> QED
    BY <1>1, <1>2

\* What a pin reads, and what is stored of it, is a level.
LEMMA Levels ==
  ASSUME TypeOK, NEW i \in Inputs
  PROVE  /\ PinGet(i) \in BOOLEAN
         /\ \A v \in BOOLEAN : Stored(i, v) \in BOOLEAN
         /\ i # "magnet" => /\ \A v \in BOOLEAN : Stored(i, v) = v
                            /\ PinGet(i) = IF simulated[i] THEN value[i] ELSE LiveLevel(i)
  BY Zenon DEF TypeOK, PinGet, Stored, Inverted, LiveLevel

\* What a client, or the task, is about to store is a level.
LEMMA HeldLevels ==
  ASSUME TypeOK
  PROVE  client.level \in BOOLEAN /\ \A i \in Inputs : task[i].level \in BOOLEAN
  BY DEF TypeOK

\* The count of changes is bounded.
LEMMA ChangeType == TypeOK /\ Change => changes' \in 0 .. MaxChanges
  BY SwitchInputsAssumption DEF TypeOK, Change

\* The types are kept by a step in which no thread enters Flags_Set.
LEMMA PlainTyped ==
  ASSUME Typed, flagVars' = flagVars,
         \/ \E i \in Inputs : PinMoves(i) \/ HandleMessage(i) \/ EnableSimulation(i)
                                \/ DisableSimulation(i) \/ WriteSimulatedValue(i)
         \/ ConfigureDigitalInputs \/ SetSimulated \/ UpdateSimulatedStatus \/ ReadDigitalInput
  PROVE  Typed'
<1> USE DEF Typed
<1>1. FlagsTypeOK' /\ CallsNamed' /\ calls' = calls
  <2>1. word' = word /\ shadow' = shadow /\ calls' = calls /\ overlap' = overlap
        BY DEF flagVars
  <2> QED
      BY <2>1, Zenon DEF TypeOK, FlagsTypeOK, CallsNamed, InFlagsSet
<1>2. ASSUME NEW i \in Inputs, PinMoves(i)
      PROVE  Typed'
  <2>1. sent' \in [Inputs -> 0 .. QueueDepth] /\ lost' \in BOOLEAN
    <3>1. Interrupts(i, ~pin[i]) \in BOOLEAN
          BY Zenon DEF Interrupts
    <3> QED
        BY <1>2, <3>1, SendType DEF PinMoves
  <2>2. pin' \in [Inputs -> BOOLEAN] /\ changes' \in 0 .. MaxChanges
        BY <1>2, SwitchInputsAssumption DEF PinMoves, Change, TypeOK
  <2>3. TypeOK'
        BY <1>1, <1>2, <2>1, <2>2, Zenon DEF PinMoves, TypeOK
  <2>4. ThreadsApart'
        BY <1>1, <1>2, Zenon DEF PinMoves, ThreadsApart, InFlagsSet
  <2> QED
      BY <1>1, <2>3, <2>4
<1>3. ASSUME NEW i \in Inputs, HandleMessage(i)
      PROVE  Typed'
  <2>1. sent' \in [Inputs -> 0 .. QueueDepth]
        BY <1>3, SwitchInputsAssumption DEF HandleMessage, TypeOK
  <2>2. [read |-> TRUE, level |-> PinGet(i)] \in [read : BOOLEAN, level : BOOLEAN]
        BY Levels
  <2>3. task' \in [Inputs -> [read : BOOLEAN, level : BOOLEAN]]
        BY <1>3, <2>2 DEF HandleMessage, TypeOK
  <2>4. TypeOK'
        BY <1>1, <1>3, <2>1, <2>3, Zenon DEF HandleMessage, TypeOK
  <2>5. \A j \in Inputs \ {i} : task'[j] = task[j]
        BY <1>3 DEF HandleMessage, TypeOK
  <2>6. /\ ~InFlagsSet(TaskOf(i))
        /\ \A j \in Inputs : TaskOf(j) = TaskOf(i) => task[j] = NoLevel
        BY <1>3, Zenon DEF HandleMessage, TaskFree
  <2>7. ThreadsApart'
        BY <1>1, <1>3, <2>5, <2>6, Zenon DEF HandleMessage, ThreadsApart, InFlagsSet
  <2> QED
      BY <1>1, <2>4, <2>7
<1>4. ASSUME NEW i \in Inputs, EnableSimulation(i)
      PROVE  Typed'
  <2>1. /\ client' \in [doing : {"nothing", "enable", "disable", "read"},
                        input : Inputs \cup {"none"}, level : BOOLEAN]
        /\ client'.input = i
        BY <1>4 DEF EnableSimulation, TypeOK, NoClient
  <2>2. changes' \in 0 .. MaxChanges
        BY <1>4, ChangeType DEF EnableSimulation
  <2>3. value' \in [Inputs -> BOOLEAN] /\ last' \in [Inputs -> BOOLEAN]
        BY <1>4, Levels, Zenon DEF EnableSimulation, TypeOK
  <2>4. TypeOK'
        BY <1>1, <1>4, <2>1, <2>2, <2>3, Zenon DEF EnableSimulation, TypeOK
  <2>5. ThreadsApart'
        BY <1>1, <1>4, <2>1, Zenon DEF EnableSimulation, ClientFree, ThreadsApart, InFlagsSet
  <2> QED
      BY <1>1, <2>4, <2>5
<1>5. ASSUME NEW i \in Inputs, DisableSimulation(i)
      PROVE  Typed'
  <2>1. /\ client' \in [doing : {"nothing", "enable", "disable", "read"},
                        input : Inputs \cup {"none"}, level : BOOLEAN]
        /\ client'.input = i
        BY <1>5 DEF DisableSimulation, TypeOK, NoClient
  <2>2. changes' \in 0 .. MaxChanges
        BY <1>5, ChangeType DEF DisableSimulation
  <2>3. simulated' \in [Inputs -> BOOLEAN]
        BY <1>5, Zenon DEF DisableSimulation, TypeOK
  <2>4. TypeOK'
        BY <1>1, <1>5, <2>1, <2>2, <2>3, Zenon DEF DisableSimulation, TypeOK
  <2>5. ~InFlagsSet("client") /\ task' = task
        BY <1>5, Zenon DEF DisableSimulation, ClientFree
  <2>6. ThreadsApart'
        BY <1>1, <2>1, <2>5, Zenon DEF ThreadsApart, InFlagsSet
  <2> QED
      BY <1>1, <2>4, <2>6
<1>6. ASSUME NEW i \in Inputs, WriteSimulatedValue(i)
      PROVE  Typed'
  <2>1. sent' \in [Inputs -> 0 .. QueueDepth] /\ lost' \in BOOLEAN
    <3>1. (simulated[i] /\ IRQNeeded(i, ~value[i], value[i])) \in BOOLEAN
          BY Zenon
    <3> QED
        BY <1>6, <3>1, SendType DEF WriteSimulatedValue
  <2>2. value' \in [Inputs -> BOOLEAN] /\ changes' \in 0 .. MaxChanges
        BY <1>6, SwitchInputsAssumption DEF WriteSimulatedValue, Change, TypeOK
  <2>3. TypeOK'
        BY <1>1, <1>6, <2>1, <2>2, Zenon DEF WriteSimulatedValue, TypeOK
  <2>4. ThreadsApart'
        BY <1>1, <1>6, Zenon DEF WriteSimulatedValue, ThreadsApart, InFlagsSet
  <2> QED
      BY <1>1, <2>3, <2>4
<1>7. CASE ConfigureDigitalInputs
  <2>1. edge' \in [Inputs -> Edges] /\ changes' \in 0 .. MaxChanges
        BY <1>7, SwitchInputsAssumption DEF ConfigureDigitalInputs, Change, TypeOK
  <2>2. enabled' \in [Inputs -> BOOLEAN] /\ synced' \in [Inputs -> BOOLEAN]
        BY <1>7, Zenon DEF ConfigureDigitalInputs, TypeOK
  <2>3. TypeOK'
        BY <1>1, <1>7, <2>1, <2>2, Zenon DEF ConfigureDigitalInputs, TypeOK
  <2>4. ThreadsApart'
        BY <1>1, <1>7, Zenon DEF ConfigureDigitalInputs, ThreadsApart, InFlagsSet
  <2> QED
      BY <1>1, <2>3, <2>4
<1>8. CASE SetSimulated
  <2>1. simulated' \in [Inputs -> BOOLEAN]
        BY <1>8, Zenon DEF SetSimulated, TypeOK
  <2>2. /\ client' \in [doing : {"nothing", "enable", "disable", "read"},
                        input : Inputs \cup {"none"}, level : BOOLEAN]
        /\ client'.doing = "nothing"
        BY <1>8 DEF SetSimulated, NoClient
  <2>3. TypeOK'
        BY <1>1, <1>8, <2>1, <2>2, Zenon DEF SetSimulated, TypeOK
  <2>4. ThreadsApart'
        BY <1>1, <1>8, <2>2, Zenon DEF SetSimulated, ThreadsApart, InFlagsSet
  <2> QED
      BY <1>1, <2>3, <2>4
<1>9. CASE UpdateSimulatedStatus
  <2>1. sent' \in [Inputs -> 0 .. QueueDepth] /\ lost' \in BOOLEAN
    <3>1. UpdateNeeded(client.input, PinGet(client.input)) \in BOOLEAN /\ client.input \in Inputs
          BY <1>9, Zenon DEF UpdateNeeded, UpdateSimulatedStatus, ThreadsApart
    <3> QED
        BY <1>9, <3>1, SendType DEF UpdateSimulatedStatus
  <2>2. /\ client' \in [doing : {"nothing", "enable", "disable", "read"},
                        input : Inputs \cup {"none"}, level : BOOLEAN]
        /\ client'.doing = "nothing"
        BY <1>9 DEF UpdateSimulatedStatus, NoClient
  <2>3. TypeOK'
        BY <1>1, <1>9, <2>1, <2>2, Zenon DEF UpdateSimulatedStatus, TypeOK
  <2>4. ThreadsApart'
        BY <1>1, <1>9, <2>2, Zenon DEF UpdateSimulatedStatus, ThreadsApart, InFlagsSet
  <2> QED
      BY <1>1, <2>3, <2>4
<1>10. CASE ReadDigitalInput
  <2>1. /\ client' \in [doing : {"nothing", "enable", "disable", "read"},
                        input : Inputs \cup {"none"}, level : BOOLEAN]
        /\ client'.input \in Inputs
        BY <1>10, Levels DEF ReadDigitalInput, TypeOK
  <2>2. changes' \in 0 .. MaxChanges
        BY <1>10, ChangeType DEF ReadDigitalInput
  <2>3. TypeOK'
        BY <1>1, <1>10, <2>1, <2>2, Zenon DEF ReadDigitalInput, TypeOK
  <2>4. ThreadsApart'
        BY <1>1, <1>10, <2>1, Zenon DEF ReadDigitalInput, ClientFree, ThreadsApart, InFlagsSet
  <2> QED
      BY <1>1, <2>3, <2>4
<1> QED
    BY <1>2, <1>3, <1>4, <1>5, <1>6, <1>7, <1>8, <1>9, <1>10, Zenon

\* A level that is stored is shown, and a call of the thread that stores it has begun; both have
\* the types.
LEMMA StoreStep ==
  ASSUME Typed, NEW i \in Inputs, NEW t \in Threads, NEW v \in BOOLEAN,
         shown' = [shown EXCEPT ![i] = Stored(i, v)], Flags_Set(t, i, Stored(i, v))
  PROVE  /\ FlagsTypeOK' /\ CallsNamed'
         /\ shown' \in [Inputs -> BOOLEAN]
         /\ shown'[i] = Stored(i, v) /\ \A j \in Inputs \ {i} : shown'[j] = shown[j]
         /\ word' = word
         /\ calls'[t].at = "entered" /\ calls'[t].bit = i /\ calls'[t].value = Stored(i, v)
         /\ \A u \in Threads \ {t} : calls'[u] = calls[u]
<1>1. Stored(i, v) \in BOOLEAN
      BY Levels DEF Typed
<1>2. FlagsTypeOK /\ CallsNamed /\ shown \in [Inputs -> BOOLEAN] /\ i \in Bits
      BY Named, Zenon DEF Typed, TypeOK
<1>3. /\ shown' \in [Inputs -> BOOLEAN]
      /\ shown'[i] = Stored(i, v) /\ \A j \in Inputs \ {i} : shown'[j] = shown[j]
      BY <1>1, <1>2, Zenon
<1> QED
    BY <1>1, <1>2, <1>3, EnterFlagsSet

\* The task's store keeps the types.
LEMMA StoreLevelTyped ==
  ASSUME Typed, NEW i \in Inputs, StoreLevel(i)
  PROVE  Typed'
<1>1. task[i].level \in BOOLEAN /\ TaskOf(i) \in Threads \ {"client"}
      BY HeldLevels, Named DEF Typed
<1>2. /\ FlagsTypeOK' /\ CallsNamed' /\ shown' \in [Inputs -> BOOLEAN]
      /\ calls'[TaskOf(i)].bit = i
      /\ \A u \in Threads \ {TaskOf(i)} : calls'[u] = calls[u]
      BY <1>1, StoreStep, Zenon DEF StoreLevel
<1>3. /\ task' \in [Inputs -> [read : BOOLEAN, level : BOOLEAN]]
      /\ task'[i] = NoLevel /\ \A j \in Inputs \ {i} : task'[j] = task[j]
      BY DEF StoreLevel, Typed, TypeOK, NoLevel
<1>4. synced' \in [Inputs -> BOOLEAN]
      BY Zenon DEF StoreLevel, Typed, TypeOK
<1>5. TypeOK'
      BY <1>2, <1>3, <1>4, Zenon DEF StoreLevel, Typed, TypeOK
<1>6. ThreadsApart'
  <2>1. \A j \in Inputs : task'[j] # NoLevel => TaskOf(j) # TaskOf(i)
        BY <1>3, Zenon DEF StoreLevel, Typed, ThreadsApart
  <2>2. \A j \in Inputs : task'[j] # NoLevel => TaskOf(j) \in Threads /\ task[j] # NoLevel
        BY <1>3, Named, Zenon
  <2>3. \A j \in Inputs : task'[j] # NoLevel =>
          /\ ~InFlagsSet(TaskOf(j))'
          /\ \A k \in Inputs \ {j} : TaskOf(k) = TaskOf(j) => task'[k] = NoLevel
    <3> SUFFICES ASSUME NEW j \in Inputs, task'[j] # NoLevel
                 PROVE  /\ ~InFlagsSet(TaskOf(j))'
                        /\ \A k \in Inputs \ {j} : TaskOf(k) = TaskOf(j) => task'[k] = NoLevel
        OBVIOUS
    <3>1. /\ ~InFlagsSet(TaskOf(j))
          /\ \A k \in Inputs \ {j} : TaskOf(k) = TaskOf(j) => task[k] = NoLevel
          BY <2>2, Zenon DEF Typed, ThreadsApart
    <3>2. calls'[TaskOf(j)] = calls[TaskOf(j)]
          BY <1>2, <2>1, <2>2, Zenon
    <3> QED
        BY <1>3, <3>1, <3>2, Zenon DEF InFlagsSet
  <2>4. client' = client /\ calls'["client"] = calls["client"]
        BY <1>1, <1>2, Named, Zenon DEF StoreLevel
  <2>5. \A t \in Threads, j \in Inputs : calls'[t].bit = j => t \in {TaskOf(j), "client"}
        BY <1>2, Zenon DEF Typed, ThreadsApart
  <2> QED
      BY <2>3, <2>4, <2>5, Zenon DEF Typed, ThreadsApart, InFlagsSet
<1> QED
    BY <1>2, <1>5, <1>6 DEF Typed

\* The client's store keeps the types.
LEMMA StoreReadTyped ==
  ASSUME Typed, StoreRead
  PROVE  Typed'
<1> DEFINE i == client.input
<1>1. i \in Inputs /\ client.level \in BOOLEAN /\ ~InFlagsSet("client")
      BY HeldLevels, Zenon DEF Typed, ThreadsApart, StoreRead
<1>2. /\ FlagsTypeOK' /\ CallsNamed' /\ shown' \in [Inputs -> BOOLEAN]
      /\ calls'["client"].bit = i
      /\ \A u \in Threads \ {"client"} : calls'[u] = calls[u]
  <2>1. /\ shown' = [shown EXCEPT ![i] = Stored(i, client.level)]
        /\ Flags_Set("client", i, Stored(i, client.level))
        BY DEF StoreRead
  <2> HIDE DEF i
  <2> QED
      BY <1>1, <2>1, Named, StoreStep
<1>3. /\ client' \in [doing : {"nothing", "enable", "disable", "read"},
                      input : Inputs \cup {"none"}, level : BOOLEAN]
      /\ client'.doing = "nothing"
      BY DEF StoreRead, NoClient
<1>4. TypeOK'
      BY <1>2, <1>3, Zenon DEF StoreRead, Typed, TypeOK
<1>5. ThreadsApart'
  <2>1. \A j \in Inputs : calls'[TaskOf(j)] = calls[TaskOf(j)]
        BY <1>2, Named, Zenon
  <2>2. \A t \in Threads, j \in Inputs : calls'[t].bit = j => t \in {TaskOf(j), "client"}
        BY <1>2, Zenon DEF Typed, ThreadsApart
  <2>3. \A j \in Inputs : task'[j] # NoLevel =>
          /\ ~InFlagsSet(TaskOf(j))'
          /\ \A k \in Inputs \ {j} : TaskOf(k) = TaskOf(j) => task'[k] = NoLevel
        BY <2>1, Zenon DEF StoreRead, Typed, ThreadsApart, InFlagsSet
  <2> QED
      BY <1>3, <2>2, <2>3, Zenon DEF ThreadsApart
<1> QED
    BY <1>2, <1>4, <1>5 DEF Typed

\* A step within Flags_Set keeps the types.
LEMMA FlagStepTyped ==
  ASSUME Typed, NEW t \in Threads, FlagStep(t),
         UNCHANGED <<pin, simulated, value, last, shown, enabled, edge, sent, task, client, lost,
                     synced, changes>>
  PROVE  Typed'
<1>1. FlagsTypeOK /\ CallsNamed
      BY Zenon DEF Typed, TypeOK
<1>2. /\ FlagsTypeOK' /\ CallsNamed'
      /\ \A u \in Threads \ {t} : calls'[u] = calls[u]
      /\ \/ calls'[t] = NoCall
         \/ calls'[t].bit = calls[t].bit /\ calls'[t].value = calls[t].value
      BY <1>1, StepOfFlags
<1>3. TypeOK'
      BY <1>2, Zenon DEF Typed, TypeOK
<1>4. InFlagsSet(t)
      BY DEF FlagStep, LockFlags, SetFlag, ReadWord, WriteShadow, InFlagsSet
<1>5. \A u \in Threads : ~InFlagsSet(u) => ~InFlagsSet(u)'
      BY <1>2, <1>4, Zenon DEF InFlagsSet
<1>6. NoCall.bit \notin Inputs
      BY Named DEF NoCall
<1>7. \A u \in Threads, j \in Inputs : calls'[u].bit = j => calls[u].bit = j
      BY <1>2, <1>6, Zenon
<1>8. ThreadsApart'
      BY <1>5, <1>7, Named, Zenon DEF Typed, ThreadsApart
<1> QED
    BY <1>2, <1>3, <1>8 DEF Typed

\* Every step keeps the types.
LEMMA NextTyped == Typed /\ [Next]_vars => Typed'
<1> SUFFICES ASSUME Typed, [Next]_vars
             PROVE  Typed'
    OBVIOUS
<1>1. ASSUME NEW i \in Inputs, PinMoves(i) \/ HandleMessage(i)
      PROVE  Typed'
      BY <1>1, PlainTyped, Zenon DEF PinMoves, HandleMessage
<1>2. ASSUME NEW i \in Inputs, StoreLevel(i)
      PROVE  Typed'
      BY <1>2, StoreLevelTyped
<1>3. CASE ConfigureDigitalInputs
      BY <1>3, PlainTyped, Zenon DEF ConfigureDigitalInputs
<1>4. ASSUME NEW i \in Inputs,
             EnableSimulation(i) \/ DisableSimulation(i) \/ WriteSimulatedValue(i)
      PROVE  Typed'
      BY <1>4, PlainTyped, Zenon DEF EnableSimulation, DisableSimulation, WriteSimulatedValue
<1>5. CASE SetSimulated \/ UpdateSimulatedStatus \/ ReadDigitalInput
      BY <1>5, PlainTyped, Zenon DEF SetSimulated, UpdateSimulatedStatus, ReadDigitalInput
<1>6. CASE StoreRead
      BY <1>6, StoreReadTyped
<1>7. ASSUME NEW t \in Threads, FlagStep(t),
             UNCHANGED <<pin, simulated, value, last, shown, enabled, edge, sent, task, client,
                         lost, synced, changes>>
      PROVE  Typed'
      BY <1>7, FlagStepTyped
<1>8. CASE UNCHANGED vars
      BY <1>8, Zenon DEF vars, flagVars, Typed, TypeOK, FlagsTypeOK, CallsNamed, ThreadsApart,
                         InFlagsSet
<1> QED
    BY <1>1, <1>2, <1>3, <1>4, <1>5, <1>6, <1>7, <1>8, Zenon DEF Next

\* Typed is an invariant of the specification.
LEMMA TypedInvariant == Spec => []Typed
  BY InitTyped, NextTyped, PTL DEF Spec

\* Every reachable state of the inputs and flags is well-typed, and no more messages of an input
\* wait than its task's queue holds.
THEOREM TypeCorrect == Spec => []TypeOK
<1>1. Typed => TypeOK
      BY DEF Typed
<1> QED
    BY <1>1, TypedInvariant, PTL

----------------------------------------------------------------------------
(* The word and its shadow                                                 *)

\* At most one thread is between the mutex's lock and unlock, and the word is as it read it.
MutexInv ==
  \A t \in Threads : calls[t].at = "locked" =>
    /\ calls[t].copy = word
    /\ \A u \in Threads \ {t} : calls[u].at # "locked"

\* If the calls that were last in Flags_Set did not overlap, the only one left has read the word
\* as it is, and once it is gone the attribute is equal to the word.
ShadowInv ==
  ~overlap =>
    /\ \A t, u \in Threads : InFlagsSet(t) /\ InFlagsSet(u) => t = u
    /\ \A t \in Threads : calls[t].at = "writing" => calls[t].copy = word
    /\ (\A t \in Threads : ~InFlagsSet(t)) => shadow = word

FlagsInv == MutexInv /\ ShadowInv

\* A thread that enters Flags_Set keeps FlagsInv.
LEMMA EnterFlagsInv ==
  ASSUME FlagsTypeOK, CallsNamed, FlagsInv, NEW t \in Threads, NEW bit \in Bits,
         NEW v \in BOOLEAN, Flags_Set(t, bit, v)
  PROVE  FlagsInv'
<1>1. /\ word' = word
      /\ calls'[t].at = "entered"
      /\ \A u \in Threads \ {t} : calls'[u] = calls[u]
      BY EnterFlagsSet
<1>2. MutexInv'
      BY <1>1 DEF FlagsInv, MutexInv
<1>3. CASE Alone(t)
  <2>1. \A u \in Threads : InFlagsSet(u)' <=> u = t
        BY <1>1, <1>3 DEF Alone, InFlagsSet
  <2> QED
      BY <1>1, <1>2, <2>1 DEF FlagsInv, ShadowInv, InFlagsSet
<1>4. CASE ~Alone(t)
      BY <1>2, <1>4, Zenon DEF Flags_Set, FlagsInv, ShadowInv
<1> QED
    BY <1>3, <1>4

\* A step within Flags_Set keeps FlagsInv.
LEMMA StepFlagsInv ==
  ASSUME FlagsTypeOK, CallsNamed, FlagsInv, NEW t \in Threads, FlagStep(t)
  PROVE  FlagsInv'
<1> USE DEF FlagsInv, MutexInv, ShadowInv, InFlagsSet
<1>1. \A u \in Threads \ {t} : calls'[u] = calls[u]
      BY StepOfFlags
<1>2. CASE LockFlags(t)
  <2>1. /\ calls'[t].at = "locked" /\ calls'[t].copy = word
        /\ word' = word /\ shadow' = shadow /\ overlap' = overlap
        /\ calls[t].at = "entered"
        BY <1>2 DEF LockFlags, FlagsTypeOK
  <2>2. \A u \in Threads \ {t} : calls[u].at # "locked"
        BY <1>2 DEF LockFlags, MutexFree
  <2> QED
      BY <1>1, <2>1, <2>2
<1>3. CASE SetFlag(t)
  <2>1. /\ calls'[t].at = "unlocked"
        /\ shadow' = shadow /\ overlap' = overlap
        /\ calls[t].at = "locked"
        BY <1>3 DEF SetFlag, FlagsTypeOK
  <2> QED
      BY <1>1, <2>1
<1>4. CASE ReadWord(t)
  <2>1. /\ calls'[t].at = "writing" /\ calls'[t].copy = word
        /\ word' = word /\ shadow' = shadow /\ overlap' = overlap
        /\ calls[t].at = "unlocked"
        BY <1>4 DEF ReadWord, ReadForShadow, FlagsTypeOK
  <2> QED
      BY <1>1, <2>1
<1>5. CASE WriteShadow(t)
  <2>1. /\ calls'[t].at = "outside"
        /\ word' = word /\ shadow' = calls[t].copy /\ overlap' = overlap
        /\ calls[t].at = "writing"
        BY <1>5 DEF WriteShadow, NoCall, FlagsTypeOK
  <2> QED
      BY <1>1, <2>1
<1> QED
    BY <1>2, <1>3, <1>4, <1>5 DEF FlagStep

\* FlagsInv is an invariant of the specification.
LEMMA FlagsInvariant == Spec => []FlagsInv
<1>1. Init => FlagsInv
  <2> SUFFICES ASSUME Init
               PROVE  FlagsInv
      OBVIOUS
  <2>1. \A t \in Threads : calls[t].at = "outside"
        BY DEF Init, FlagsInit, NoCall
  <2>2. shadow = word
        BY DEF Init, FlagsInit
  <2> QED
      BY <2>1, <2>2 DEF FlagsInv, MutexInv, ShadowInv, InFlagsSet
<1>2. Typed /\ FlagsInv /\ [Next]_vars => FlagsInv'
  <2> SUFFICES ASSUME Typed, FlagsInv, [Next]_vars
               PROVE  FlagsInv'
      OBVIOUS
  <2>1. FlagsTypeOK /\ CallsNamed
        BY Zenon DEF Typed, TypeOK
  <2>2. ASSUME NEW i \in Inputs, StoreLevel(i)
        PROVE  FlagsInv'
    <3>1. TaskOf(i) \in Threads /\ i \in Bits /\ Stored(i, task[i].level) \in BOOLEAN
          BY Named, Levels, HeldLevels DEF Typed
    <3> QED
        BY <2>1, <2>2, <3>1, EnterFlagsInv DEF StoreLevel
  <2>3. CASE StoreRead
    <3>1. client.input \in Inputs
          BY <2>3, Zenon DEF StoreRead, Typed, ThreadsApart
    <3>2. client.input \in Bits /\ Stored(client.input, client.level) \in BOOLEAN
          BY <3>1, Named, Levels, HeldLevels DEF Typed
    <3> QED
        BY <2>1, <2>3, <3>2, EnterFlagsInv, Named DEF StoreRead
  <2>4. ASSUME NEW t \in Threads, FlagStep(t)
        PROVE  FlagsInv'
        BY <2>1, <2>4, StepFlagsInv
  <2>5. CASE flagVars' = flagVars
    <3>1. word' = word /\ shadow' = shadow /\ calls' = calls /\ overlap' = overlap
          BY <2>5 DEF flagVars
    <3> QED
        BY <3>1, Zenon DEF FlagsInv, MutexInv, ShadowInv, InFlagsSet
  <2>6. UNCHANGED vars => flagVars' = flagVars
        BY Zenon DEF vars
  <2> QED
      BY <2>2, <2>3, <2>4, <2>5, <2>6, Zenon
      DEF Next, PinMoves, HandleMessage, ConfigureDigitalInputs, EnableSimulation,
          DisableSimulation, WriteSimulatedValue, SetSimulated, UpdateSimulatedStatus,
          ReadDigitalInput
<1> QED
    BY <1>1, <1>2, TypedInvariant, PTL DEF Spec

\* bluetooth_flags shadows the word once every thread has left Flags_Set, unless the last ones
\* were in it together.
THEOREM ShadowUpToDate == Spec => []ShadowFollows
<1>1. FlagsInv => ShadowFollows
      BY Zenon DEF FlagsInv, ShadowInv, ShadowFollows
<1> QED
    BY <1>1, FlagsInvariant, PTL

----------------------------------------------------------------------------
(* What is shown of an input                                               *)

Disabling(i) == client.doing = "disable" /\ client.input = i

\* The level v is right for input i: it is that of the pin or, as long as the end of a simulation
\* is still to come, the simulated value.
Right(i, v) == v = LiveLevel(i) \/ (v = value[i] /\ (simulated[i] \/ Disabling(i)))

\* No message of the input was dropped and none waits, and every edge interrupts.
Watched(i) == ~lost /\ edge[i] = "both" /\ enabled[i] /\ sent[i] = 0

\* A thread is about to set the flag of the input.
BeingSet(i) == \E t \in Threads : calls[t].bit = i /\ calls[t].at \in {"entered", "locked"}

\* The task has read what is right.
TaskRight(i) == Watched(i) /\ task[i] # NoLevel => Right(i, task[i].level)

\* Once the task has stored it and no other thread did at the same time, what is shown, what a
\* client is about to show, what threads in Flags_Set were given and what the flag is are right.
ShownRight(i) ==
  Watched(i) /\ synced[i] /\ task[i] = NoLevel =>
    /\ Right(i, shown[i])
    /\ client.doing = "read" /\ client.input = i => Right(i, client.level)
    /\ \A t \in Threads : calls[t].bit = i => Right(i, calls[t].value)
    /\ Right(i, word[i]) \/ BeingSet(i)

\* The magnet switch is excepted: its simulated value means the opposite of its level.
Plain == Inputs \ {"magnet"}

RightInv == \A i \in Plain : TaskRight(i) /\ ShownRight(i)

\* What is right stays so in a step that leaves pin, value and simulation of the input alone.
LEMMA RightKept ==
  ASSUME NEW i \in Inputs, pin'[i] = pin[i], enabled'[i] = enabled[i], value'[i] = value[i],
         simulated'[i] = simulated[i], Disabling(i) => Disabling(i)'
  PROVE  \A v \in BOOLEAN : Right(i, v) => Right(i, v)'
  BY Zenon DEF Right, LiveLevel

\* A step that changes nothing of an input but what others than itself do keeps it right.
LEMMA OthersKeepRight ==
  ASSUME Typed, Typed', NEW i \in Plain, TaskRight(i), ShownRight(i),
         pin'[i] = pin[i], enabled'[i] = enabled[i], edge'[i] = edge[i],
         lost => lost', sent'[i] = 0 => sent[i] = 0,
         task'[i] = task[i], synced'[i] = synced[i], shown'[i] = shown[i],
         \A v \in BOOLEAN : Right(i, v) => Right(i, v)',
         client'.doing = "read" /\ client'.input = i =>
           \/ client' = client
           \/ Watched(i) => Right(i, client.level)',
         \A t \in Threads : calls'[t].bit = i =>
           calls[t].bit = i /\ calls'[t].value = calls[t].value,
         \/ word'[i] = word[i] /\ (BeingSet(i) => BeingSet(i)')
         \/ \E t \in Threads : calls[t].bit = i /\ word'[i] = calls[t].value
  PROVE  TaskRight(i)' /\ ShownRight(i)'
<1>1. i \in Inputs
      BY DEF Plain
<1>2. /\ task[i].level \in BOOLEAN /\ shown[i] \in BOOLEAN /\ client.level \in BOOLEAN
      /\ word[i] \in BOOLEAN
      /\ \A t \in Threads : calls[t].value \in BOOLEAN
      BY <1>1, HeldLevels, Named DEF Typed, TypeOK, FlagsTypeOK, Word, Call
<1>3. Watched(i)' => Watched(i)
      BY Zenon DEF Watched
<1>4. TaskRight(i)'
      BY <1>2, <1>3, Zenon DEF TaskRight
<1>5. ASSUME Watched(i)', synced'[i], task'[i] = NoLevel
      PROVE  /\ Right(i, shown[i])'
             /\ client'.doing = "read" /\ client'.input = i => Right(i, client.level)'
             /\ \A t \in Threads : calls'[t].bit = i => Right(i, calls[t].value)'
             /\ Right(i, word[i])' \/ BeingSet(i)'
  <2>1. /\ Right(i, shown[i])
        /\ client.doing = "read" /\ client.input = i => Right(i, client.level)
        /\ \A t \in Threads : calls[t].bit = i => Right(i, calls[t].value)
        BY <1>3, <1>5, Zenon DEF ShownRight
  <2>2. Right(i, shown[i])' /\ (client' = client => client'.level \in BOOLEAN)
        BY <1>2, <2>1, Zenon
  <2>3. client'.doing = "read" /\ client'.input = i => Right(i, client.level)'
    <3>1. CASE client' = client
      <4>1. client.doing = "read" /\ client.input = i => Right(i, client.level)'
        <5>1. \A v \in BOOLEAN : v = client.level /\ Right(i, v) => Right(i, client.level)'
              BY <3>1, Zenon
        <5> QED
            BY <1>2, <2>1, <5>1, Zenon
      <4> QED
          BY <3>1, <4>1, Zenon
    <3> QED
        BY <1>3, <1>5, <3>1, Zenon
  <2>4. \A t \in Threads : calls'[t].bit = i => Right(i, calls[t].value)'
        BY <1>2, <2>1, Zenon
  <2>5. Right(i, word[i])' \/ BeingSet(i)'
    <3>1. \A v \in BOOLEAN : word'[i] = v /\ Right(i, v)' => Right(i, word[i])'
          BY Zenon DEF Right
    <3>2. Right(i, word[i]) \/ BeingSet(i)
          BY <1>3, <1>5, Zenon DEF ShownRight
    <3>3. CASE word'[i] = word[i] /\ (BeingSet(i) => BeingSet(i)')
          BY <1>2, <3>1, <3>2, <3>3, Zenon
    <3>4. CASE \E t \in Threads : calls[t].bit = i /\ word'[i] = calls[t].value
          BY <1>2, <2>1, <3>1, <3>4, Zenon
    <3> QED
        BY <3>3, <3>4
  <2> QED
      BY <2>2, <2>3, <2>4, <2>5
<1> QED
    BY <1>4, <1>5, Zenon DEF ShownRight

\* Within a simulation, the level that is read is the simulated one, which is right.
LEMMA ReadIsRight ==
  ASSUME Typed, NEW i \in Plain
  PROVE  Right(i, PinGet(i)) /\ PinGet(i) \in BOOLEAN
<1>1. i \in Inputs /\ i # "magnet"
      BY DEF Plain
<1> QED
    BY <1>1, Levels, Zenon DEF Right, Typed

\* A step outside Flags_Set keeps RightInv.
LEMMA PlainRight ==
  ASSUME Typed, Typed', RightInv, flagVars' = flagVars, NEW i \in Plain,
         \/ \E j \in Inputs : PinMoves(j) \/ HandleMessage(j) \/ EnableSimulation(j)
                                \/ DisableSimulation(j) \/ WriteSimulatedValue(j)
         \/ ConfigureDigitalInputs \/ SetSimulated \/ UpdateSimulatedStatus \/ ReadDigitalInput
  PROVE  TaskRight(i)' /\ ShownRight(i)'
<1>1. i \in Inputs /\ i # "magnet" /\ TypeOK
      BY DEF Plain, Typed
<1>2. TaskRight(i) /\ ShownRight(i)
      BY Zenon DEF RightInv
<1>3. /\ word' = word /\ calls' = calls
      /\ BeingSet(i) => BeingSet(i)'
      BY Zenon DEF flagVars, BeingSet
<1>4. ASSUME NEW j \in Inputs, PinMoves(j)
      PROVE  TaskRight(i)' /\ ShownRight(i)'
  <2>1. Interrupts(j, ~pin[j]) \in BOOLEAN
        BY Zenon DEF Interrupts
  <2>2. CASE j = i
    <3>1. edge[i] = "both" /\ enabled[i] => Interrupts(i, ~pin[i])
          BY DEF Interrupts
    <3>2. ~Watched(i)'
          BY <1>1, <1>4, <2>1, <2>2, <3>1, SendType DEF PinMoves, Watched
    <3> QED
        BY <3>2, Zenon DEF TaskRight, ShownRight
  <2>3. CASE j # i
    <3>1. sent'[i] = sent[i] /\ (lost => lost') /\ pin'[i] = pin[i]
          BY <1>1, <1>4, <2>1, <2>3, SendType DEF PinMoves, TypeOK
    <3>2. /\ enabled'[i] = enabled[i] /\ edge'[i] = edge[i] /\ value'[i] = value[i]
          /\ simulated'[i] = simulated[i] /\ task'[i] = task[i] /\ synced'[i] = synced[i]
          /\ shown'[i] = shown[i] /\ client' = client
          /\ Disabling(i) => Disabling(i)'
          BY <1>4, Zenon DEF PinMoves, Disabling
    <3>3. \A v \in BOOLEAN : Right(i, v) => Right(i, v)'
          BY <1>1, <3>1, <3>2, RightKept
    <3> QED
        BY <1>2, <1>3, <3>1, <3>2, <3>3, OthersKeepRight
  <2> QED
      BY <2>2, <2>3
<1>5. ASSUME NEW j \in Inputs, HandleMessage(j)
      PROVE  TaskRight(i)' /\ ShownRight(i)'
  <2>1. /\ pin' = pin /\ enabled' = enabled /\ edge' = edge /\ value' = value
        /\ simulated' = simulated /\ synced' = synced /\ shown' = shown /\ client' = client
        /\ lost' = lost
        /\ Disabling(i) => Disabling(i)'
        BY <1>5, Zenon DEF HandleMessage, Disabling
  <2>2. \A v \in BOOLEAN : Right(i, v) => Right(i, v)'
        BY <1>1, <2>1, RightKept, Zenon
  <2>3. CASE j = i /\ enabled[i]
    <3>1. task'[i] = [read |-> TRUE, level |-> PinGet(i)]
          BY <1>1, <1>5, <2>3 DEF HandleMessage, TypeOK
    <3>2. task'[i] # NoLevel /\ task'[i].level = PinGet(i)
          BY <3>1 DEF NoLevel
    <3>3. Right(i, PinGet(i))'
      <4>1. PinGet(i)' = PinGet(i)
            BY <2>1, Zenon DEF PinGet, LiveLevel
      <4> QED
          BY <2>2, <4>1, ReadIsRight, Zenon
    <3>4. PinGet(i)' = PinGet(i)
          BY <2>1, Zenon DEF PinGet, LiveLevel
    <3>5. Right(i, task[i].level)'
          BY <3>2, <3>3, <3>4, Zenon DEF Right
    <3> QED
        BY <3>2, <3>5, Zenon DEF TaskRight, ShownRight
  <2>4. CASE j = i /\ ~enabled[i]
        BY <2>1, <2>4, Zenon DEF Watched, TaskRight, ShownRight
  <2>5. CASE j # i
    <3>1. sent'[i] = sent[i] /\ task'[i] = task[i]
          BY <1>1, <1>5, <2>5 DEF HandleMessage, TypeOK
    <3> QED
        BY <1>2, <1>3, <2>1, <2>2, <3>1, OthersKeepRight
  <2> QED
      BY <2>3, <2>4, <2>5
<1>6. ASSUME NEW j \in Inputs, EnableSimulation(j)
      PROVE  TaskRight(i)' /\ ShownRight(i)'
  <2>1. /\ pin' = pin /\ enabled' = enabled /\ edge' = edge /\ sent' = sent /\ task' = task
        /\ simulated' = simulated /\ synced' = synced /\ shown' = shown /\ lost' = lost
        BY <1>6, Zenon DEF EnableSimulation
  <2>2. client = NoClient /\ client'.doing = "enable"
        BY <1>6 DEF EnableSimulation, ClientFree, NoClient
  <2>3. ~Disabling(i)
        BY <2>2 DEF Disabling, NoClient
  <2>4. \A v \in BOOLEAN : Right(i, v) => Right(i, v)'
    <3>1. CASE j = i
      <4>1. ~simulated[i]
            BY <1>6, <3>1 DEF EnableSimulation
      <4> QED
          BY <2>1, <2>3, <4>1, Zenon DEF Right, LiveLevel
    <3>2. CASE j # i
      <4>1. value'[i] = value[i]
            BY <1>1, <1>6, <3>2 DEF EnableSimulation, TypeOK
      <4> QED
          BY <1>1, <2>1, <2>3, <4>1, RightKept
    <3> QED
        BY <3>1, <3>2
  <2> QED
      BY <1>2, <1>3, <2>1, <2>2, <2>4, OthersKeepRight
<1>7. ASSUME NEW j \in Inputs, DisableSimulation(j)
      PROVE  TaskRight(i)' /\ ShownRight(i)'
  <2>1. /\ pin' = pin /\ enabled' = enabled /\ edge' = edge /\ sent' = sent /\ task' = task
        /\ value' = value /\ synced' = synced /\ shown' = shown /\ lost' = lost
        BY <1>7, Zenon DEF DisableSimulation
  <2>2. /\ client = NoClient
        /\ client'.doing = "disable" /\ client'.input = j
        BY <1>7 DEF DisableSimulation, ClientFree, NoClient
  <2>3. ~Disabling(i)
        BY <2>2 DEF Disabling, NoClient
  <2>4. \A v \in BOOLEAN : Right(i, v) => Right(i, v)'
    <3>1. CASE j = i
      <4>1. Disabling(i)'
            BY <2>2, <3>1 DEF Disabling
      <4> QED
          BY <2>1, <4>1, Zenon DEF Right, LiveLevel
    <3>2. CASE j # i
      <4>1. simulated'[i] = simulated[i]
            BY <1>1, <1>7, <3>2 DEF DisableSimulation, TypeOK
      <4> QED
          BY <1>1, <2>1, <2>3, <4>1, RightKept
    <3> QED
        BY <3>1, <3>2
  <2> QED
      BY <1>2, <1>3, <2>1, <2>2, <2>4, OthersKeepRight
<1>8. ASSUME NEW j \in Inputs, WriteSimulatedValue(j)
      PROVE  TaskRight(i)' /\ ShownRight(i)'
  <2>1. /\ pin' = pin /\ enabled' = enabled /\ edge' = edge /\ client' = client /\ task' = task
        /\ simulated' = simulated /\ synced' = synced /\ shown' = shown
        BY <1>8, Zenon DEF WriteSimulatedValue
  <2>2. client = NoClient
        BY <1>8 DEF WriteSimulatedValue, ClientFree
  <2>3. ~Disabling(i)
        BY <2>2 DEF Disabling, NoClient
  <2>4. (simulated[j] /\ IRQNeeded(j, ~value[j], value[j])) \in BOOLEAN
        BY Zenon
  <2>5. CASE j = i /\ simulated[i]
    <3>1. edge[i] = "both" => IRQNeeded(i, ~value[i], value[i])
          BY <1>1, Zenon DEF IRQNeeded, TypeOK
    <3>2. ~Watched(i)'
      <4>1. edge[i] = "both" /\ ~lost' => sent'[i] > 0
            BY <1>1, <1>8, <2>4, <2>5, <3>1, SendType DEF WriteSimulatedValue
      <4> QED
          BY <2>1, <4>1 DEF Watched
    <3> QED
        BY <3>2, Zenon DEF TaskRight, ShownRight
  <2>6. CASE j = i /\ ~simulated[i]
    <3>1. \A v \in BOOLEAN : Right(i, v) => Right(i, v)'
          BY <2>1, <2>3, <2>6, Zenon DEF Right, LiveLevel
    <3>2. sent' = sent /\ lost' = lost
          BY <1>8, <2>6, Zenon DEF WriteSimulatedValue, SendIf
    <3> QED
        BY <1>2, <1>3, <2>1, <3>1, <3>2, OthersKeepRight
  <2>7. CASE j # i
    <3>1. value'[i] = value[i] /\ sent'[i] = sent[i] /\ (lost => lost')
          BY <1>1, <1>8, <2>4, <2>7, SendType DEF WriteSimulatedValue, TypeOK
    <3>2. \A v \in BOOLEAN : Right(i, v) => Right(i, v)'
          BY <1>1, <2>1, <2>3, <3>1, RightKept
    <3> QED
        BY <1>2, <1>3, <2>1, <3>1, <3>2, OthersKeepRight
  <2> QED
      BY <2>5, <2>6, <2>7
<1>9. CASE ConfigureDigitalInputs
  <2>1. /\ pin' = pin /\ value' = value /\ sent' = sent /\ client' = client /\ task' = task
        /\ simulated' = simulated /\ shown' = shown /\ lost' = lost
        BY <1>9, Zenon DEF ConfigureDigitalInputs
  <2>2. CASE i = "din"
    <3>1. task[i] = NoLevel
          BY <1>1, <1>9, <2>2, Zenon DEF ConfigureDigitalInputs, TaskFree
    <3>2. ~synced'[i]
          BY <1>1, <1>9, <2>2 DEF ConfigureDigitalInputs, TypeOK
    <3> QED
        BY <2>1, <3>1, <3>2, Zenon DEF TaskRight, ShownRight
  <2>3. CASE i # "din"
    <3>1. enabled'[i] = enabled[i] /\ edge'[i] = edge[i] /\ synced'[i] = synced[i]
          BY <1>1, <1>9, <2>3 DEF ConfigureDigitalInputs, TypeOK
    <3>2. Disabling(i) => Disabling(i)'
          BY <2>1, Zenon DEF Disabling
    <3>3. \A v \in BOOLEAN : Right(i, v) => Right(i, v)'
          BY <1>1, <2>1, <3>1, <3>2, RightKept
    <3> QED
        BY <1>2, <1>3, <2>1, <3>1, <3>3, OthersKeepRight
  <2> QED
      BY <2>2, <2>3
<1>10. CASE SetSimulated
  <2>1. /\ pin' = pin /\ enabled' = enabled /\ edge' = edge /\ sent' = sent /\ task' = task
        /\ value' = value /\ synced' = synced /\ shown' = shown /\ lost' = lost
        BY <1>10, Zenon DEF SetSimulated
  <2>2. client.doing = "enable" /\ client'.doing = "nothing"
        BY <1>10 DEF SetSimulated, NoClient
  <2>3. simulated[i] => simulated'[i]
        BY <1>1, <1>10 DEF SetSimulated, TypeOK
  <2>4. ~Disabling(i)
        BY <2>2 DEF Disabling
  <2>5. \A v \in BOOLEAN : Right(i, v) => Right(i, v)'
        BY <2>1, <2>3, <2>4, Zenon DEF Right, LiveLevel
  <2> QED
      BY <1>2, <1>3, <2>1, <2>2, <2>5, OthersKeepRight
<1>11. CASE UpdateSimulatedStatus
  <2> DEFINE j == client.input
  <2>1. /\ pin' = pin /\ enabled' = enabled /\ edge' = edge /\ simulated' = simulated
        /\ task' = task /\ value' = value /\ synced' = synced /\ shown' = shown
        BY <1>11, Zenon DEF UpdateSimulatedStatus
  <2>2. client.doing = "disable" /\ client'.doing = "nothing" /\ j \in Inputs
        BY <1>11 DEF UpdateSimulatedStatus, NoClient, Typed, ThreadsApart
  <2>3. UpdateNeeded(j, PinGet(j)) \in BOOLEAN /\ SendIf(UpdateNeeded(j, PinGet(j)), j)
        BY <1>11, Zenon DEF UpdateSimulatedStatus, UpdateNeeded
  <2> HIDE DEF j
  <2>4. /\ lost => lost'
        /\ \A k \in Inputs \ {j} : sent'[k] = sent[k]
        /\ UpdateNeeded(j, PinGet(j)) /\ ~lost' => sent'[j] > 0
        /\ sent[j] > 0 => sent'[j] > 0
        BY <1>1, <2>2, <2>3, SendType
  <2>5. CASE j = i /\ UpdateNeeded(i, PinGet(i))
    <3>1. ~Watched(i)'
          BY <2>4, <2>5 DEF Watched
    <3> QED
        BY <3>1, Zenon DEF TaskRight, ShownRight
  <2>6. CASE j = i /\ ~UpdateNeeded(i, PinGet(i)) /\ ~simulated[i] /\ edge[i] = "both"
    <3>1. value[i] = LiveLevel(i)
          BY <1>1, <2>6, Levels, Zenon DEF UpdateNeeded, IRQNeeded
    <3>2. \A v \in BOOLEAN : Right(i, v) => Right(i, v)'
          BY <2>1, <3>1, Zenon DEF Right, LiveLevel
    <3>3. sent'[i] = 0 => sent[i] = 0
          BY <1>1, <2>4, <2>6 DEF TypeOK
    <3> QED
        BY <1>2, <1>3, <2>1, <2>2, <2>4, <3>2, <3>3, OthersKeepRight
  <2>7. CASE j = i /\ edge[i] # "both"
        BY <2>1, <2>7, Zenon DEF Watched, TaskRight, ShownRight
  <2>8. CASE j = i /\ simulated[i]
    <3>1. \A v \in BOOLEAN : Right(i, v) => Right(i, v)'
          BY <2>1, <2>8, Zenon DEF Right, LiveLevel
    <3>2. sent'[i] = 0 => sent[i] = 0
          BY <1>1, <2>4, <2>8 DEF TypeOK
    <3> QED
        BY <1>2, <1>3, <2>1, <2>2, <2>4, <3>1, <3>2, OthersKeepRight
  <2>9. CASE j # i
    <3>1. ~Disabling(i)
          BY <2>9 DEF Disabling, j
    <3>2. \A v \in BOOLEAN : Right(i, v) => Right(i, v)'
          BY <1>1, <2>1, <3>1, RightKept
    <3> QED
        BY <1>1, <1>2, <1>3, <2>1, <2>2, <2>4, <2>9, <3>2, OthersKeepRight
  <2> QED
      BY <2>5, <2>6, <2>7, <2>8, <2>9
<1>12. CASE ReadDigitalInput
  <2>1. /\ pin' = pin /\ enabled' = enabled /\ edge' = edge /\ sent' = sent /\ task' = task
        /\ simulated' = simulated /\ value' = value /\ synced' = synced /\ shown' = shown
        /\ lost' = lost
        BY <1>12, Zenon DEF ReadDigitalInput
  <2>2. client = NoClient /\ client' = [doing |-> "read", input |-> "din", level |-> PinGet("din")]
        BY <1>12 DEF ReadDigitalInput, ClientFree
  <2>3. ~Disabling(i)
        BY <2>2 DEF Disabling, NoClient
  <2>4. \A v \in BOOLEAN : Right(i, v) => Right(i, v)'
        BY <1>1, <2>1, <2>3, RightKept
  <2>5. client'.input = i => Right(i, client.level)'
    <3>1. client'.input = i => client'.level = PinGet(i)
          BY <2>2
    <3>2. \A v \in BOOLEAN : client'.level = v /\ Right(i, v)' => Right(i, client.level)'
          BY Zenon DEF Right
    <3> QED
        BY <2>4, <3>1, <3>2, ReadIsRight, Zenon
  <2> QED
      BY <1>2, <1>3, <2>1, <2>4, <2>5, OthersKeepRight
<1> QED
    BY <1>4, <1>5, <1>6, <1>7, <1>8, <1>9, <1>10, <1>11, <1>12, Zenon

\* The task's store keeps RightInv: the level was right when it was read, or is still watched.
LEMMA StoreLevelRight ==
  ASSUME Typed, Typed', RightInv, NEW i \in Plain, NEW j \in Inputs, StoreLevel(j)
  PROVE  TaskRight(i)' /\ ShownRight(i)'
<1> DEFINE t == TaskOf(j)
<1>1. i \in Inputs /\ i # "magnet" /\ TypeOK
      BY DEF Plain, Typed
<1>2. TaskRight(i) /\ ShownRight(i)
      BY Zenon DEF RightInv
<1>3. t \in Threads \ {"client"} /\ task[j].level \in BOOLEAN
      BY <1>1, Named, HeldLevels
<1>4. /\ shown'[j] = Stored(j, task[j].level)
      /\ \A k \in Inputs \ {j} : shown'[k] = shown[k]
      /\ word' = word
      /\ calls'[t].at = "entered" /\ calls'[t].bit = j
      /\ calls'[t].value = Stored(j, task[j].level)
      /\ \A u \in Threads \ {t} : calls'[u] = calls[u]
      BY <1>3, StoreStep, Zenon DEF StoreLevel
<1>5. /\ pin' = pin /\ enabled' = enabled /\ edge' = edge /\ sent' = sent /\ client' = client
      /\ simulated' = simulated /\ value' = value /\ lost' = lost
      /\ Disabling(i) => Disabling(i)'
      BY Zenon DEF StoreLevel, Disabling
<1>6. \A v \in BOOLEAN : Right(i, v) => Right(i, v)'
      BY <1>1, <1>5, RightKept, Zenon
<1>7. calls[t] = NoCall
      BY <1>3, Zenon DEF StoreLevel, Typed, ThreadsApart, CallsNamed
<1>8. CASE j = i
  <2>1. /\ task[i] # NoLevel
        /\ task'[i] = NoLevel /\ (synced'[i] <=> ~Reading(i))
        BY <1>1, <1>8 DEF StoreLevel, TypeOK
  <2>2. ASSUME Watched(i)', synced'[i]
        PROVE  /\ Right(i, shown[i])'
               /\ ~(client'.doing = "read" /\ client'.input = i)
               /\ \A u \in Threads : calls'[u].bit = i => Right(i, calls[u].value)'
               /\ BeingSet(i)'
    <3>1. ~Reading(i)
          BY <2>1, <2>2
    <3>2. ~(client.doing = "read" /\ client.input = i) /\ calls["client"].bit # i
          BY <3>1 DEF Reading
    <3>3. PICK v \in BOOLEAN : v = task[i].level
          BY <1>3, <1>8
    <3>4. Right(i, v)'
      <4>1. Right(i, task[i].level)
            BY <1>2, <1>5, <2>1, <2>2, Zenon DEF TaskRight, Watched
      <4> QED
          BY <1>6, <3>3, <4>1, Zenon
    <3>5. /\ shown'[i] = v /\ calls'[t].value = v
          /\ calls'[t].at = "entered" /\ calls'[t].bit = i
          BY <1>1, <1>4, <1>8, <3>3, Levels
    <3>6. Right(i, shown[i])' /\ BeingSet(i)'
          BY <1>3, <3>4, <3>5, Zenon DEF Right, BeingSet
    <3>7. \A u \in Threads : calls'[u].bit = i => u = t
      <4>1. \A u \in Threads : calls[u].bit = i => u = t
            BY <1>1, <1>8, <3>2, Zenon DEF Typed, ThreadsApart
      <4> QED
          BY <1>4, <4>1, Zenon
    <3>8. \A u \in Threads : calls'[u].value = v => Right(i, calls[u].value)'
          BY <3>4, Zenon DEF Right
    <3> QED
        BY <1>5, <3>2, <3>5, <3>6, <3>7, <3>8, Zenon
  <2> QED
      BY <2>1, <2>2, Zenon DEF TaskRight, ShownRight
<1>9. CASE j # i
  <2>1. task'[i] = task[i] /\ synced'[i] = synced[i]
        BY <1>1, <1>9 DEF StoreLevel, TypeOK
  <2>2. \A u \in Threads : calls'[u].bit = i =>
          calls[u].bit = i /\ calls'[u].value = calls[u].value
        BY <1>4, <1>9, Zenon
  <2>3. BeingSet(i) => BeingSet(i)'
    <3>1. NoCall.bit # i
          BY <1>1, Named DEF NoCall
    <3> QED
        BY <1>4, <1>7, <3>1, Zenon DEF BeingSet
  <2> QED
      BY <1>1, <1>2, <1>4, <1>5, <1>6, <1>9, <2>1, <2>2, <2>3, OthersKeepRight
<1> QED
    BY <1>8, <1>9

\* The client's store keeps RightInv.
LEMMA StoreReadRight ==
  ASSUME Typed, Typed', RightInv, NEW i \in Plain, StoreRead
  PROVE  TaskRight(i)' /\ ShownRight(i)'
<1> DEFINE j == client.input
<1>1. i \in Inputs /\ i # "magnet" /\ TypeOK
      BY DEF Plain, Typed
<1>2. TaskRight(i) /\ ShownRight(i)
      BY Zenon DEF RightInv
<1>3. j \in Inputs /\ client.level \in BOOLEAN /\ ~InFlagsSet("client")
      BY HeldLevels, Zenon DEF Typed, ThreadsApart, StoreRead
<1>4. /\ shown'[j] = Stored(j, client.level)
      /\ \A k \in Inputs \ {j} : shown'[k] = shown[k]
      /\ word' = word
      /\ calls'["client"].at = "entered" /\ calls'["client"].bit = j
      /\ calls'["client"].value = Stored(j, client.level)
      /\ \A u \in Threads \ {"client"} : calls'[u] = calls[u]
  <2>1. /\ shown' = [shown EXCEPT ![j] = Stored(j, client.level)]
        /\ Flags_Set("client", j, Stored(j, client.level))
        BY DEF StoreRead
  <2> HIDE DEF j
  <2> QED
      BY <1>3, <2>1, Named, StoreStep
<1>5. /\ pin' = pin /\ enabled' = enabled /\ edge' = edge /\ sent' = sent /\ task' = task
      /\ simulated' = simulated /\ value' = value /\ synced' = synced /\ lost' = lost
      BY Zenon DEF StoreRead
<1>6. client.doing = "read" /\ client'.doing = "nothing"
      BY DEF StoreRead, NoClient
<1>7. \A v \in BOOLEAN : Right(i, v) => Right(i, v)'
  <2>1. ~Disabling(i)
        BY <1>6 DEF Disabling
  <2> QED
      BY <1>1, <1>5, <2>1, RightKept
<1>8. calls["client"] = NoCall
      BY <1>3, Named, Zenon DEF Typed, CallsNamed
<1>9. CASE j = i
  <2>1. ASSUME Watched(i)', synced'[i], task'[i] = NoLevel
        PROVE  /\ Right(i, shown[i])'
               /\ \A u \in Threads : calls'[u].bit = i => Right(i, calls[u].value)'
               /\ BeingSet(i)'
    <3>1. PICK v \in BOOLEAN : v = client.level
          BY <1>3
    <3>2. Watched(i) /\ synced[i] /\ task[i] = NoLevel
          BY <1>5, <2>1, Zenon DEF Watched
    <3>3. Right(i, v)'
      <4>1. Right(i, client.level)
            BY <1>2, <1>6, <1>9, <3>2, Zenon DEF ShownRight
      <4> QED
          BY <1>7, <3>1, <4>1, Zenon
    <3>4. /\ shown'[i] = v /\ calls'["client"].value = v
          /\ calls'["client"].at = "entered" /\ calls'["client"].bit = i
          BY <1>1, <1>4, <1>9, <3>1, Levels
    <3>5. Right(i, shown[i])' /\ BeingSet(i)'
          BY <3>3, <3>4, Named, Zenon DEF Right, BeingSet
    <3>6. \A u \in Threads, w \in BOOLEAN :
            calls'[u].value = w /\ Right(i, w)' => Right(i, calls[u].value)'
          BY Zenon DEF Right
    <3>7. \A u \in Threads \ {"client"} : calls[u].bit = i => Right(i, calls[u].value)
          BY <1>2, <3>2, Zenon DEF ShownRight
    <3>8. \A u \in Threads : calls[u].value \in BOOLEAN
          BY <1>1 DEF TypeOK, FlagsTypeOK, Call
    <3>9. \A u \in Threads \ {"client"} : calls'[u].bit = i => Right(i, calls[u].value)'
          BY <1>4, <1>7, <3>6, <3>7, <3>8, Zenon
    <3> QED
        BY <3>3, <3>4, <3>5, <3>6, <3>9, Zenon
  <2> QED
      BY <1>2, <1>5, <1>6, <2>1, Zenon
      DEF TaskRight, ShownRight, Watched, Right, LiveLevel, Disabling
<1>10. CASE j # i
  <2>1. shown'[i] = shown[i]
        BY <1>1, <1>4, <1>10
  <2>2. \A u \in Threads : calls'[u].bit = i =>
          calls[u].bit = i /\ calls'[u].value = calls[u].value
        BY <1>4, <1>10, Zenon
  <2>3. BeingSet(i) => BeingSet(i)'
    <3>1. NoCall.bit # i
          BY <1>1, Named DEF NoCall
    <3> QED
        BY <1>4, <1>8, <3>1, Zenon DEF BeingSet
  <2> QED
      BY <1>1, <1>2, <1>4, <1>5, <1>6, <1>7, <2>1, <2>2, <2>3, OthersKeepRight
<1> QED
    BY <1>9, <1>10

\* A step within Flags_Set keeps RightInv: no other thread can change the word between the read
\* and the write of a thread that holds the mutex.
LEMMA FlagStepRight ==
  ASSUME Typed, Typed', RightInv, MutexInv, NEW i \in Plain, NEW t \in Threads, FlagStep(t),
         UNCHANGED <<pin, simulated, value, last, shown, enabled, edge, sent, task, client, lost,
                     synced, changes>>
  PROVE  TaskRight(i)' /\ ShownRight(i)'
<1>1. i \in Inputs /\ FlagsTypeOK /\ CallsNamed /\ calls[t] \in Call /\ word \in Word
      BY DEF Plain, Typed, TypeOK, FlagsTypeOK
<1>2. TaskRight(i) /\ ShownRight(i)
      BY Zenon DEF RightInv
<1>3. /\ \A u \in Threads \ {t} : calls'[u] = calls[u]
      /\ calls'[t] = NoCall \/ (calls'[t].bit = calls[t].bit /\ calls'[t].value = calls[t].value)
      BY <1>1, StepOfFlags
<1>4. \A v \in BOOLEAN : Right(i, v) => Right(i, v)'
      BY Zenon DEF Right, LiveLevel, Disabling
<1>5. NoCall.bit # i
      BY <1>1, Named DEF NoCall
<1>6. \A u \in Threads : calls'[u].bit = i =>
        calls[u].bit = i /\ calls'[u].value = calls[u].value
      BY <1>3, <1>5, Zenon
<1>7. \/ word'[i] = word[i] /\ (BeingSet(i) => BeingSet(i)')
      \/ \E u \in Threads : calls[u].bit = i /\ word'[i] = calls[u].value
  <2>1. CASE LockFlags(t)
    <3>1. word' = word /\ calls'[t].at = "locked" /\ calls'[t].bit = calls[t].bit
          BY <1>1, <2>1 DEF LockFlags, FlagsTypeOK
    <3> QED
        BY <1>3, <3>1 DEF BeingSet
  <2>2. CASE SetFlag(t)
    <3>1. /\ calls[t].bit \in Bits /\ calls[t].copy = word
          /\ word' = [word EXCEPT ![calls[t].bit] = calls[t].value]
          BY <1>1, <2>2 DEF SetFlag, MutexInv, Call
    <3>2. CASE calls[t].bit = i
          BY <1>1, <3>1, <3>2 DEF Word
    <3>3. CASE calls[t].bit # i
      <4>1. word'[i] = word[i]
            BY <1>1, <3>1, <3>3, Named DEF Word
      <4>2. BeingSet(i) => BeingSet(i)'
            BY <1>3, <3>3 DEF BeingSet
      <4> QED
          BY <4>1, <4>2
    <3> QED
        BY <3>2, <3>3
  <2>3. CASE ReadWord(t) \/ WriteShadow(t)
    <3>1. word' = word /\ calls[t].at \notin {"entered", "locked"}
          BY <2>3 DEF ReadWord, WriteShadow
    <3> QED
        BY <1>3, <3>1 DEF BeingSet
  <2> QED
      BY <2>1, <2>2, <2>3 DEF FlagStep
<1> QED
    BY <1>2, <1>4, <1>6, <1>7, OthersKeepRight

\* RightInv is an invariant of the specification.
LEMMA RightInvariant == Spec => []RightInv
<1>1. Init => RightInv
  <2> SUFFICES ASSUME Init, NEW i \in Plain
               PROVE  TaskRight(i) /\ ShownRight(i)
      BY DEF RightInv
  <2>1. i \in Inputs /\ i # "magnet"
        BY DEF Plain
  <2>2. ~synced[i] /\ pin[i] \in BOOLEAN /\ enabled[i]
        BY <2>1, Zenon DEF Init
  <2>3. task[i] # NoLevel => task[i].level = pin[i]
        BY <2>1 DEF Init
  <2> QED
      BY <2>2, <2>3, Zenon DEF TaskRight, ShownRight, Right, LiveLevel
<1>2. Typed /\ Typed' /\ FlagsInv /\ RightInv /\ [Next]_vars => RightInv'
  <2> SUFFICES ASSUME Typed, Typed', FlagsInv, RightInv, [Next]_vars, NEW i \in Plain
               PROVE  TaskRight(i)' /\ ShownRight(i)'
      BY DEF RightInv, Plain
  <2>1. CASE \/ \E j \in Inputs : PinMoves(j) \/ HandleMessage(j) \/ EnableSimulation(j)
                                   \/ DisableSimulation(j) \/ WriteSimulatedValue(j)
             \/ ConfigureDigitalInputs \/ SetSimulated \/ UpdateSimulatedStatus
             \/ ReadDigitalInput
    <3>1. flagVars' = flagVars
          BY <2>1, Zenon
          DEF PinMoves, HandleMessage, ConfigureDigitalInputs, EnableSimulation,
              DisableSimulation, WriteSimulatedValue, SetSimulated, UpdateSimulatedStatus,
              ReadDigitalInput
    <3> QED
        BY <2>1, <3>1, PlainRight
  <2>2. ASSUME NEW j \in Inputs, StoreLevel(j)
        PROVE  TaskRight(i)' /\ ShownRight(i)'
        BY <2>2, StoreLevelRight
  <2>3. CASE StoreRead
        BY <2>3, StoreReadRight
  <2>4. ASSUME NEW t \in Threads, FlagStep(t),
               UNCHANGED <<pin, simulated, value, last, shown, enabled, edge, sent, task, client,
                           lost, synced, changes>>
        PROVE  TaskRight(i)' /\ ShownRight(i)'
        BY <2>4, FlagStepRight DEF FlagsInv
  <2>5. CASE UNCHANGED vars
    <3>1. TaskRight(i) /\ ShownRight(i)
          BY DEF RightInv
    <3> QED
        BY <2>5, <3>1, Zenon DEF vars, flagVars, TaskRight, ShownRight, Watched, Right, LiveLevel,
                                 Disabling, BeingSet
  <2> QED
      BY <2>1, <2>2, <2>3, <2>4, <2>5, Zenon DEF Next
<1> QED
    BY <1>1, <1>2, TypedInvariant, FlagsInvariant, PTL DEF Spec

\* An input that is settled is watched, and what is right of it is its pin.
LEMMA SettledRight ==
  ASSUME Typed, RightInv, NEW i \in Inputs \ {"magnet"}, Settled(i)
  PROVE  /\ shown[i] = Stored(i, pin[i])
         /\ word[i] = Stored(i, pin[i]) \/ BeingSet(i)
<1>1. ~simulated[i] /\ ~Disabling(i)
      BY Zenon DEF Settled, Disabling
<1>2. \A v \in BOOLEAN : Right(i, v) => v = LiveLevel(i)
      BY <1>1, Zenon DEF Right
<1>3. Right(i, shown[i]) /\ (Right(i, word[i]) \/ BeingSet(i))
      BY Zenon DEF Settled, RightInv, Plain, ShownRight, Watched
<1>4. shown[i] \in BOOLEAN /\ word[i] \in BOOLEAN /\ pin[i] \in BOOLEAN
      BY Named DEF Typed, TypeOK, FlagsTypeOK, Word
<1>5. LiveLevel(i) = pin[i]
      BY <1>4, Zenon DEF LiveLevel, Settled
<1>6. Stored(i, pin[i]) = pin[i]
      BY Zenon DEF Stored, Inverted
<1> QED
    BY <1>2, <1>3, <1>4, <1>5, <1>6, Zenon

\* A digital input or tamper switch that has settled shows its pin, whatever edges, simulations,
\* reads of clients and configurations came before, in any order.
THEOREM PinsShown == Spec => []InputShown
<1>1. Typed /\ RightInv => InputShown
      BY SettledRight, Zenon DEF InputShown
<1> QED
    BY <1>1, TypedInvariant, RightInvariant, PTL

\* So does its flag, whatever flags the other threads set at the same time.
THEOREM FlagsShown == Spec => []FlagShown
<1>1. Typed /\ RightInv => FlagShown
      BY SettledRight, Zenon DEF FlagShown, BeingSet
<1> QED
    BY <1>1, TypedInvariant, RightInvariant, PTL
=============================================================================
