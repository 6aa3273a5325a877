------------------------ MODULE UserInterface_proofs -------------------------
(***************************************************************************)
(* Proofs about the user interface task, for any windows of its durations, *)
(* depth of its queue and losses.                                          *)
(***************************************************************************)
EXTENDS UserInterface, TLAPS

----------------------------------------------------------------------------
(* Types                                                                   *)

\* The types of the truth values.
TruthValues ==
  /\ lost \in BOOLEAN /\ started \in BOOLEAN /\ active \in BOOLEAN /\ enabled \in BOOLEAN
  /\ resets \in BOOLEAN /\ dm \in BOOLEAN /\ overlapped \in BOOLEAN

\* The conjunct of TypeOK about them says so.
LEMMA TruthOfSet ==
  {lost, started, active, enabled, resets, dm, overlapped} \subseteq BOOLEAN <=> TruthValues
  BY Zenon DEF TruthValues

\* The horizons are times, and a unit later is a time up to the horizon.
LEMMA AgeType ==
  ASSUME NEW i \in Timed
  PROVE  /\ Horizon(i) \in Nat
         /\ \A n \in Nat : n <= Horizon(i) => Age(i, n) \in Nat /\ Age(i, n) <= Horizon(i)
<1>1. Horizon(i) \in Nat
      BY UserInterfaceAssumption DEF Horizon, Timed
<1> QED
    BY <1>1 DEF Age

\* A message that is posted is the last of the queue, and one that is dropped is history.
LEMMA PostStep ==
  ASSUME queue \in Seq(Message), Len(queue) <= QueueDepth, NEW code \in Codes,
         NEW by \in Timed \cup {"tamper", "dm", "client"}, Post(code, by), lost \in BOOLEAN
  PROVE  /\ queue' \in Seq(Message) /\ Len(queue') <= QueueDepth /\ lost' \in BOOLEAN
         /\ lost => lost'
         /\ \/ queue' = Append(queue, [code |-> code, by |-> by])
            \/ queue' = queue /\ lost'
<1>1. [code |-> code, by |-> by] \in Message
      BY DEF Message
<1>2. CASE /\ HasRoom(queue)
           /\ queue' = Append(queue, [code |-> code, by |-> by])
           /\ UNCHANGED lost
      BY <1>1, <1>2, UserInterfaceAssumption DEF HasRoom
<1>3. CASE lost' = TRUE /\ UNCHANGED queue
      BY <1>3
<1> QED
    BY <1>2, <1>3, Zenon DEF Post

\* What the handlers post are codes of messages.
LEMMA CodesOfHandlers ==
  /\ \A d : ButtonCode(d) \in Codes \cup {"none"}
  /\ \A near, d : MagnetCode(near, d) \in {"AMR_LED_ON", "ENTER_ACTIVE_MODE", "LEDS_OFF"}
  /\ \A connected : DmCode(connected) \in {"DM_CONNECTED", "LEDS_OFF"}
  /\ {"AMR_LED_ON", "ENTER_ACTIVE_MODE", "LEDS_OFF", "DM_CONNECTED", "TAMPER"} \subseteq Codes
  BY DEF ButtonCode, MagnetCode, DmCode, Codes

\* A handler's patterns are shown by LEDs.
LEMMA LedTypes ==
  /\ \A p \in Shown : /\ Green(p) \in [green : Shown, red : Shown]
                      /\ Red(p) \in [green : Shown, red : Shown]
                      /\ Amber(p) \in [green : Shown, red : Shown]
  /\ AllOff \in [green : Shown, red : Shown]
  /\ \A shown \in [green : Shown, red : Shown] :
       TamperSwitchStatus(shown) \in [green : Shown, red : Shown]
<1>1. \A p \in Shown : /\ Green(p) \in [green : Shown, red : Shown]
                       /\ Red(p) \in [green : Shown, red : Shown]
                       /\ Amber(p) \in [green : Shown, red : Shown]
      BY DEF Green, Red, Amber, Shown
<1>2. {"off", "tamper"} \subseteq Shown
      BY DEF Shown, Patterns
<1>3. \A shown \in [green : Shown, red : Shown] :
        [shown EXCEPT !.red = "off"] \in [green : Shown, red : Shown]
      BY <1>2
<1> QED
    BY <1>1, <1>2, <1>3, Zenon DEF AllOff, TamperSwitchStatus

\* The initial states are well-typed.
LEMMA InitType == Init => TypeOK
<1> SUFFICES ASSUME Init
             PROVE  TypeOK
    OBVIOUS
<1> USE UserInterfaceAssumption DEF Init
<1>1. /\ actors \in Scenes /\ irq \subseteq Timed \cup {"tamper"} /\ disturbed \subseteq Timed
      /\ queue \in Seq(Message) /\ Len(queue) <= QueueDepth /\ acts \in 0 .. MaxActs
      /\ call \in Codes \cup {"none"}
      OBVIOUS
<1>2. /\ since \in [Timed -> Nat] /\ hold \in [Timed -> Nat]
      /\ \A i \in Timed : since[i] <= Horizon(i) /\ hold[i] <= Horizon(i)
      BY AgeType
<1>3. led \in [green : Shown, red : Shown]
      BY DEF Shown
<1>4. held \in [Timed -> BOOLEAN] /\ open \in BOOLEAN /\ pressSeen \in BOOLEAN
      BY Zenon
<1>5. TruthValues
      BY Zenon DEF TruthValues
<1> QED
    BY <1>1, <1>2, <1>3, <1>4, <1>5, TruthOfSet, Zenon DEF TypeOK

\* What a served interrupt does to the time of its input keeps the types.
LEMMA ServedType ==
  ASSUME TypeOK, NEW i \in Timed
  PROVE  /\ AfterEvent(i) \in [Timed -> Nat]
         /\ AfterEvent(i)[i] = 0 /\ \A j \in Timed \ {i} : AfterEvent(i)[j] = since[j]
         /\ \A j \in Timed : AfterEvent(i)[j] <= Horizon(j)
         /\ Undisturbed(i) \subseteq Timed
<1>1. /\ AfterEvent(i) \in [Timed -> Nat]
      /\ AfterEvent(i)[i] = 0 /\ \A j \in Timed \ {i} : AfterEvent(i)[j] = since[j]
      BY DEF TypeOK, AfterEvent
<1>2. ASSUME NEW j \in Timed
      PROVE  AfterEvent(i)[j] <= Horizon(j)
  <2>1. Horizon(j) \in Nat /\ since[j] <= Horizon(j)
        BY AgeType DEF TypeOK
  <2>2. CASE j = i
        BY <1>1, <2>1, <2>2
  <2>3. CASE j # i
        BY <1>1, <2>1, <2>3
  <2> QED
      BY <2>2, <2>3
<1>3. Undisturbed(i) \subseteq Timed
      BY DEF TypeOK, Undisturbed
<1> QED
    BY <1>1, <1>2, <1>3

\* The world keeps the types.
LEMMA WorldType ==
  ASSUME TypeOK,
         \/ \E i \in Timed \cap actors : Moves(i)
         \/ TamperMoves
         \/ Tick
         \/ WriteAttribute
  PROVE  TypeOK'
<1>0. TruthValues
      BY TruthOfSet, Zenon DEF TypeOK
<1>1. ASSUME NEW i \in Timed, Moves(i)
      PROVE  TypeOK'
  <2>1. held' \in [Timed -> BOOLEAN]
        BY <1>1, Zenon DEF Moves, TypeOK
  <2>2. irq' \subseteq Timed \cup {"tamper"} /\ disturbed' \subseteq Timed
        BY <1>1 DEF Moves, Merges, TypeOK
  <2>3. /\ hold' \in [Timed -> Nat]
        /\ \A j \in Timed : hold'[j] <= Horizon(j)
        BY <1>1, AgeType DEF Moves, TypeOK
  <2>4. acts' \in 0 .. MaxActs
        BY <1>1, UserInterfaceAssumption DEF Moves, Act, TypeOK
  <2> QED
      BY <1>0, <1>1, <2>1, <2>2, <2>3, <2>4, TruthOfSet, Zenon DEF Moves, task, TypeOK, TruthValues
<1>2. CASE TamperMoves
  <2>1. irq' \subseteq Timed \cup {"tamper"}
        BY <1>2 DEF TamperMoves, TypeOK
  <2>2. acts' \in 0 .. MaxActs
        BY <1>2, UserInterfaceAssumption DEF TamperMoves, Act, TypeOK
  <2>3. open' \in BOOLEAN
        BY <1>2, Zenon DEF TamperMoves, TypeOK
  <2> QED
      BY <1>0, <1>2, <2>1, <2>2, <2>3, TruthOfSet, Zenon DEF TamperMoves, task, TypeOK, TruthValues
<1>3. CASE Tick
  <2>1. /\ since' \in [Timed -> Nat] /\ hold' \in [Timed -> Nat]
        /\ \A i \in Timed : since'[i] <= Horizon(i) /\ hold'[i] <= Horizon(i)
        BY <1>3, AgeType DEF Tick, TypeOK
  <2> QED
      BY <1>0, <1>3, <2>1, TruthOfSet, Zenon DEF Tick, task, TypeOK, TruthValues
<1>4. CASE WriteAttribute
  <2>1. acts' \in 0 .. MaxActs
        BY <1>4, UserInterfaceAssumption DEF WriteAttribute, Act, TypeOK
  <2>2. active' \in BOOLEAN /\ enabled' \in BOOLEAN
        BY <1>0, <1>4, Zenon DEF WriteAttribute, TruthValues
  <2>3. TruthValues'
        BY <1>0, <1>4, <2>2, Zenon DEF WriteAttribute, TruthValues
  <2>4. {lost, started, active, enabled, resets, dm, overlapped}' \subseteq BOOLEAN
        BY <2>3, Zenon DEF TruthValues
  <2> QED
      BY <1>4, <2>1, <2>4, Zenon DEF WriteAttribute, TypeOK
<1> QED
    BY <1>1, <1>2, <1>3, <1>4

\* The senders of messages keep the types.
LEMMA SenderType ==
  ASSUME TypeOK, Interrupt \/ SimulateMagnet \/ SendOfClient \/ lwm2m_client_connected_event
  PROVE  TypeOK'
<1>0. /\ TruthValues /\ lost \in BOOLEAN
      /\ queue \in Seq(Message) /\ Len(queue) <= QueueDepth
      /\ {"button", "magnet"} = Timed
      BY TruthOfSet, Zenon DEF TypeOK, TruthValues, Timed
<1>1. CASE Button0HandlerIsr
  <2> DEFINE c == ButtonCode(since["button"])
  <2>1. queue' \in Seq(Message) /\ Len(queue') <= QueueDepth /\ lost' \in BOOLEAN
    <3>1. CASE Post(c, "button") /\ c # "none"
      <4>1. c \in Codes
            BY <3>1, CodesOfHandlers, Zenon
      <4> QED
          BY <1>0, <3>1, <4>1, PostStep
    <3>2. CASE UNCHANGED <<queue, lost>>
          BY <1>0, <3>2
    <3> QED
        BY <1>1, <3>1, <3>2, Zenon DEF Button0HandlerIsr
  <2>2. irq' \subseteq Timed \cup {"tamper"}
        BY <1>1 DEF Button0HandlerIsr, TypeOK
  <2>3. pressSeen' \in BOOLEAN
        BY <1>1, Zenon DEF Button0HandlerIsr
  <2>4. /\ since' \in [Timed -> Nat] /\ disturbed' \subseteq Timed
        /\ \A i \in Timed : since'[i] <= Horizon(i)
        BY <1>0, <1>1, ServedType DEF Button0HandlerIsr
  <2> QED
      BY <1>0, <1>1, <2>1, <2>2, <2>3, <2>4, TruthOfSet, Zenon
      DEF Button0HandlerIsr, task, TypeOK, TruthValues
<1>2. CASE Button1HandlerIsr
  <2>1. queue' \in Seq(Message) /\ Len(queue') <= QueueDepth /\ lost' \in BOOLEAN
        BY <1>0, <1>2, PostStep, CodesOfHandlers DEF Button1HandlerIsr
  <2>2. irq' \subseteq Timed \cup {"tamper"}
        BY <1>2 DEF Button1HandlerIsr, TypeOK
  <2> QED
      BY <1>0, <1>2, <2>1, <2>2, TruthOfSet, Zenon
      DEF Button1HandlerIsr, task, TypeOK, TruthValues
<1>3. CASE Button2HandlerIsr
  <2>1. queue' \in Seq(Message) /\ Len(queue') <= QueueDepth /\ lost' \in BOOLEAN
    <3> DEFINE c == MagnetCode(held["magnet"], since["magnet"])
    <3>1. c \in Codes /\ Post(c, "magnet") /\ "magnet" \in Timed
          BY <1>0, <1>3, CodesOfHandlers DEF Button2HandlerIsr
    <3> HIDE DEF c
    <3> QED
        BY <1>0, <3>1, PostStep
  <2>2. irq' \subseteq Timed \cup {"tamper"}
        BY <1>3 DEF Button2HandlerIsr, TypeOK
  <2>3. /\ since' \in [Timed -> Nat] /\ disturbed' \subseteq Timed
        /\ \A i \in Timed : since'[i] <= Horizon(i)
        BY <1>0, <1>3, ServedType DEF Button2HandlerIsr
  <2>4. overlapped' \in BOOLEAN
        BY <1>3, Zenon DEF Button2HandlerIsr
  <2> QED
      BY <1>0, <1>3, <2>1, <2>2, <2>3, <2>4, TruthOfSet, Zenon
      DEF Button2HandlerIsr, task, TypeOK, TruthValues
<1>4. CASE SimulateMagnet
  <2>1. call' \in Codes \cup {"none"}
        BY <1>4, CodesOfHandlers DEF SimulateMagnet
  <2>2. /\ since' \in [Timed -> Nat] /\ disturbed' \subseteq Timed
        /\ \A i \in Timed : since'[i] <= Horizon(i)
        BY <1>0, <1>4, ServedType DEF SimulateMagnet, TypeOK
  <2>3. acts' \in 0 .. MaxActs
        BY <1>4, UserInterfaceAssumption DEF SimulateMagnet, Act, TypeOK
  <2> QED
      BY <1>0, <1>4, <2>1, <2>2, <2>3, TruthOfSet, Zenon
      DEF SimulateMagnet, task, TypeOK, TruthValues
<1>5. CASE SendOfClient
  <2>1. queue' \in Seq(Message) /\ Len(queue') <= QueueDepth /\ lost' \in BOOLEAN
    <3>1. call \in Codes /\ Post(call, "client")
          BY <1>5, Zenon DEF SendOfClient, TypeOK
    <3> QED
        BY <1>0, <3>1, PostStep
  <2> QED
      BY <1>0, <1>5, <2>1, TruthOfSet, Zenon
      DEF SendOfClient, world, task, TypeOK, TruthValues
<1>6. CASE lwm2m_client_connected_event
  <2>1. queue' \in Seq(Message) /\ Len(queue') <= QueueDepth /\ lost' \in BOOLEAN
    <3>1. DmCode(~dm) \in Codes /\ Post(DmCode(~dm), "dm")
          BY <1>6, CodesOfHandlers DEF lwm2m_client_connected_event
    <3> QED
        BY <1>0, <3>1, PostStep
  <2>2. acts' \in 0 .. MaxActs
        BY <1>6, UserInterfaceAssumption DEF lwm2m_client_connected_event, Act, TypeOK
  <2>3. dm' \in BOOLEAN
        BY <1>6, Zenon DEF lwm2m_client_connected_event
  <2> QED
      BY <1>0, <1>6, <2>1, <2>2, <2>3, TruthOfSet, Zenon
      DEF lwm2m_client_connected_event, task, TypeOK, TruthValues
<1> QED
    BY <1>1, <1>2, <1>3, <1>4, <1>5, <1>6 DEF Interrupt

\* The task keeps the types.
LEMMA TaskType ==
  ASSUME TypeOK, UserIfTaskThread \/ MessageHandler \/ PatternEnds("green") \/ PatternEnds("red")
  PROVE  TypeOK'
<1>0. TruthValues /\ led \in [green : Shown, red : Shown]
      BY TruthOfSet, Zenon DEF TypeOK
<1>1. CASE UserIfTaskThread
  <2>1. led' \in [green : Shown, red : Shown] /\ started' \in BOOLEAN
        BY <1>1, LedTypes, Zenon DEF UserIfTaskThread
  <2> QED
      BY <1>0, <1>1, <2>1, TruthOfSet, Zenon
      DEF UserIfTaskThread, world, TypeOK, TruthValues
<1>2. CASE MessageHandler
  <2>1. {"alive", "tamper", "exit", "reset", "on", "dm"} \subseteq Shown
        BY DEF Shown, Patterns
  <2>2. /\ led' \in [green : Shown, red : Shown]
        /\ active' \in BOOLEAN /\ resets' \in BOOLEAN
        BY <1>0, <1>2, <2>1, LedTypes, Zenon
        DEF MessageHandler, AliveMsgHandler, TamperMsgHandler, AmrLedOnMsgHandler,
            LedsOffMsgHandler, DmConnectedMsgHandler, EnterActiveModeMsgHandler,
            UiFactoryResetMsgHandler, Shows, TruthValues
  <2>3. Handled /\ queue # <<>>
        BY <1>2, Zenon
        DEF MessageHandler, AliveMsgHandler, TamperMsgHandler, AmrLedOnMsgHandler,
            LedsOffMsgHandler, DmConnectedMsgHandler, EnterActiveModeMsgHandler,
            UiFactoryResetMsgHandler, Receives
  <2>4. queue' \in Seq(Message) /\ Len(queue') <= QueueDepth
        BY <2>3, UserInterfaceAssumption DEF Handled, TypeOK
  <2> QED
      BY <1>0, <2>2, <2>3, <2>4, TruthOfSet, Zenon DEF Handled, world, TypeOK, TruthValues
<1>3. ASSUME NEW colour \in {"green", "red"}, PatternEnds(colour)
      PROVE  TypeOK'
  <2>1. led' \in [green : Shown, red : Shown]
        BY <1>0, <1>3 DEF PatternEnds, Shown
  <2> QED
      BY <1>0, <1>3, <2>1, TruthOfSet, Zenon DEF PatternEnds, world, TypeOK, TruthValues
<1> QED
    BY <1>1, <1>2, <1>3

\* Every step keeps the types.
LEMMA NextType == TypeOK /\ [Next]_vars => TypeOK'
<1> SUFFICES ASSUME TypeOK, [Next]_vars
             PROVE  TypeOK'
    OBVIOUS
<1>1. CASE UNCHANGED vars
      BY <1>1, Zenon DEF vars, world, task, TypeOK
<1> QED
    BY <1>1, WorldType, SenderType, TaskType, Zenon DEF Next

\* Every reachable state of the user interface is well-typed, and its queue keeps its depth.
THEOREM TypeCorrect == Spec => []TypeOK
  BY InitType, NextType, PTL DEF Spec

----------------------------------------------------------------------------
(* Commands follow holds                                                   *)

\* A press starts the time of the hold, which is that since the last event as long as the input
\* is held and, after its release, until the interrupt is served, unless the input was disturbed.
HoldInv ==
  \A i \in Timed :
    /\ held[i] => i \in actors
    /\ held[i] /\ i \in irq => hold[i] = 0
    /\ i \notin disturbed /\ (held[i] <=> i \notin irq) => since[i] = hold[i]

\* Serving the interrupt of an input keeps HoldInv.
LEMMA ServedKeepsHold ==
  ASSUME TypeOK, HoldInv, NEW k \in Timed, k \in irq, irq' = irq \ {k}, since' = AfterEvent(k),
         disturbed' = Undisturbed(k), held' = held, hold' = hold, actors' = actors
  PROVE  HoldInv'
<1> SUFFICES ASSUME NEW i \in Timed
             PROVE  /\ held'[i] => i \in actors'
                    /\ held'[i] /\ i \in irq' => hold'[i] = 0
                    /\ i \notin disturbed' /\ (held'[i] <=> i \notin irq') => since'[i] = hold'[i]
    BY DEF HoldInv
<1>1. /\ held[i] => i \in actors
      /\ held[i] /\ i \in irq => hold[i] = 0
      /\ i \notin disturbed /\ (held[i] <=> i \notin irq) => since[i] = hold[i]
      BY DEF HoldInv
<1>2. held[i] \in BOOLEAN
      BY DEF TypeOK
<1>3. CASE i = k
      BY <1>1, <1>2, <1>3, ServedType
<1>4. CASE i # k
  <2>1. since'[i] = since[i] /\ (i \in irq' <=> i \in irq) /\ (i \in disturbed' <=> i \in disturbed)
        BY <1>4, ServedType DEF Undisturbed
  <2> QED
      BY <1>1, <2>1
<1> QED
    BY <1>3, <1>4

\* HoldInv is an invariant of the specification.
LEMMA HoldInvariant == Spec => []HoldInv
<1>1. Init => HoldInv
  <2> SUFFICES ASSUME Init, NEW i \in Timed
               PROVE  /\ held[i] => i \in actors
                      /\ i \notin irq
                      /\ since[i] = hold[i]
      BY DEF HoldInv
  <2>1. held[i] => i \in actors
        BY Zenon DEF Init
  <2>2. i \notin irq /\ since[i] = hold[i]
        BY DEF Init
  <2> QED
      BY <2>1, <2>2
<1>2. TypeOK /\ HoldInv /\ [Next]_vars => HoldInv'
  <2> SUFFICES ASSUME TypeOK, HoldInv, [Next]_vars
               PROVE  HoldInv'
      OBVIOUS
  <2>1. ASSUME NEW k \in Timed \cap actors, Moves(k)
        PROVE  HoldInv'
    <3> SUFFICES ASSUME NEW i \in Timed
                 PROVE  /\ held'[i] => i \in actors'
                        /\ held'[i] /\ i \in irq' => hold'[i] = 0
                        /\ i \notin disturbed' /\ (held'[i] <=> i \notin irq') =>
                             since'[i] = hold'[i]
        BY DEF HoldInv
    <3>1. /\ held[i] => i \in actors
          /\ held[i] /\ i \in irq => hold[i] = 0
          /\ i \notin disturbed /\ (held[i] <=> i \notin irq) => since[i] = hold[i]
          BY DEF HoldInv
    <3>2. actors' = actors /\ since' = since
          BY <2>1 DEF Moves
    <3>3. CASE i = k
      <4>1. i \in irq' /\ (i \in irq => i \in disturbed') /\ (i \in disturbed => i \in disturbed')
            BY <2>1, <3>3 DEF Moves, Merges
      <4>2. /\ held[i] \in BOOLEAN /\ held'[i] = ~held[i]
            /\ held[i] => hold' = hold
            /\ ~held[i] => hold'[i] = 0
            BY <2>1, <3>3 DEF Moves, TypeOK
      <4> QED
          BY <3>1, <3>2, <3>3, <4>1, <4>2
    <3>4. CASE i # k
      <4>1. (i \in irq' <=> i \in irq) /\ (i \in disturbed => i \in disturbed')
            BY <2>1, <3>4 DEF Moves, Merges
      <4>2. held'[i] = held[i] /\ hold'[i] = hold[i]
            BY <2>1, <3>4 DEF Moves, TypeOK
      <4> QED
          BY <3>1, <3>2, <4>1, <4>2
    <3> QED
        BY <3>3, <3>4
  <2>2. CASE TamperMoves \/ Button1HandlerIsr
    <3>1. /\ held' = held /\ hold' = hold /\ actors' = actors /\ since' = since
          /\ disturbed' = disturbed
          /\ \A i \in Timed : i \in irq' <=> i \in irq
          BY <2>2 DEF TamperMoves, Button1HandlerIsr, Timed
    <3> QED
        BY <3>1, Zenon DEF HoldInv
  <2>3. CASE Tick
    <3> SUFFICES ASSUME NEW i \in Timed
                 PROVE  /\ held'[i] => i \in actors'
                        /\ i \notin irq'
                        /\ i \notin disturbed' /\ held'[i] => since'[i] = hold'[i]
        BY DEF HoldInv
    <3>1. /\ held[i] => i \in actors
          /\ i \notin disturbed /\ held[i] => since[i] = hold[i]
          BY <2>3 DEF HoldInv, Tick
    <3>2. /\ irq' = {} /\ held' = held /\ actors' = actors /\ disturbed' = disturbed
          /\ i \in actors => since'[i] = Age(i, since[i])
          /\ held[i] => hold'[i] = Age(i, hold[i])
          BY <2>3 DEF Tick
    <3> QED
        BY <3>1, <3>2
  <2>4. CASE Button0HandlerIsr
        BY <2>4, ServedKeepsHold DEF Button0HandlerIsr, Timed
  <2>5. CASE Button2HandlerIsr
        BY <2>5, ServedKeepsHold DEF Button2HandlerIsr, Timed
  <2>6. CASE SimulateMagnet
    <3>1. /\ held' = held /\ hold' = hold /\ actors' = actors /\ irq' = irq
          /\ disturbed' = disturbed \cup {"magnet"}
          /\ \A i \in Timed \ {"magnet"} : since'[i] = since[i]
          BY <2>6, ServedType DEF SimulateMagnet, Timed
    <3> QED
        BY <3>1 DEF HoldInv
  <2>7. CASE \/ SendOfClient \/ WriteAttribute \/ lwm2m_client_connected_event \/ UserIfTaskThread
             \/ MessageHandler \/ PatternEnds("green") \/ PatternEnds("red") \/ UNCHANGED vars
    <3>1. /\ held' = held /\ hold' = hold /\ actors' = actors /\ since' = since /\ irq' = irq
          /\ disturbed' = disturbed
          BY <2>7, Zenon
          DEF SendOfClient, WriteAttribute, lwm2m_client_connected_event, UserIfTaskThread,
              MessageHandler, AliveMsgHandler, TamperMsgHandler, AmrLedOnMsgHandler,
              LedsOffMsgHandler, DmConnectedMsgHandler, EnterActiveModeMsgHandler,
              UiFactoryResetMsgHandler, Handled, PatternEnds, vars, world
    <3> QED
        BY <3>1, Zenon DEF HoldInv
  <2> QED
      BY <2>1, <2>2, <2>3, <2>4, <2>5, <2>6, <2>7, Zenon DEF Next, Interrupt
<1> QED
    BY <1>1, <1>2, TypeCorrect, PTL DEF Spec

\* What a step posts is the code of its handler.
LEMMA PostedBy ==
  ASSUME TypeOK, NEW m \in Message, NEW code \in Codes,
         NEW by \in Timed \cup {"tamper", "dm", "client"}, Post(code, by), Posted(m)
  PROVE  m = [code |-> code, by |-> by]
<1>1. queue \in Seq(Message) /\ Len(queue) <= QueueDepth /\ lost \in BOOLEAN
      BY TruthOfSet, Zenon DEF TypeOK, TruthValues
<1>2. CASE queue' = Append(queue, [code |-> code, by |-> by])
  <2>1. [code |-> code, by |-> by] \in Message
        BY DEF Message
  <2> QED
      BY <1>1, <1>2, <2>1 DEF Posted, Last
<1>3. CASE queue' = queue
      BY <1>1, <1>3 DEF Posted
<1> QED
    BY <1>1, <1>2, <1>3, PostStep

\* A step that posts nothing makes the queue no longer.
LEMMA NothingPosted ==
  ASSUME TypeOK, queue' = queue \/ (queue # <<>> /\ queue' = Tail(queue)), NEW m
  PROVE  ~Posted(m)
  BY DEF TypeOK, Posted

\* A device leaves shelf mode, or is reset by hand, only after its button was held, or the magnet
\* near, for a time within the window of the command.
THEOREM HoldsPrecedeCommands == Spec => CommandsFollowHolds
<1> DEFINE Exit(i)  == [code |-> "ENTER_ACTIVE_MODE", by |-> i]
           Reset(i) == [code |-> "FACTORY_RESET", by |-> i]
           Rule(i)  == /\ Posted(Exit(i)) => ValidExitShelfModeDuration(hold[i])
                       /\ Posted(Reset(i)) => ValidFactoryResetDuration(hold[i])
<1>1. TypeOK /\ HoldInv /\ [Next]_vars => [\A i \in Timed \ disturbed : Rule(i)]_vars
  <2> SUFFICES ASSUME TypeOK, HoldInv, Next, NEW i \in Timed \ disturbed
               PROVE  Rule(i)
      OBVIOUS
  <2>0. /\ Exit(i) \in Message /\ Reset(i) \in Message
        /\ Exit(i).by = i /\ Reset(i).by = i
        /\ Exit(i).code = "ENTER_ACTIVE_MODE" /\ Reset(i).code = "FACTORY_RESET"
        /\ i \in {"button", "magnet"}
        BY DEF Message, Codes, Timed
  <2> HIDE DEF Exit, Reset
  <2>1. CASE Button0HandlerIsr
    <3>1. CASE UNCHANGED <<queue, lost>>
          BY <3>1, NothingPosted
    <3>2. CASE ~held["button"] /\ ButtonCode(since["button"]) # "none"
               /\ Post(ButtonCode(since["button"]), "button")
      <4> DEFINE c == ButtonCode(since["button"])
      <4>1. c \in Codes /\ "button" \in Timed
            BY <3>2, CodesOfHandlers DEF Timed
      <4>2. /\ c = "ENTER_ACTIVE_MODE" => ValidExitShelfModeDuration(since["button"])
            /\ c = "FACTORY_RESET" => ValidFactoryResetDuration(since["button"])
            BY DEF ButtonCode
      <4>3. i = "button" => since["button"] = hold["button"]
            BY <2>1, <3>2, <4>1 DEF Button0HandlerIsr, HoldInv
      <4> HIDE DEF c
      <4>4. \A m \in Message : Posted(m) => m = [code |-> c, by |-> "button"]
            BY <3>2, <4>1, PostedBy DEF c
      <4> QED
          BY <2>0, <4>2, <4>3, <4>4
    <3> QED
        BY <2>1, <3>1, <3>2, Zenon DEF Button0HandlerIsr
  <2>2. CASE Button1HandlerIsr
    <3>1. \A m \in Message : Posted(m) => m = [code |-> "TAMPER", by |-> "tamper"]
          BY <2>2, PostedBy, CodesOfHandlers DEF Button1HandlerIsr
    <3> QED
        BY <2>0, <3>1
  <2>3. CASE Button2HandlerIsr
    <3> DEFINE c == MagnetCode(held["magnet"], since["magnet"])
    <3>1. c \in Codes /\ "magnet" \in Timed /\ c # "FACTORY_RESET"
          BY CodesOfHandlers DEF Timed
    <3>2. c = "ENTER_ACTIVE_MODE" => ~held["magnet"] /\ ValidExitShelfModeDuration(since["magnet"])
          BY DEF MagnetCode
    <3>3. i = "magnet" /\ ~held["magnet"] => since["magnet"] = hold["magnet"]
          BY <2>3, <3>1 DEF Button2HandlerIsr, HoldInv
    <3>4. Post(c, "magnet")
          BY <2>3 DEF Button2HandlerIsr
    <3> HIDE DEF c
    <3>5. \A m \in Message : Posted(m) => m = [code |-> c, by |-> "magnet"]
          BY <3>1, <3>4, PostedBy
    <3> QED
        BY <2>0, <3>1, <3>2, <3>3, <3>5
  <2>4. CASE SendOfClient
    <3>1. \A m \in Message : Posted(m) => m = [code |-> call, by |-> "client"]
          BY <2>4, PostedBy DEF SendOfClient, TypeOK
    <3> QED
        BY <2>0, <3>1
  <2>5. CASE lwm2m_client_connected_event
    <3>1. \A m \in Message : Posted(m) => m = [code |-> DmCode(~dm), by |-> "dm"]
          BY <2>5, PostedBy, CodesOfHandlers DEF lwm2m_client_connected_event
    <3> QED
        BY <2>0, <3>1
  <2>6. CASE \/ \E k \in Timed \cap actors : Moves(k)
             \/ TamperMoves \/ Tick \/ SimulateMagnet \/ WriteAttribute \/ UserIfTaskThread
             \/ MessageHandler \/ PatternEnds("green") \/ PatternEnds("red")
    <3>1. queue' = queue \/ (queue # <<>> /\ queue' = Tail(queue))
          BY <2>6, Zenon
          DEF Moves, TamperMoves, Tick, SimulateMagnet, WriteAttribute, UserIfTaskThread,
              MessageHandler, AliveMsgHandler, TamperMsgHandler, AmrLedOnMsgHandler,
              LedsOffMsgHandler, DmConnectedMsgHandler, EnterActiveModeMsgHandler,
              UiFactoryResetMsgHandler, Handled, Receives, PatternEnds
    <3> QED
        BY <3>1, NothingPosted
  <2> QED
      BY <2>1, <2>2, <2>3, <2>4, <2>5, <2>6, Zenon DEF Next, Interrupt
<1> QED
    BY <1>1, TypeCorrect, HoldInvariant, PTL DEF Spec, CommandsFollowHolds

----------------------------------------------------------------------------
(* The LEDs tell the truth                                                 *)

\* A message whose code is in D waits, and every message with the code c is followed by one.
Waiting(D)     == \E j \in DOMAIN queue : queue[j].code \in D
Followed(c, D) == \A i \in DOMAIN queue : queue[i].code = c =>
                    \E j \in DOMAIN queue : j > i /\ queue[j].code \in D

\* Messages that are posted later change neither, unless one is to be followed itself; one that
\* follows, follows all.
LEMMA AppendKeeps ==
  ASSUME TypeOK, NEW m \in Message, queue' = Append(queue, m), NEW c, NEW D
  PROVE  /\ Waiting(D) => Waiting(D)'
         /\ Followed(c, D) /\ m.code # c => Followed(c, D)'
         /\ m.code \in D => Waiting(D)'
         /\ m.code \in D /\ m.code # c => Followed(c, D)'
<1> DEFINE n == Len(queue) + 1
<1>1. /\ n \in DOMAIN queue' /\ queue'[n] = m /\ Len(queue) \in Nat
      /\ \A i \in DOMAIN queue : i \in DOMAIN queue' /\ queue'[i] = queue[i] /\ i \in Nat /\ n > i
      /\ \A i \in DOMAIN queue' : i = n \/ i \in DOMAIN queue
      BY DEF TypeOK
<1> HIDE DEF n
<1>2. Waiting(D) => Waiting(D)'
      BY <1>1 DEF Waiting
<1>3. Followed(c, D) /\ m.code # c => Followed(c, D)'
      BY <1>1 DEF Followed
<1>4. m.code \in D => Waiting(D)'
      BY <1>1 DEF Waiting
<1>5. m.code \in D /\ m.code # c => Followed(c, D)'
      BY <1>1 DEF Followed
<1> QED
    BY <1>2, <1>3, <1>4, <1>5

\* Taking a message keeps what follows the others, and what follows it waits.
LEMMA TailKeeps ==
  ASSUME TypeOK, queue # <<>>, queue' = Tail(queue), NEW c, NEW D
  PROVE  /\ Waiting(D) /\ Head(queue).code \notin D => Waiting(D)'
         /\ Followed(c, D) => Followed(c, D)'
         /\ Followed(c, D) /\ Head(queue).code = c => Waiting(D)'
<1>1. /\ 1 \in DOMAIN queue /\ queue[1] = Head(queue)
      /\ \A i \in DOMAIN queue : i \in Nat /\ (i # 1 => i - 1 \in DOMAIN queue' /\ i > 1)
      /\ \A i \in DOMAIN queue' : i \in Nat /\ i + 1 \in DOMAIN queue /\ queue'[i] = queue[i + 1]
      /\ \A i \in DOMAIN queue : i # 1 => queue'[i - 1] = queue[i]
      BY DEF TypeOK
<1>2. Waiting(D) /\ Head(queue).code \notin D => Waiting(D)'
      BY <1>1 DEF Waiting
<1>3. ASSUME Followed(c, D), NEW i \in DOMAIN queue', queue'[i].code = c
      PROVE  \E j \in DOMAIN queue' : j > i /\ queue'[j].code \in D
  <2>1. PICK j \in DOMAIN queue : j > i + 1 /\ queue[j].code \in D
        BY <1>1, <1>3 DEF Followed
  <2>2. j - 1 \in DOMAIN queue' /\ queue'[j - 1] = queue[j] /\ j - 1 > i
        BY <1>1, <2>1
  <2> QED
      BY <2>1, <2>2
<1>4. ASSUME Followed(c, D), Head(queue).code = c
      PROVE  Waiting(D)'
  <2>1. PICK j \in DOMAIN queue : j > 1 /\ queue[j].code \in D
        BY <1>1, <1>4 DEF Followed
  <2>2. j - 1 \in DOMAIN queue' /\ queue'[j - 1] = queue[j]
        BY <1>1, <2>1
  <2> QED
      BY <2>1, <2>2 DEF Waiting
<1> QED
    BY <1>2, <1>3, <1>4 DEF Followed

\* The codes that turn the steady green light off.
OffCodes == {"LEDS_OFF", "ENTER_ACTIVE_MODE"}

\* The connection is down: what shows it is turned off, after the last message that turns it on.
DmTold ==
  ~dm => /\ led.green = "dm" => Waiting({"LEDS_OFF"})
         /\ Followed("DM_CONNECTED", {"LEDS_OFF"})

\* So it is with the magnet that is away, once its interrupt is served outside of a client's call.
MagnetTold ==
  ~held["magnet"] /\ ~overlapped /\ "magnet" \notin irq =>
    /\ call # "AMR_LED_ON"
    /\ led.green = "on" => Waiting(OffCodes)
    /\ Followed("AMR_LED_ON", OffCodes)

\* The LED that shows an open tamper switch is looked at again after it has closed.
TamperTold == led.red = "tamper" /\ ~open => "tamper" \in irq \/ Waiting({"TAMPER"})

LedInv ==
  /\ call \in {"none", "AMR_LED_ON", "ENTER_ACTIVE_MODE", "LEDS_OFF"}
  /\ ~lost => DmTold /\ MagnetTold /\ TamperTold

\* What a message's handler shows.
LEMMA HandlerShows ==
  ASSUME TypeOK, MessageHandler
  PROVE  /\ queue # <<>> /\ queue' = Tail(queue)
         /\ UNCHANGED <<world, lost, call, overlapped>>
         /\ led'.green = "dm" =>
              \/ Head(queue).code = "DM_CONNECTED"
              \/ led.green = "dm" /\ Head(queue).code # "LEDS_OFF"
         /\ led'.green = "on" =>
              \/ Head(queue).code = "AMR_LED_ON"
              \/ led.green = "on" /\ Head(queue).code \notin OffCodes
         /\ led'.red = "tamper" => open \/ (led.red = "tamper" /\ Head(queue).code # "TAMPER")
<1> USE DEF Receives, Handled, Shows
<1>0. led \in [green : Shown, red : Shown]
      BY DEF TypeOK
<1>1. CASE AliveMsgHandler
      BY <1>1 DEF AliveMsgHandler, Amber
<1>2. CASE TamperMsgHandler
  <2>1. /\ led'.green = "dm" => led.green = "dm"
        /\ led'.green = "on" => led.green = "on"
        /\ led'.red = "tamper" => open
        BY <1>0, <1>2 DEF TamperMsgHandler, TamperSwitchStatus, Red
  <2> QED
      BY <1>2, <2>1 DEF TamperMsgHandler, OffCodes
<1>3. CASE AmrLedOnMsgHandler
      BY <1>3 DEF AmrLedOnMsgHandler, Green
<1>4. CASE LedsOffMsgHandler
      BY <1>4 DEF LedsOffMsgHandler, AllOff, Amber
<1>5. CASE DmConnectedMsgHandler
      BY <1>5 DEF DmConnectedMsgHandler, Green
<1>6. CASE EnterActiveModeMsgHandler
      BY <1>6 DEF EnterActiveModeMsgHandler, Green
<1>7. CASE UiFactoryResetMsgHandler
      BY <1>7 DEF UiFactoryResetMsgHandler, Amber, Red
<1> QED
    BY <1>1, <1>2, <1>3, <1>4, <1>5, <1>6, <1>7 DEF MessageHandler

\* Posting a message that lights nothing, or is true, keeps what is told.
LEMMA PostKeepsTold ==
  ASSUME TypeOK, NEW code \in Codes, NEW by \in Timed \cup {"tamper", "dm", "client"},
         Post(code, by), ~lost', led' = led
  PROVE  /\ ~lost
         /\ \A D : Waiting(D) => Waiting(D)'
         /\ \A c, D : Followed(c, D) /\ code # c => Followed(c, D)'
         /\ \A D : code \in D => Waiting(D)'
         /\ \A c, D : code \in D /\ code # c => Followed(c, D)'
<1>1. queue \in Seq(Message) /\ Len(queue) <= QueueDepth /\ lost \in BOOLEAN
      BY TruthOfSet, Zenon DEF TypeOK, TruthValues
<1>2. ~lost /\ queue' = Append(queue, [code |-> code, by |-> by])
      BY <1>1, PostStep
<1>3. [code |-> code, by |-> by] \in Message
      BY DEF Message
<1> QED
    BY <1>2, <1>3, AppendKeeps

\* LedInv is an invariant of the specification.
LEMMA LedInvariant == Spec => []LedInv
<1>1. Init => LedInv
  <2> SUFFICES ASSUME Init
               PROVE  LedInv
      OBVIOUS
  <2>1. led.green = "off" /\ led.red = "off" /\ call = "none" /\ queue = <<>>
        BY DEF Init
  <2> QED
      BY <2>1 DEF LedInv, DmTold, MagnetTold, TamperTold, Followed
<1>2. TypeOK /\ LedInv /\ [Next]_vars => LedInv'
  <2> SUFFICES ASSUME TypeOK, LedInv, [Next]_vars
               PROVE  LedInv'
      OBVIOUS
  <2>0. /\ call \in {"none", "AMR_LED_ON", "ENTER_ACTIVE_MODE", "LEDS_OFF"}
        /\ ~lost => DmTold /\ MagnetTold /\ TamperTold
        BY Zenon DEF LedInv
  <2>1. ASSUME NEW k \in Timed \cap actors, Moves(k)
        PROVE  LedInv'
    <3>1. /\ queue' = queue /\ led' = led /\ lost' = lost /\ dm' = dm /\ open' = open
          /\ call' = call /\ overlapped' = overlapped
          BY <2>1 DEF Moves, task
    <3>2. irq \subseteq irq' /\ (~held'["magnet"] /\ "magnet" \notin irq' => ~held["magnet"])
          BY <2>1 DEF Moves, TypeOK, Timed
    <3> QED
        BY <2>0, <3>1, <3>2, Zenon
        DEF LedInv, DmTold, MagnetTold, TamperTold, Waiting, Followed, Timed
  <2>2. CASE TamperMoves
    <3>1. /\ queue' = queue /\ led' = led /\ lost' = lost /\ dm' = dm /\ held' = held
          /\ call' = call /\ overlapped' = overlapped
          /\ irq' = irq \cup {"tamper"}
          BY <2>2 DEF TamperMoves, task
    <3>2. "tamper" \in irq' /\ ("magnet" \notin irq' => "magnet" \notin irq)
          BY <3>1
    <3> QED
        BY <2>0, <3>1, <3>2, Zenon DEF LedInv, DmTold, MagnetTold, TamperTold, Waiting, Followed
  <2>3. CASE Tick \/ WriteAttribute \/ UNCHANGED vars
    <3>1. /\ queue' = queue /\ led' = led /\ lost' = lost
          /\ dm' = dm /\ open' = open /\ held' = held
          /\ call' = call /\ overlapped' = overlapped /\ irq' = irq
          BY <2>3, Zenon DEF Tick, WriteAttribute, task, vars, world
    <3> QED
        BY <2>0, <3>1, Zenon DEF LedInv, DmTold, MagnetTold, TamperTold, Waiting, Followed
  <2>4. CASE Button0HandlerIsr
    <3> DEFINE c == ButtonCode(since["button"])
    <3>1. /\ led' = led /\ dm' = dm /\ open' = open /\ held' = held
          /\ call' = call /\ overlapped' = overlapped /\ irq' = irq \ {"button"}
          BY <2>4, Zenon DEF Button0HandlerIsr, task
    <3>2. /\ "magnet" \notin irq' => "magnet" \notin irq
          /\ "tamper" \in irq => "tamper" \in irq'
          BY <3>1
    <3>3. CASE UNCHANGED <<queue, lost>>
          BY <2>0, <3>1, <3>2, <3>3, Zenon
          DEF LedInv, DmTold, MagnetTold, TamperTold, Waiting, Followed
    <3>4. CASE Post(c, "button") /\ c # "none"
      <4>1. c \in Codes /\ "button" \in Timed /\ c # "DM_CONNECTED" /\ c # "AMR_LED_ON"
            BY <3>4 DEF ButtonCode, Codes, Timed
      <4> HIDE DEF c
      <4>2. SUFFICES ASSUME ~lost'
                     PROVE  DmTold' /\ MagnetTold' /\ TamperTold'
            BY <2>0, <3>1, Zenon DEF LedInv
      <4>3. /\ ~lost
            /\ \A D : Waiting(D) => Waiting(D)'
            /\ \A d, D : Followed(d, D) /\ c # d => Followed(d, D)'
            BY <3>1, <3>4, <4>1, <4>2, PostKeepsTold
      <4> QED
          BY <2>0, <3>1, <3>2, <4>1, <4>3, Zenon DEF DmTold, MagnetTold, TamperTold
    <3> QED
        BY <2>4, <3>3, <3>4, Zenon DEF Button0HandlerIsr
  <2>5. CASE Button1HandlerIsr
    <3>1. /\ led' = led /\ dm' = dm /\ open' = open /\ held' = held
          /\ call' = call /\ overlapped' = overlapped /\ irq' = irq \ {"tamper"}
          /\ Post("TAMPER", "tamper")
          BY <2>5, Zenon DEF Button1HandlerIsr, task
    <3>2. "magnet" \notin irq' => "magnet" \notin irq
          BY <3>1
    <3>3. SUFFICES ASSUME ~lost'
                   PROVE  DmTold' /\ MagnetTold' /\ TamperTold'
          BY <2>0, <3>1, Zenon DEF LedInv
    <3>4. "TAMPER" \in {"TAMPER"} /\ "TAMPER" # "DM_CONNECTED" /\ "TAMPER" # "AMR_LED_ON"
          OBVIOUS
    <3>5. /\ ~lost
          /\ \A D : Waiting(D) => Waiting(D)'
          /\ \A d, D : Followed(d, D) /\ "TAMPER" # d => Followed(d, D)'
          /\ \A D : "TAMPER" \in D => Waiting(D)'
          BY <3>1, <3>3, PostKeepsTold, CodesOfHandlers
    <3> QED
        BY <2>0, <3>1, <3>2, <3>4, <3>5, Zenon DEF DmTold, MagnetTold, TamperTold
  <2>6. CASE Button2HandlerIsr
    <3> DEFINE c == MagnetCode(held["magnet"], since["magnet"])
    <3>1. /\ led' = led /\ dm' = dm /\ open' = open /\ held' = held
          /\ call' = call /\ overlapped' = (call # "none") /\ irq' = irq \ {"magnet"}
          /\ Post(c, "magnet")
          BY <2>6, Zenon DEF Button2HandlerIsr, task
    <3>2. "tamper" \in irq => "tamper" \in irq'
          BY <3>1
    <3>3. /\ c \in Codes /\ "magnet" \in Timed /\ c # "DM_CONNECTED"
          /\ ~held["magnet"] => c \in OffCodes /\ c # "AMR_LED_ON"
          BY CodesOfHandlers DEF MagnetCode, OffCodes, Timed
    <3> HIDE DEF c
    <3>4. SUFFICES ASSUME ~lost'
                   PROVE  DmTold' /\ MagnetTold' /\ TamperTold'
          BY <2>0, <3>1, Zenon DEF LedInv
    <3>5. /\ ~lost
          /\ \A D : Waiting(D) => Waiting(D)'
          /\ \A d, D : Followed(d, D) /\ c # d => Followed(d, D)'
          /\ \A D : c \in D => Waiting(D)'
          /\ \A d, D : c \in D /\ c # d => Followed(d, D)'
          BY <3>1, <3>3, <3>4, PostKeepsTold
    <3>6. DmTold' /\ TamperTold'
          BY <2>0, <3>1, <3>2, <3>3, <3>5, Zenon DEF DmTold, TamperTold
    <3>7. MagnetTold'
      <4>1. call # "none" => overlapped'
            BY <3>1
      <4>2. call = "none" => call' # "AMR_LED_ON"
            BY <3>1
      <4> QED
          BY <3>1, <3>3, <3>5, <4>1, <4>2, Zenon DEF MagnetTold
    <3> QED
        BY <3>6, <3>7
  <2>7. CASE SimulateMagnet
    <3>1. /\ queue' = queue /\ led' = led /\ lost' = lost
          /\ dm' = dm /\ open' = open /\ held' = held
          /\ overlapped' = overlapped /\ irq' = irq
          /\ call' = MagnetCode(held["magnet"], since["magnet"])
          BY <2>7, Zenon DEF SimulateMagnet, task
    <3>2. /\ call' \in {"none", "AMR_LED_ON", "ENTER_ACTIVE_MODE", "LEDS_OFF"}
          /\ ~held["magnet"] => call' # "AMR_LED_ON"
          BY <3>1 DEF MagnetCode
    <3> QED
        BY <2>0, <3>1, <3>2, Zenon DEF LedInv, DmTold, MagnetTold, TamperTold, Waiting, Followed
  <2>8. CASE SendOfClient
    <3>1. /\ led' = led /\ dm' = dm /\ open' = open /\ held' = held /\ overlapped' = overlapped
          /\ irq' = irq /\ call' = "none" /\ Post(call, "client") /\ call # "none"
          BY <2>8, Zenon DEF SendOfClient, task, world
    <3>2. call \in Codes /\ call # "DM_CONNECTED"
          BY <2>0, <3>1, CodesOfHandlers
    <3>3. SUFFICES ASSUME ~lost'
                   PROVE  DmTold' /\ MagnetTold' /\ TamperTold'
      <4>1. call' \in {"none", "AMR_LED_ON", "ENTER_ACTIVE_MODE", "LEDS_OFF"}
            BY <3>1
      <4> QED
          BY <4>1, Zenon DEF LedInv
    <3>4. /\ ~lost
          /\ \A D : Waiting(D) => Waiting(D)'
          /\ \A d, D : Followed(d, D) /\ call # d => Followed(d, D)'
          BY <3>1, <3>2, <3>3, PostKeepsTold
    <3>5. call' # "AMR_LED_ON"
          BY <3>1
    <3> QED
        BY <2>0, <3>1, <3>2, <3>4, <3>5, Zenon DEF DmTold, MagnetTold, TamperTold
  <2>9. CASE lwm2m_client_connected_event
    <3> DEFINE c == DmCode(~dm)
    <3>1. /\ led' = led /\ open' = open /\ held' = held /\ overlapped' = overlapped
          /\ irq' = irq /\ call' = call /\ Post(c, "dm") /\ dm' = ~dm
          BY <2>9, Zenon DEF lwm2m_client_connected_event, task
    <3>2. /\ c \in Codes /\ c # "AMR_LED_ON"
          /\ ~dm' => c \in {"LEDS_OFF"} /\ c # "DM_CONNECTED"
          BY <3>1, CodesOfHandlers DEF DmCode
    <3> HIDE DEF c
    <3>3. SUFFICES ASSUME ~lost'
                   PROVE  DmTold' /\ MagnetTold' /\ TamperTold'
          BY <2>0, <3>1, Zenon DEF LedInv
    <3>4. /\ ~lost
          /\ \A D : Waiting(D) => Waiting(D)'
          /\ \A d, D : Followed(d, D) /\ c # d => Followed(d, D)'
          /\ \A D : c \in D => Waiting(D)'
          /\ \A d, D : c \in D /\ c # d => Followed(d, D)'
          BY <3>1, <3>2, <3>3, PostKeepsTold
    <3> QED
        BY <2>0, <3>1, <3>2, <3>4, Zenon DEF DmTold, MagnetTold, TamperTold
  <2>10. CASE UserIfTaskThread
    <3>1. /\ queue' = queue /\ lost' = lost /\ dm' = dm /\ open' = open /\ held' = held
          /\ call' = call /\ overlapped' = overlapped /\ irq' = irq
          BY <2>10, Zenon DEF UserIfTaskThread, world
    <3>2. led'.green = "off" /\ (led'.red = "tamper" => open)
          BY <2>10 DEF UserIfTaskThread, TamperSwitchStatus, AllOff, Amber, Red
    <3>3. led'.green # "dm" /\ led'.green # "on"
          BY <3>2
    <3> QED
        BY <2>0, <3>1, <3>2, <3>3, Zenon
        DEF LedInv, DmTold, MagnetTold, TamperTold, Waiting, Followed
  <2>11. CASE MessageHandler
    <3>1. /\ queue # <<>> /\ queue' = Tail(queue)
          /\ lost' = lost /\ dm' = dm /\ open' = open /\ held' = held
          /\ call' = call /\ overlapped' = overlapped /\ irq' = irq
          BY <2>11, HandlerShows DEF world
    <3>2. /\ \A D : Waiting(D) /\ Head(queue).code \notin D => Waiting(D)'
          /\ \A c, D : Followed(c, D) => Followed(c, D)'
          /\ \A c, D : Followed(c, D) /\ Head(queue).code = c => Waiting(D)'
          BY <3>1, TailKeeps
    <3>3. SUFFICES ASSUME ~lost'
                   PROVE  DmTold' /\ MagnetTold' /\ TamperTold'
          BY <2>0, <3>1, Zenon DEF LedInv
    <3>4. DmTold'
      <4>1. led'.green = "dm" => \/ Head(queue).code = "DM_CONNECTED"
                                 \/ led.green = "dm" /\ Head(queue).code \notin {"LEDS_OFF"}
            BY <2>11, HandlerShows
      <4> QED
          BY <2>0, <3>1, <3>2, <3>3, <4>1, Zenon DEF DmTold
    <3>5. MagnetTold'
      <4>1. led'.green = "on" => \/ Head(queue).code = "AMR_LED_ON"
                                 \/ led.green = "on" /\ Head(queue).code \notin OffCodes
            BY <2>11, HandlerShows
      <4> QED
          BY <2>0, <3>1, <3>2, <3>3, <4>1, Zenon DEF MagnetTold
    <3>6. TamperTold'
      <4>1. led'.red = "tamper" =>
              open \/ (led.red = "tamper" /\ Head(queue).code \notin {"TAMPER"})
            BY <2>11, HandlerShows
      <4> QED
          BY <2>0, <3>1, <3>2, <3>3, <4>1, Zenon DEF TamperTold
    <3> QED
        BY <3>4, <3>5, <3>6
  <2>12. ASSUME NEW colour \in {"green", "red"}, PatternEnds(colour)
         PROVE  LedInv'
    <3>1. /\ queue' = queue /\ lost' = lost /\ dm' = dm /\ open' = open /\ held' = held
          /\ call' = call /\ overlapped' = overlapped /\ irq' = irq
          BY <2>12, Zenon DEF PatternEnds, world
    <3>2. /\ led'.green = "dm" => led.green = "dm"
          /\ led'.green = "on" => led.green = "on"
          /\ led'.red = "tamper" => led.red = "tamper"
          BY <2>12 DEF PatternEnds, TypeOK
    <3> QED
        BY <2>0, <3>1, <3>2, Zenon DEF LedInv, DmTold, MagnetTold, TamperTold, Waiting, Followed
  <2> QED
      BY <2>1, <2>2, <2>3, <2>4, <2>5, <2>6, <2>7, <2>8, <2>9, <2>10, <2>11, <2>12
      DEF Next, Interrupt
<1> QED
    BY <1>1, <1>2, TypeCorrect, PTL DEF Spec

\* When nothing is on its way, no LED claims what is not so, whatever the order in which the
\* inputs, the clients, the LwM2M client and the task acted.
THEOREM LedsTellTruth == Spec => []LedsTruthful
<1>1. LedInv => LedsTruthful
  <2> SUFFICES ASSUME LedInv, Quiet
               PROVE  /\ led.green = "on" => held["magnet"] \/ overlapped
                      /\ led.green = "dm" => dm
                      /\ led.red = "tamper" => open
      BY Zenon DEF LedsTruthful
  <2>1. ~lost /\ queue = <<>> /\ irq = {}
        BY Zenon DEF Quiet
  <2>2. DmTold /\ MagnetTold /\ TamperTold
        BY <2>1, Zenon DEF LedInv
  <2>3. \A D : ~Waiting(D)
        BY <2>1 DEF Waiting
  <2> QED
      BY <2>1, <2>2, <2>3 DEF DmTold, MagnetTold, TamperTold
<1> QED
    BY <1>1, LedInvariant, PTL
=============================================================================
