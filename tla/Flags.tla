------------------------------- MODULE Flags -------------------------------
(***************************************************************************)
(* The flags that are advertised (Flags.c): one word, of which any thread  *)
(* changes a bit within a mutex, and the attribute bluetooth_flags that    *)
(* shadows it, which the thread writes after it has left the mutex.        *)
(* A thread may be preempted, or block on the mutex or on the lock of the  *)
(* attributes, between any two steps below.                                *)
(*                                                                         *)
(* The operators are for a specification of the threads; SwitchInputs is   *)
(* one. A definition whose name starts with Mutant is a plausible slip in  *)
(* the one below it, used by no specification.                             *)
(***************************************************************************)
EXTENDS Integers

CONSTANTS Threads,  \* the threads that set flags
          Bits      \* the flags they set

VARIABLES
  word,    \* flags.data
  shadow,  \* the attribute bluetooth_flags
  calls,   \* where each thread is in Flags_Set
  overlap  \* history: the calls that were last in Flags_Set were there together

flagVars == <<word, shadow, calls, overlap>>

Word   == [Bits -> BOOLEAN]
NoCall == [at |-> "outside", bit |-> "none", value |-> FALSE]

\* The values of the word that a call holds in registers: what it has read under the mutex, or
\* what it is about to write to the attribute.
Call == [at : {"outside", "entered", "unlocked"}, bit : Bits \cup {"none"}, value : BOOLEAN]
   \cup [at : {"locked", "writing"}, bit : Bits, value : BOOLEAN, copy : Word]

\* Flags_Init.
FlagsInit ==
  /\ word = [b \in Bits |-> FALSE]
  /\ shadow = [b \in Bits |-> FALSE]
  /\ calls = [t \in Threads |-> NoCall]
  /\ overlap = FALSE

InFlagsSet(t) == calls[t].at # "outside"
Alone(t)      == \A u \in Threads \ {t} : ~InFlagsSet(u)

Flags_Set(t, bit, value) ==
  /\ calls' = [calls EXCEPT ![t] = [at |-> "entered", bit |-> bit, value |-> value]]
  /\ overlap' = ~Alone(t)
  /\ UNCHANGED <<word, shadow>>

MutantNoMutex(t) == TRUE
MutexFree(t) == \A u \in Threads \ {t} : calls[u].at # "locked"

\* k_mutex_lock, and the word is read.
LockFlags(t) ==
  /\ calls[t].at = "entered" /\ MutexFree(t)
  /\ calls' = [calls EXCEPT ![t] =
       [at |-> "locked", bit |-> @.bit, value |-> @.value, copy |-> word]]
  /\ UNCHANGED <<word, shadow, overlap>>

\* SetFlag, whose two assignments make one store, and k_mutex_unlock.
SetFlag(t) ==
  /\ calls[t].at = "locked"
  /\ word' = [calls[t].copy EXCEPT ![calls[t].bit] = calls[t].value]
  /\ calls' = [calls EXCEPT ![t] = [at |-> "unlocked", bit |-> @.bit, value |-> @.value]]
  /\ UNCHANGED <<shadow, overlap>>

MutantBeforeChange(t) == [word EXCEPT ![calls[t].bit] = ~calls[t].value]
ReadForShadow(t) == word

\* The argument of attr_set_uint32 is read outside the mutex.
ReadWord(t) ==
  /\ calls[t].at = "unlocked"
  /\ calls' = [calls EXCEPT ![t] =
       [at |-> "writing", bit |-> @.bit, value |-> @.value, copy |-> ReadForShadow(t)]]
  /\ UNCHANGED <<word, shadow, overlap>>

\* attr_set_uint32(ATTR_ID_bluetooth_flags).
WriteShadow(t) ==
  /\ calls[t].at = "writing"
  /\ shadow' = calls[t].copy
  /\ calls' = [calls EXCEPT ![t] = NoCall]
  /\ UNCHANGED <<word, overlap>>

FlagStep(t) == LockFlags(t) \/ SetFlag(t) \/ ReadWord(t) \/ WriteShadow(t)

FlagsTypeOK ==
  /\ word \in Word
  /\ shadow \in Word
  /\ calls \in [Threads -> Call]
  /\ overlap \in BOOLEAN

\* The attribute shadows the word whenever no thread is in Flags_Set, provided that the last one
\* had it for itself: of two that overlap, the one that writes last may have read the word first.
ShadowFollows == (\A t \in Threads : ~InFlagsSet(t)) /\ ~overlap => shadow = word
=============================================================================
