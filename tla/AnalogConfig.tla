---------------------------- MODULE AnalogConfig ----------------------------
(***************************************************************************)
(* Which sensor types the analog inputs may have together: the validator   *)
(* of the analog_input_N_type attributes in attr_custom_validator.c.  Only *)
(* pressure and ultrasonic sensors are rationed; the four current types    *)
(* count as one.  MutantIgnoresPair is a plausible slip in the validator,  *)
(* used by no specification.                                               *)
(***************************************************************************)
EXTENDS FiniteSets, Integers

CONSTANT Channels      \* the analog inputs

ASSUME ChannelsAssumption == IsFiniteSet(Channels)

Types == {"unused", "voltage", "current", "pressure", "ultrasonic"}

\* A type none of the inputs has.
AllUnused == [c \in Channels |-> "unused"]

InputsOf(types, type) == {c \in Channels : types[c] = type}

MutantIgnoresPair(types) ==
  /\ Cardinality(InputsOf(types, "ultrasonic")) <= 1
  /\ Cardinality(InputsOf(types, "pressure")) <= 2

\* At most one ultrasonic sensor and two pressure sensors, and only one pressure sensor beside
\* an ultrasonic one.
validate_analog_input_config(types) ==
  /\ Cardinality(InputsOf(types, "ultrasonic")) <= 1
  /\ Cardinality(InputsOf(types, "pressure")) <=
       (IF InputsOf(types, "ultrasonic") = {} THEN 2 ELSE 1)

\* The value is written, the whole configuration judged, and the old value put back if the
\* configuration is refused.
av_aic(types, c, type) ==
  LET written == [types EXCEPT ![c] = type]
  IN  IF validate_analog_input_config(written) THEN written ELSE types
=============================================================================
