---------------------------- MODULE MCCommands ----------------------------
(* Two clients, the bass enhancer and one switch more; every kind of       *)
(* command, with the arguments that the handlers tell apart.               *)
EXTENDS Commands

MCSwitch == {"phase_rotator", "bass_enhancer"}

(* 6 dB comes back as another number, as it may in floating point.         *)
MCReported == [g \in {0, 5, 6} |-> IF g = 6 THEN 5 ELSE g]

MCAsked ==
  Plain
  \cup [cmd : {"master_bypass_set"}, bypass : BOOLEAN]
  \cup [cmd : {"switch_set"}, plugin : MCSwitch, enable : BOOLEAN]
  \cup [cmd : {"switch_get"}, plugin : MCSwitch]
  \cup [cmd : {"gain_set"}, which : {"MAIN_IN"}, gain : {<<>>, <<5>>, <<0, 6>>}]
  \cup [cmd : {"gain_set"}, which : {"MAIN_OUT"}, gain : {<<5>>}]
  \cup [cmd : {"gain_get"}, which : {"MAIN_IN", "MAIN_OUT"}]
  \cup [cmd : {"delay_set"}, delay_ms : {1}]
=============================================================================
