----------------------------- MODULE GainPrefs -----------------------------
(***************************************************************************)
(* The input gain: PluginGain, the commands that set it (responder         *)
(* thread), and the preferences file it is saved to and read from when the *)
(* program starts.  The process may be killed, or may crash, at any        *)
(* moment; the file survives.                                              *)
(*                                                                         *)
(* Every number is in thousandths, whether it is meant as decibels or as a *)
(* factor: the file holds a bare number, and nothing tells one from the    *)
(* other.                                                                  *)
(***************************************************************************)
EXTENDS Integers, Sequences

CONSTANTS
  Number,    \* the numbers that occur
  Settable,  \* the gains, in decibels, that a client asks for
  Lin        \* powf(10, x/20): from decibels to the factor

ASSUME GainAssumption ==
  /\ Number \subseteq Int
  /\ 0 \in Number
  /\ Settable \subseteq Number
  /\ Lin \in [Number -> Number]

(* One gain for both channels, a pair, or neither; an absent number reads  *)
(* as zero.                                                                *)
Request ==
  {[kind |-> "gain", l |-> v, r |-> v] : v \in Settable} \cup
  [kind : {"gain_pair"}, l : Settable, r : Settable] \cup
  [kind : {"none"}, l : {0}, r : {0}]

NoRequest == [kind |-> "no request", l |-> 0, r |-> 0]

VARIABLES
  file,        \* gain_input in $HOME/smoovcontrol.yml: <<>> if it has none
  node,        \* prefs_node["gain_input"]
  gainL,       \* m_gain_L of the input gain
  gainR,       \* m_gain_R
  running,     \* the process exists
  request,     \* the request being handled
  step,        \* how far do_change_cfg() has come with it
  answered,    \* history: the last request that was answered
  unanswered,  \* history: the left gains of those begun since
  started,     \* history: <<the factor after the last start>>, if not set since
  balanced     \* history: started, or last set by other than a pair

vars == <<file, node, gainL, gainR, running, request, step, answered,
          unanswered, started, balanced>>

Init ==
  /\ file = <<>>
  /\ node = 0
  /\ gainL = Lin[0]
  /\ gainR = Lin[0]
  /\ running = FALSE
  /\ request = NoRequest
  /\ step = "idle"
  /\ answered = NoRequest
  /\ unanswered = {}
  /\ started = <<>>
  /\ balanced = TRUE

(* What get_gain_input() returns once the file has been read: 0.0 if there *)
(* is no file, or no gain in it.                                           *)
Loaded == IF file = <<>> THEN 0 ELSE file[1]

(* Slip: do_init() hands the configuration on to do_change_cfg().          *)
Start_Saves ==
  /\ ~running
  /\ running' = TRUE
  /\ node' = Lin[Loaded]
  /\ file' = <<Lin[Loaded]>>
  /\ gainL' = Lin[Loaded]
  /\ gainR' = Lin[Loaded]
  /\ request' = NoRequest
  /\ step' = "idle"
  /\ started' = <<gainL'>>
  /\ balanced' = TRUE
  /\ UNCHANGED <<answered, unanswered>>

(* Prefs::Prefs(), then the input gain part of ProcessorCore's constructor *)
(* and PluginGain::do_init(), which take the number for decibels.  (A file *)
(* that could not be loaded is created, with no gain in it.)               *)
Start ==
  /\ ~running
  /\ running' = TRUE
  /\ node' = Loaded
  /\ gainL' = Lin[Loaded]
  /\ gainR' = Lin[Loaded]
  /\ request' = NoRequest
  /\ step' = "idle"
  /\ started' = <<gainL'>>
  /\ balanced' = TRUE
  /\ UNCHANGED <<file, answered, unanswered>>

Doing(from, to) == running /\ step = from /\ step' = to

(* set_gain() for MAIN_IN; with neither a gain nor a pair the error is     *)
(* logged and the empty configuration is applied all the same.             *)
SetGain(q) ==
  /\ Doing("idle", "left")
  /\ request' = q
  /\ unanswered' = unanswered \cup {q.l}
  /\ started' = <<>>
  /\ UNCHANGED <<file, node, gainL, gainR, running, answered, balanced>>

SetLeft ==
  /\ Doing("left", "right")
  /\ gainL' = Lin[request.l]
  /\ UNCHANGED <<file, node, gainR, running, request, answered, unanswered,
                 started, balanced>>

(* Slip: the right channel is forgotten.                                   *)
SetRight_Not ==
  /\ Doing("right", "save")
  /\ balanced' = (request.kind # "gain_pair")
  /\ UNCHANGED <<file, node, gainL, gainR, running, request, answered,
                 unanswered, started>>

SetRight ==
  /\ Doing("right", "save")
  /\ gainR' = Lin[request.r]
  /\ balanced' = (request.kind # "gain_pair")
  /\ UNCHANGED <<file, node, gainL, running, request, answered, unanswered,
                 started>>

(* Slip: the stream is opened for appending.                               *)
SaveTruncates_Append ==
  /\ Doing("save", "write")
  /\ node' = gainL
  /\ UNCHANGED <<file, gainL, gainR, running, request, answered, unanswered,
                 started, balanced>>

(* set_gain_input(m_gain_L): it is the factor that is kept.  Then the      *)
(* constructor of the ofstream truncates the file ...                      *)
SaveTruncates ==
  /\ Doing("save", "write")
  /\ node' = gainL
  /\ file' = <<>>
  /\ UNCHANGED <<gainL, gainR, running, request, answered, unanswered, started,
                 balanced>>

(* Slip: the stream is not flushed before the request is answered.         *)
SaveWrites_Not ==
  /\ Doing("write", "reply")
  /\ UNCHANGED <<file, node, gainL, gainR, running, request, answered,
                 unanswered, started, balanced>>

(* ... and its destructor writes what was put in.                          *)
SaveWrites ==
  /\ Doing("write", "reply")
  /\ file' = Append(file, node)
  /\ UNCHANGED <<node, gainL, gainR, running, request, answered, unanswered,
                 started, balanced>>

Reply ==
  /\ Doing("reply", "idle")
  /\ answered' = request
  /\ unanswered' = {}
  /\ request' = NoRequest
  /\ UNCHANGED <<file, node, gainL, gainR, running, started, balanced>>

(* The user quits, or the process dies, at any moment.                     *)
Stop ==
  /\ running
  /\ running' = FALSE
  /\ UNCHANGED <<file, node, gainL, gainR, request, step, answered, unanswered,
                 started, balanced>>

Next ==
  \/ Start
  \/ \E q \in Request : SetGain(q)
  \/ SetLeft \/ SetRight \/ SaveTruncates \/ SaveWrites \/ Reply
  \/ Stop

Spec == Init /\ [][Next]_vars

-----------------------------------------------------------------------------
(* Properties.                                                             *)

(* Every variable stays in its range.                                      *)
TypeOK ==
  /\ file = <<>> \/ file \in {<<n>> : n \in Number}
  /\ {node, gainL, gainR} \subseteq Number
  /\ running \in BOOLEAN
  /\ {request, answered} \subseteq Request \cup {NoRequest}
  /\ step \in {"idle", "left", "right", "save", "write", "reply"}
  /\ unanswered \subseteq Settable \cup {0}
  /\ started = <<>> \/ started \in {<<n>> : n \in Number}
  /\ balanced \in BOOLEAN

(* A gain that has been answered is in the file, however often the program *)
(* is stopped and started; only a later request cut off before its answer  *)
(* can replace it, by its own gain or, caught between truncating and       *)
(* writing, by nothing.                                                    *)
AnsweredIsSaved ==
  answered # NoRequest =>
    \/ file = <<Lin[answered.l]>>
    \/ \E v \in unanswered : file \in {<<>>, <<Lin[v]>>}

(* Restarting does not make the gain drift: as long as no client sets it,  *)
(* the factor is the same after every start.                               *)
StableAcrossRestarts ==
  [][(~running /\ running' /\ started # <<>>) => gainL' = started[1]]_vars

(* The channels are apart only because a client asked for a pair: not      *)
(* after a request for one gain, not after a start, whatever pair was in   *)
(* force or half applied before.                                           *)
ApartOnlyByPair == (running /\ step = "idle" /\ balanced) => gainL = gainR

(* "TODO: stored settings, so when fmsmoov restarts, it picks up the saved *)
(* settings" (processor_core.cpp:40): the gain in force after a start is   *)
(* the one last answered.                                                  *)
RestartKeepsGain ==
  (running /\ step = "idle" /\ answered # NoRequest /\ unanswered = {}) =>
    gainL = Lin[answered.l]
=============================================================================
