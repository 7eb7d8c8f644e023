------------------------------ MODULE Commands ------------------------------
(***************************************************************************)
(* The command interface: the loop of CommandServer::Responder, the        *)
(* dispatch in ProcessorMain::handle_command(), the setters and getters of *)
(* ProcessorCore, and the reply.  Clients and ZeroMQ's reply socket are    *)
(* external: the socket takes requests from all clients in turn, sends the *)
(* reply to the client whose request was received last, and takes receive  *)
(* and send only alternately.                                              *)
(*                                                                         *)
(* Meanwhile the real-time thread processes blocks.  Of what it does only  *)
(* one thing shows here: the bass enhancer switches itself off.            *)
(*                                                                         *)
(* A gain is kept as the decibels it was asked for (GainPrefs has what is  *)
(* made of them, and the gain to start with), a delay as the milliseconds. *)
(***************************************************************************)
EXTENDS Naturals, Sequences

CONSTANTS
  Client,
  Switch,    \* the plugins with a switch
  Bass,      \* the bass enhancer
  Decibel,   \* gains
  Delay,     \* delays
  Asked,     \* bound: the commands that clients send
  Reported,  \* 20 log10(10^(x/20)), as computed
  Garbled    \* a message that does not parse

ASSUME CommandsAssumption ==
  /\ Bass \in Switch
  /\ {"bypass", "gain", "delay"} \cap Switch = {}
  /\ 0 \in Decibel /\ 0 \in Delay
  /\ Reported \in [Decibel -> Decibel]

(* The commands of the protocol; <<>>, <<g>> and <<l, r>> are the ways to  *)
(* fill in gaintype_oneof.                                                 *)
Plain ==
  [cmd : {"internal_shutdown_cmd", "master_bypass_get", "agc_set", "agc_get",
          "delay_get", "cmd_oneof_not_set"}]

GainType == {<<>>} \cup {<<g>> : g \in Decibel} \cup (Decibel \X Decibel)

Command ==
  Plain
  \cup [cmd : {"master_bypass_set"}, bypass : BOOLEAN]
  \cup [cmd : {"switch_set"}, plugin : Switch, enable : BOOLEAN]
  \cup [cmd : {"switch_get"}, plugin : Switch]
  \cup [cmd : {"gain_set"}, which : {"MAIN_IN", "MAIN_OUT"}, gain : GainType]
  \cup [cmd : {"gain_get"}, which : {"MAIN_IN", "MAIN_OUT"}]
  \cup [cmd : {"delay_set"}, delay_ms : Delay]

ASSUME AskedAssumption == Asked \subseteq Command /\ Garbled \notin Command

(* What ParseFromString() leaves of a message.  Its result is not looked   *)
(* at; if it has failed, the command is whatever came before the failure.  *)
Parsed(m) == IF m = Garbled THEN Asked ELSE {m}

NoRequest == [cmd |-> "no request"]

NoReply == [response |-> "none"]

VARIABLES
  bypass,    \* m_master_bypass
  enabled,   \* m_enabled of the plugins with a switch
  gain,      \* of the input gain, left and right
  delay,     \* of the delay plugin
  request,   \* of each client: what it has sent and not had answered
  pc,        \* the responder: poll, handle, reply, or done
  peer,      \* the client whose request is being handled, as a set
  cmdproto,  \* the command being handled
  rspproto,  \* the response
  socket,    \* the reply socket: receive, send, or error if used out of turn
  stopped    \* m_shutdown_signalled

settings == <<bypass, enabled, gain, delay>>
vars == <<settings, request, pc, peer, cmdproto, rspproto, socket, stopped>>

Init ==
  /\ bypass = FALSE
  /\ enabled = [s \in Switch |-> TRUE]
  /\ gain = <<0, 0>>
  /\ delay = 0
  /\ request = [c \in Client |-> NoRequest]
  /\ pc = "poll"
  /\ peer = {}
  /\ cmdproto = NoRequest
  /\ rspproto = NoReply
  /\ socket = "receive"
  /\ stopped = FALSE

-----------------------------------------------------------------------------
(* Clients, each with a request socket: one request at a time.             *)

SendRequest(c) ==
  /\ request[c] = NoRequest
  /\ \E m \in Asked \cup {Garbled} : request' = [request EXCEPT ![c] = m]
  /\ UNCHANGED <<settings, pc, peer, cmdproto, rspproto, socket, stopped>>

-----------------------------------------------------------------------------
(* The responder's loop.                                                   *)

(* poll(), receive() and ParseFromString().                                *)
Receive(c) ==
  /\ pc = "poll"
  /\ request[c] # NoRequest
  /\ socket' = IF socket = "receive" THEN "send" ELSE "error"
  /\ peer' = {c}
  /\ cmdproto' \in Parsed(request[c])
  /\ pc' = "handle"
  /\ UNCHANGED <<settings, request, rspproto, stopped>>

(* Slip: one request only.                                                 *)
Loop_Once == pc' = "done"

(* The test of m_shutdown_signalled, after each request.                   *)
Loop == pc' = IF stopped THEN "done" ELSE "poll"

(* send_reply(), the last thing handle_command() does.  The client may     *)
(* send its next request.                                                  *)
SendReply ==
  /\ pc = "reply"
  /\ socket' = IF socket = "send" THEN "receive" ELSE "error"
  /\ request' = [c \in Client |-> IF c \in peer THEN NoRequest ELSE request[c]]
  /\ peer' = {}
  /\ cmdproto' = NoRequest
  /\ rspproto' = NoReply
  /\ Loop
  /\ UNCHANGED <<settings, stopped>>

(* Responder::stop().  Who is in poll() does not notice.                   *)
Stop ==
  /\ ~stopped
  /\ stopped' = TRUE
  /\ UNCHANGED <<settings, request, pc, peer, cmdproto, rspproto, socket>>

-----------------------------------------------------------------------------
(* handle_command().                                                       *)

(* The response: OK unless nothing was recognised, in the field (named     *)
(* here without its _rsp) that belongs to the command, and what is in it:  *)
(* nothing, or a reading.                                                  *)
Respond(field, value) ==
  rspproto' = [response |-> "OK", field |-> field, value |-> value]

Handling(name) == pc = "handle" /\ cmdproto.cmd = name /\ pc' = "reply"

unhandled == <<request, peer, cmdproto, socket, stopped>>

InternalShutdown ==
  /\ Handling("internal_shutdown_cmd")
  /\ Respond("response_msg", <<"Goodbye!">>)
  /\ UNCHANGED <<settings, unhandled>>

SetMasterBypass ==
  /\ Handling("master_bypass_set")
  /\ bypass' = cmdproto.bypass
  /\ Respond("master_bypass_set", <<>>)
  /\ UNCHANGED <<enabled, gain, delay, unhandled>>

GetMasterBypass ==
  /\ Handling("master_bypass_get")
  /\ Respond("master_bypass_get", <<"bypass", bypass>>)
  /\ UNCHANGED <<settings, unhandled>>

(* Slip: the left gain goes to both channels.                              *)
DecibelsOf_Left(g) == IF g = <<>> THEN <<0, 0>> ELSE <<g[1], g[1]>>

(* Slip: a single gain is set on the left only.                            *)
DecibelsOf_Unpaired(g) == IF g = <<>> THEN <<0, 0>> ELSE g

(* What the configuration for do_change_cfg() is filled with; if there is  *)
(* neither a gain nor a pair, its numbers read as zero.                    *)
DecibelsOf(g) ==
  CASE Len(g) = 0 -> <<0, 0>>
    [] Len(g) = 1 -> <<g[1], g[1]>>
    [] Len(g) = 2 -> g

(* The output gain, and one that is not known, are left alone.             *)
SetGain ==
  /\ Handling("gain_set")
  /\ gain' = IF cmdproto.which = "MAIN_IN" THEN DecibelsOf(cmdproto.gain) ELSE gain
  /\ Respond("gain_set", <<>>)
  /\ UNCHANGED <<bypass, enabled, delay, unhandled>>

(* Slip: copied from SetGain, with its field.                              *)
GetGain_WrongField ==
  /\ Handling("gain_get")
  /\ Respond("gain_set",
             IF cmdproto.which = "MAIN_IN" THEN <<"gain", Reported[gain[1]]>> ELSE <<>>)
  /\ UNCHANGED <<settings, unhandled>>

(* The left gain stands for both.                                          *)
GetGain ==
  /\ Handling("gain_get")
  /\ Respond("gain_get",
             IF cmdproto.which = "MAIN_IN" THEN <<"gain", Reported[gain[1]]>> ELSE <<>>)
  /\ UNCHANGED <<settings, unhandled>>

(* set_agc() and get_agc() are empty.                                      *)
SetAgc ==
  /\ Handling("agc_set")
  /\ Respond("agc_set", <<>>)
  /\ UNCHANGED <<settings, unhandled>>

GetAgc ==
  /\ Handling("agc_get")
  /\ Respond("agc_get", <<>>)
  /\ UNCHANGED <<settings, unhandled>>

(* The commands for the phase rotator, the stereo enhancer, the bass       *)
(* enhancer and the compressor, all of one form.  The compressor's         *)
(* configuration, and the value of the stereo enhancer, are not looked at. *)
SetEnable ==
  /\ Handling("switch_set")
  /\ enabled' = [enabled EXCEPT ![cmdproto.plugin] = cmdproto.enable]
  /\ Respond("switch_set", <<>>)
  /\ UNCHANGED <<bypass, gain, delay, unhandled>>

GetEnabled ==
  /\ Handling("switch_get")
  /\ Respond("switch_get", <<cmdproto.plugin, enabled[cmdproto.plugin]>>)
  /\ UNCHANGED <<settings, unhandled>>

SetDelay ==
  /\ Handling("delay_set")
  /\ delay' = cmdproto.delay_ms
  /\ Respond("delay_set", <<>>)
  /\ UNCHANGED <<bypass, enabled, gain, unhandled>>

(* Slip: an unknown command is logged, and not answered.                   *)
Unknown_NoReply ==
  /\ pc = "handle"
  /\ cmdproto.cmd \in {"delay_get", "cmd_oneof_not_set"}
  /\ Loop
  /\ rspproto' = NoReply
  /\ UNCHANGED <<settings, unhandled>>

(* There is a delay_get in the protocol, but not in the dispatch.          *)
Unknown ==
  /\ Handling(cmdproto.cmd)
  /\ cmdproto.cmd \in {"delay_get", "cmd_oneof_not_set"}
  /\ rspproto' = [response |-> "ERROR", field |-> "response_msg",
                  value |-> <<"Unknown command.">>]
  /\ UNCHANGED <<settings, unhandled>>

HandleCommand ==
  \/ InternalShutdown
  \/ SetMasterBypass \/ GetMasterBypass
  \/ SetGain \/ GetGain
  \/ SetAgc \/ GetAgc
  \/ SetEnable \/ GetEnabled
  \/ SetDelay
  \/ Unknown

(* PluginBassEnhancer::do_process(), on the real-time thread: it clears    *)
(* m_enabled before it looks at it.                                        *)
BassBlock ==
  /\ ~bypass
  /\ enabled' = [enabled EXCEPT ![Bass] = FALSE]
  /\ UNCHANGED <<bypass, gain, delay, request, pc, peer, cmdproto, rspproto,
                 socket, stopped>>

-----------------------------------------------------------------------------
Responder == HandleCommand \/ SendReply

Next ==
  \/ \E c \in Client : SendRequest(c) \/ Receive(c)
  \/ Responder
  \/ Stop
  \/ BassBlock

Spec == Init /\ [][Next]_vars

(* The responder thread runs, and the socket receives from its peers in    *)
(* turn: who keeps waiting while others are served comes to be served.     *)
Fairness == WF_vars(Responder) /\ \A c \in Client : SF_vars(Receive(c))

FairSpec == Spec /\ Fairness

-----------------------------------------------------------------------------
(* Properties.                                                             *)

(* Every variable stays in its range.                                      *)
TypeOK ==
  /\ bypass \in BOOLEAN
  /\ enabled \in [Switch -> BOOLEAN]
  /\ gain \in Decibel \X Decibel
  /\ delay \in Delay
  /\ request \in [Client -> Asked \cup {Garbled, NoRequest}]
  /\ pc \in {"poll", "handle", "reply", "done"}
  /\ peer \subseteq Client
  /\ pc = "handle" => cmdproto \in Asked
  /\ pc = "reply" => rspproto # NoReply
  /\ stopped \in BOOLEAN

(* The reply socket is never used out of turn: on every path through       *)
(* handle_command(), the one for unknown commands included, exactly one    *)
(* reply is sent for each request received.                                *)
InTurn == socket = IF pc \in {"poll", "done"} THEN "receive" ELSE "send"

(* A request is taken for the one command that it is; one that does not    *)
(* parse may be taken for any.                                             *)
OperationOf(m) ==
  CASE m.cmd = "master_bypass_set" -> <<"write", "bypass", m.bypass>>
    [] m.cmd = "master_bypass_get" -> <<"read", "bypass">>
    [] m.cmd = "switch_set"        -> <<"write", m.plugin, m.enable>>
    [] m.cmd = "switch_get"        -> <<"read", m.plugin>>
    [] m.cmd = "gain_set"          ->
         IF m.which = "MAIN_IN"
         THEN <<"write", "gain", <<IF m.gain = <<>> THEN 0 ELSE Head(m.gain),
                                   IF m.gain = <<>> THEN 0 ELSE m.gain[Len(m.gain)]>>>>
         ELSE <<"nothing">>
    [] m.cmd = "gain_get"          ->
         IF m.which = "MAIN_IN" THEN <<"read", "gain">> ELSE <<"nothing">>
    [] m.cmd = "delay_set"         -> <<"write", "delay", m.delay_ms>>
    [] m.cmd \in {"delay_get", "cmd_oneof_not_set"} -> <<"refuse">>
    [] m.cmd \in {"internal_shutdown_cmd", "agc_set", "agc_get"} -> <<"nothing">>

OperationsOf(m) == {OperationOf(n) : n \in Parsed(m)}

(* The registers, from the master bypass, the switches, the gain and the   *)
(* delay.                                                                  *)
Store(b, e, g, d) ==
  [r \in {"bypass", "gain", "delay"} \cup Switch |->
     IF r \in Switch THEN e[r]
     ELSE IF r = "bypass" THEN b ELSE IF r = "gain" THEN g ELSE d]

Registers == Store(bypass, enabled, gain, delay)

(* What a client makes of a response: the code, and the value if any.      *)
Content(rsp) ==
  IF rsp.field = "response_msg" \/ rsp.value = <<>> THEN <<rsp.response>>
  ELSE <<rsp.response, rsp.value[1], rsp.value[2]>>

(* The answer a client has been given and not taken yet.                   *)
Answers ==
  [c \in Client |-> IF pc = "reply" /\ c \in peer THEN Content(rspproto) ELSE <<>>]

(* The interface is a set of registers: every request takes effect at one  *)
(* moment before it is answered, once, on the register it names and on no  *)
(* other, and a reading is of what was last set.  The exception is the     *)
(* bass enhancer's switch, which falls back to off.                        *)
Interface == INSTANCE Settings WITH
  Initial   <- {Store(FALSE, [s \in Switch |-> TRUE], <<0, 0>>, 0)},
  Faded     <- [r \in {Bass} |-> FALSE],
  Request   <- Asked \cup {Garbled},
  Idle      <- NoRequest,
  Operation <- OperationsOf,
  Shown     <- LAMBDA r, v : IF r = "gain" THEN Reported[v[1]] ELSE v,
  store     <- Registers,
  asked     <- request,
  answer    <- Answers

ImplementsSettings == Interface!Spec

(* The field for the response to a command, or for a text where there is   *)
(* none.                                                                   *)
FieldOf(name) ==
  IF name \in {"internal_shutdown_cmd", "delay_get", "cmd_oneof_not_set"}
  THEN "response_msg" ELSE name

(* A client finds its answer in the field that belongs to its request,     *)
(* whoever else has sent one meanwhile.                                    *)
ReplyFits ==
  \A c \in peer :
    pc = "reply" /\ request[c] # Garbled =>
      rspproto.field = FieldOf(request[c].cmd)

(* As long as the program is not asked to stop, every request is answered, *)
(* whatever the other clients do.                                          *)
EveryRequestAnswered ==
  \A c \in Client :
    request[c] # NoRequest ~> (request[c] = NoRequest \/ stopped)
=============================================================================
