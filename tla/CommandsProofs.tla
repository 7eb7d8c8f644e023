--------------------------- MODULE CommandsProofs ---------------------------
(***************************************************************************)
(* Proofs about Commands, for any number of clients, any switches, any     *)
(* numbers and any set of commands asked for.                              *)
(*                                                                         *)
(* What the theorems rest on is who is being served: while the responder   *)
(* handles or answers a request there is exactly one peer, its request     *)
(* still stands, and the command in hand is one that its message may be    *)
(* taken for.                                                              *)
(***************************************************************************)
EXTENDS Commands, TLAPS

(* The request in hand.                                                    *)
Serving ==
  IF pc \in {"handle", "reply"}
  THEN \E c \in Client :
         /\ peer = {c}
         /\ request[c] # NoRequest
         /\ pc = "handle" => cmdproto \in Parsed(request[c])
  ELSE peer = {}

IInv == TypeOK /\ InTurn /\ Serving /\ ReplyFits

(* Of the commands of the protocol, what type the arguments have.          *)
LEMMA Arguments ==
  ASSUME NEW m \in Asked
  PROVE  /\ m # NoRequest
         /\ m.cmd = "master_bypass_set" => m.bypass \in BOOLEAN
         /\ m.cmd = "switch_set" => m.plugin \in Switch /\ m.enable \in BOOLEAN
         /\ m.cmd = "switch_get" => m.plugin \in Switch
         /\ m.cmd = "gain_set" => m.gain \in GainType
         /\ m.cmd = "delay_set" => m.delay_ms \in Delay
<1> DEFINE Typed ==
      /\ m.cmd # "no request"
      /\ m.cmd = "master_bypass_set" => m.bypass \in BOOLEAN
      /\ m.cmd = "switch_set" => m.plugin \in Switch /\ m.enable \in BOOLEAN
      /\ m.cmd = "switch_get" => m.plugin \in Switch
      /\ m.cmd = "gain_set" => m.gain \in GainType
      /\ m.cmd = "delay_set" => m.delay_ms \in Delay
<1>1. Typed
  <2>1. m \in Command
    BY AskedAssumption
  <2>2. CASE m \in Plain
    BY <2>2 DEF Plain
  <2>3. CASE m \in [cmd : {"master_bypass_set"}, bypass : BOOLEAN]
    BY <2>3
  <2>4. CASE m \in [cmd : {"switch_set"}, plugin : Switch, enable : BOOLEAN]
    BY <2>4
  <2>5. CASE m \in [cmd : {"switch_get"}, plugin : Switch]
    BY <2>5
  <2>6. CASE m \in [cmd : {"gain_set"}, which : {"MAIN_IN", "MAIN_OUT"}, gain : GainType]
    BY <2>6
  <2>7. CASE m \in [cmd : {"gain_get"}, which : {"MAIN_IN", "MAIN_OUT"}]
    BY <2>7
  <2>8. CASE m \in [cmd : {"delay_set"}, delay_ms : Delay]
    BY <2>8
  <2> HIDE DEF Typed
  <2> QED BY <2>1, <2>2, <2>3, <2>4, <2>5, <2>6, <2>7, <2>8 DEF Command
<1>2. NoRequest.cmd = "no request"
  BY DEF NoRequest
<1> QED BY <1>1, <1>2

(* However a gain is given, it makes two of the gains that can be given.   *)
LEMMA PairOfGains ==
  ASSUME NEW g \in GainType
  PROVE  DecibelsOf(g) \in Decibel \X Decibel
<1>1. CASE g = <<>>
  BY <1>1, CommandsAssumption DEF DecibelsOf
<1>2. CASE \E d \in Decibel : g = <<d>>
  BY <1>2 DEF DecibelsOf
<1>3. CASE g \in Decibel \X Decibel
  BY <1>3 DEF DecibelsOf
<1> QED BY <1>1, <1>2, <1>3 DEF GainType

(* A message is taken for one of the commands asked for.                   *)
LEMMA ParsedIsAsked ==
  ASSUME NEW m \in Asked \cup {Garbled}
  PROVE  Parsed(m) \subseteq Asked
BY DEF Parsed

-----------------------------------------------------------------------------
SettingsTyped ==
  /\ bypass \in BOOLEAN
  /\ enabled \in [Switch -> BOOLEAN]
  /\ gain \in Decibel \X Decibel
  /\ delay \in Delay

(* Every path through the dispatch ends in one response, in the field that *)
(* belongs to the command, and leaves settings that are settings.          *)
LEMMA EveryHandlerResponds ==
  ASSUME TypeOK, HandleCommand
  PROVE  /\ pc = "handle" /\ pc' = "reply"
         /\ UNCHANGED unhandled
         /\ rspproto'.response # "none"
         /\ rspproto'.field = FieldOf(cmdproto.cmd)
         /\ SettingsTyped'
<1>1. pc = "handle" => cmdproto \in Asked
  BY DEF TypeOK
<1>2. SettingsTyped
  BY DEF TypeOK, SettingsTyped
<1>3. CASE InternalShutdown
  BY <1>2, <1>3 DEF InternalShutdown, Handling, Respond, FieldOf, SettingsTyped, settings
<1>4. CASE SetMasterBypass
  <2>1. bypass' \in BOOLEAN
    BY <1>1, <1>4, Arguments DEF SetMasterBypass, Handling
  <2> QED BY <1>2, <1>4, <2>1 DEF SetMasterBypass, Handling, Respond, FieldOf, SettingsTyped
<1>5. CASE GetMasterBypass
  BY <1>2, <1>5 DEF GetMasterBypass, Handling, Respond, FieldOf, SettingsTyped, settings
<1>6. CASE SetGain
  <2>1. gain' \in Decibel \X Decibel
    <3>1. DecibelsOf(cmdproto.gain) \in Decibel \X Decibel
      BY <1>1, <1>6, Arguments, PairOfGains DEF SetGain, Handling
    <3> QED BY <1>2, <1>6, <3>1 DEF SetGain, SettingsTyped
  <2> QED BY <1>2, <1>6, <2>1 DEF SetGain, Handling, Respond, FieldOf, SettingsTyped
<1>7. CASE GetGain
  BY <1>2, <1>7 DEF GetGain, Handling, Respond, FieldOf, SettingsTyped, settings
<1>8. CASE SetAgc
  BY <1>2, <1>8 DEF SetAgc, Handling, Respond, FieldOf, SettingsTyped, settings
<1>9. CASE GetAgc
  BY <1>2, <1>9 DEF GetAgc, Handling, Respond, FieldOf, SettingsTyped, settings
<1>10. CASE SetEnable
  <2>1. enabled' \in [Switch -> BOOLEAN]
    BY <1>1, <1>2, <1>10, Arguments DEF SetEnable, Handling, SettingsTyped
  <2> QED BY <1>2, <1>10, <2>1 DEF SetEnable, Handling, Respond, FieldOf, SettingsTyped
<1>11. CASE GetEnabled
  BY <1>2, <1>11 DEF GetEnabled, Handling, Respond, FieldOf, SettingsTyped, settings
<1>12. CASE SetDelay
  <2>1. delay' \in Delay
    BY <1>1, <1>12, Arguments DEF SetDelay, Handling
  <2> QED BY <1>2, <1>12, <2>1 DEF SetDelay, Handling, Respond, FieldOf, SettingsTyped
<1>13. CASE Unknown
  BY <1>2, <1>13 DEF Unknown, Handling, FieldOf, SettingsTyped, settings
<1> QED BY <1>3, <1>4, <1>5, <1>6, <1>7, <1>8, <1>9, <1>10, <1>11, <1>12, <1>13
        DEF HandleCommand

(* The strengthened invariant holds at first.                              *)
LEMMA InitIInv ==
  Init => IInv
<1> SUFFICES ASSUME Init PROVE IInv
  OBVIOUS
<1> USE DEF Init
<1>1. TypeOK
  BY CommandsAssumption DEF TypeOK
<1>2. InTurn /\ Serving /\ ReplyFits
  BY DEF InTurn, Serving, ReplyFits
<1> QED BY <1>1, <1>2 DEF IInv

(* Every step keeps it.                                                    *)
LEMMA NextIInv ==
  IInv /\ [Next]_vars => IInv'
<1> SUFFICES ASSUME IInv, [Next]_vars PROVE IInv'
  OBVIOUS
<1> USE DEF IInv
<1>1. ASSUME NEW c \in Client, SendRequest(c) PROVE IInv'
  <2> USE <1>1 DEF SendRequest
  <2>1. TypeOK'
    BY DEF TypeOK, settings
  <2>2. c \notin peer
    BY DEF TypeOK, Serving
  <2>3. \A d \in Client : d # c => request'[d] = request[d]
    BY DEF TypeOK
  <2>4. Serving'
    <3>1. CASE pc \in {"handle", "reply"}
      BY <2>2, <2>3, <3>1 DEF Serving
    <3>2. CASE pc \notin {"handle", "reply"}
      BY <3>2 DEF Serving
    <3> QED BY <3>1, <3>2
  <2>5. ReplyFits'
    BY <2>2, <2>3 DEF ReplyFits, TypeOK
  <2>6. InTurn'
    BY DEF InTurn
  <2> QED BY <2>1, <2>4, <2>5, <2>6
<1>2. ASSUME NEW c \in Client, Receive(c) PROVE IInv'
  <2> USE <1>2 DEF Receive
  <2>1. cmdproto' \in Asked
    BY ParsedIsAsked DEF TypeOK
  <2>2. TypeOK'
    BY <2>1 DEF TypeOK, settings
  <2>3. InTurn'
    BY DEF InTurn
  <2>4. Serving'
    BY DEF Serving
  <2>5. ReplyFits'
    BY DEF ReplyFits
  <2> QED BY <2>2, <2>3, <2>4, <2>5
<1>3. CASE HandleCommand
  <2>1. /\ pc = "handle" /\ pc' = "reply"
        /\ UNCHANGED unhandled
        /\ rspproto'.response # "none"
        /\ rspproto'.field = FieldOf(cmdproto.cmd)
        /\ SettingsTyped'
    BY <1>3, EveryHandlerResponds
  <2>2. rspproto' # NoReply
    BY <2>1 DEF NoReply
  <2>3. TypeOK'
    BY <2>1, <2>2 DEF TypeOK, SettingsTyped, unhandled
  <2>4. InTurn'
    BY <2>1 DEF InTurn, unhandled
  <2>5. Serving'
    BY <2>1 DEF Serving, unhandled
  <2>6. ReplyFits'
    <3> SUFFICES ASSUME NEW d \in peer, request[d] # Garbled
                 PROVE  rspproto'.field = FieldOf(request[d].cmd)
      BY <2>1 DEF ReplyFits, unhandled
    <3>1. cmdproto = request[d]
      BY <2>1 DEF Serving, Parsed
    <3> QED BY <2>1, <3>1
  <2> QED BY <2>3, <2>4, <2>5, <2>6
<1>4. CASE SendReply
  <2> USE <1>4 DEF SendReply, Loop
  <2>1. request' \in [Client -> Asked \cup {Garbled, NoRequest}]
    BY DEF TypeOK
  <2>2. pc' \in {"poll", "done"}
    OBVIOUS
  <2>3. TypeOK'
    BY <2>1, <2>2 DEF TypeOK, settings
  <2>4. InTurn'
    BY <2>2 DEF InTurn
  <2>5. Serving' /\ ReplyFits'
    BY <2>2 DEF Serving, ReplyFits
  <2> QED BY <2>3, <2>4, <2>5
<1>5. CASE Stop
  BY <1>5 DEF Stop, TypeOK, InTurn, Serving, ReplyFits, settings
<1>6. CASE BassBlock
  <2> USE <1>6 DEF BassBlock
  <2>1. enabled' \in [Switch -> BOOLEAN]
    BY CommandsAssumption DEF TypeOK
  <2>2. TypeOK'
    BY <2>1 DEF TypeOK
  <2> QED BY <2>2 DEF InTurn, Serving, ReplyFits
<1>7. CASE UNCHANGED vars
  BY <1>7 DEF vars, TypeOK, InTurn, Serving, ReplyFits, settings
<1> QED BY <1>1, <1>2, <1>3, <1>4, <1>5, <1>6, <1>7 DEF Next, Responder

-----------------------------------------------------------------------------
(* The strengthened invariant holds in every state of the specification.   *)
LEMMA Invariance ==
  Spec => []IInv
BY InitIInv, NextIInv, PTL DEF Spec

(* Every variable of the command interface stays in its range, whatever    *)
(* set of commands the clients send.                                       *)
THEOREM TypeCorrect ==
  Spec => []TypeOK
<1>1. IInv => TypeOK
  BY DEF IInv
<1> QED BY <1>1, Invariance, PTL

(* Any number of clients may send any commands in any order: for each      *)
(* request received exactly one reply is sent, before the next is.         *)
THEOREM OneReplyPerRequest ==
  Spec => []InTurn
<1>1. IInv => InTurn
  BY DEF IInv
<1> QED BY <1>1, Invariance, PTL

(* Every client finds its reply in the field that belongs to its request.  *)
THEOREM RepliesFit ==
  Spec => []ReplyFits
<1>1. IInv => ReplyFits
  BY DEF IInv
<1> QED BY <1>1, Invariance, PTL

-----------------------------------------------------------------------------
(* The refinement.                                                         *)

(* The answer of the client being served is what Content() makes of the    *)
(* response.                                                               *)
LEMMA AnswerGiven ==
  ASSUME NEW c \in Client, NEW v, peer = {c}, peer' = peer,
         pc = "handle", pc' = "reply", Content(rspproto') = v
  PROVE  Answers' = [Answers EXCEPT ![c] = v]
BY DEF Answers, Content

(* What is written to one variable is written to one register.             *)
LEMMA OneRegister ==
  ASSUME NEW r, NEW v, r \in {"bypass", "gain", "delay"} \cup Switch,
         enabled \in [Switch -> BOOLEAN],
         bypass'  = (IF r = "bypass" THEN v ELSE bypass),
         gain'    = (IF r = "gain" THEN v ELSE gain),
         delay'   = (IF r = "delay" THEN v ELSE delay),
         enabled' = (IF r \in Switch THEN [enabled EXCEPT ![r] = v] ELSE enabled)
  PROVE  Registers' = [Registers EXCEPT ![r] = v]
BY CommandsAssumption DEF Registers, Store

(* A write changes one register and is answered OK.                        *)
LEMMA Written ==
  ASSUME NEW c, NEW r, NEW v,
         Registers' = [Registers EXCEPT ![r] = v],
         Answers' = [Answers EXCEPT ![c] = <<"OK">>]
  PROVE  Interface!Perform(<<"write", r, v>>, c)
BY DEF Interface!Perform

(* A reading changes nothing and is answered with what is shown.           *)
LEMMA Read ==
  ASSUME NEW c, NEW r, NEW x,
         Registers' = Registers,
         x = (IF r = "gain" THEN Reported[Registers[r][1]] ELSE Registers[r]),
         Answers' = [Answers EXCEPT ![c] = <<"OK", r, x>>]
  PROVE  Interface!Perform(<<"read", r>>, c)
BY DEF Interface!Perform

(* What does nothing is answered OK as well.                               *)
LEMMA NothingDone ==
  ASSUME NEW c, Registers' = Registers,
         Answers' = [Answers EXCEPT ![c] = <<"OK">>]
  PROVE  Interface!Perform(<<"nothing">>, c)
BY DEF Interface!Perform

(* A refusal changes nothing and is answered as an error.                  *)
LEMMA Refused ==
  ASSUME NEW c, Registers' = Registers,
         Answers' = [Answers EXCEPT ![c] = <<"ERROR">>]
  PROVE  Interface!Perform(<<"refuse">>, c)
BY DEF Interface!Perform

(* How a gain is given and how it is set come to the same.                 *)
LEMMA GainAsked ==
  ASSUME NEW g \in GainType
  PROVE  DecibelsOf(g) = <<IF g = <<>> THEN 0 ELSE Head(g),
                           IF g = <<>> THEN 0 ELSE g[Len(g)]>>
<1>1. CASE g = <<>>
  BY <1>1 DEF DecibelsOf
<1>2. CASE \E d \in Decibel : g = <<d>>
  BY <1>2 DEF DecibelsOf
<1>3. CASE g \in Decibel \X Decibel
  <2>1. PICK a \in Decibel, b \in Decibel : g = <<a, b>>
    BY <1>3
  <2> QED BY <2>1 DEF DecibelsOf
<1> QED BY <1>1, <1>2, <1>3 DEF GainType

(* Each handler performs the operation of its command.                     *)
LEMMA HandlerPerforms ==
  ASSUME TypeOK, HandleCommand, NEW c \in Client, peer = {c}
  PROVE  Interface!Perform(OperationOf(cmdproto), c)
<1>1. /\ pc = "handle" /\ pc' = "reply" /\ cmdproto \in Asked
      /\ peer' = peer /\ enabled \in [Switch -> BOOLEAN]
  BY EveryHandlerResponds DEF TypeOK, unhandled
<1>2. CASE InternalShutdown
  <2>1. OperationOf(cmdproto) = <<"nothing">>
    BY <1>2 DEF InternalShutdown, Handling, OperationOf
  <2>2. Content(rspproto') = <<"OK">>
    BY <1>2 DEF InternalShutdown, Respond, Content
  <2>3. Registers' = Registers
    BY <1>2 DEF InternalShutdown, Registers, settings
  <2>4. Answers' = [Answers EXCEPT ![c] = <<"OK">>]
    BY <1>1, <2>2, AnswerGiven
  <2> QED BY <2>1, <2>3, <2>4, NothingDone
<1>3. CASE SetMasterBypass
  <2>1. OperationOf(cmdproto) = <<"write", "bypass", cmdproto.bypass>>
    BY <1>3 DEF SetMasterBypass, Handling, OperationOf
  <2>2. Content(rspproto') = <<"OK">>
    BY <1>3 DEF SetMasterBypass, Respond, Content
  <2>3. Registers' = [Registers EXCEPT !["bypass"] = cmdproto.bypass]
    BY <1>1, <1>3, OneRegister, CommandsAssumption DEF SetMasterBypass
  <2>4. Answers' = [Answers EXCEPT ![c] = <<"OK">>]
    BY <1>1, <2>2, AnswerGiven
  <2> QED BY <2>1, <2>3, <2>4, Written
<1>4. CASE GetMasterBypass
  <2>1. OperationOf(cmdproto) = <<"read", "bypass">>
    BY <1>4 DEF GetMasterBypass, Handling, OperationOf
  <2>2. Content(rspproto') = <<"OK", "bypass", bypass>>
    BY <1>4 DEF GetMasterBypass, Respond, Content
  <2>3. Registers' = Registers /\ Registers["bypass"] = bypass
    BY <1>1, <1>4, CommandsAssumption DEF GetMasterBypass, Registers, Store, settings
  <2>4. Answers' = [Answers EXCEPT ![c] = <<"OK", "bypass", bypass>>]
    BY <1>1, <2>2, AnswerGiven
  <2> QED BY <2>1, <2>3, <2>4, Read
<1>5. CASE SetAgc
  <2>1. OperationOf(cmdproto) = <<"nothing">>
    BY <1>5 DEF SetAgc, Handling, OperationOf
  <2>2. Content(rspproto') = <<"OK">>
    BY <1>5 DEF SetAgc, Respond, Content
  <2>3. Registers' = Registers
    BY <1>5 DEF SetAgc, Registers, settings
  <2>4. Answers' = [Answers EXCEPT ![c] = <<"OK">>]
    BY <1>1, <2>2, AnswerGiven
  <2> QED BY <2>1, <2>3, <2>4, NothingDone
<1>6. CASE GetAgc
  <2>1. OperationOf(cmdproto) = <<"nothing">>
    BY <1>6 DEF GetAgc, Handling, OperationOf
  <2>2. Content(rspproto') = <<"OK">>
    BY <1>6 DEF GetAgc, Respond, Content
  <2>3. Registers' = Registers
    BY <1>6 DEF GetAgc, Registers, settings
  <2>4. Answers' = [Answers EXCEPT ![c] = <<"OK">>]
    BY <1>1, <2>2, AnswerGiven
  <2> QED BY <2>1, <2>3, <2>4, NothingDone
<1>7. CASE SetDelay
  <2>1. OperationOf(cmdproto) = <<"write", "delay", cmdproto.delay_ms>>
    BY <1>7 DEF SetDelay, Handling, OperationOf
  <2>2. Content(rspproto') = <<"OK">>
    BY <1>7 DEF SetDelay, Respond, Content
  <2>3. Registers' = [Registers EXCEPT !["delay"] = cmdproto.delay_ms]
    BY <1>1, <1>7, OneRegister, CommandsAssumption DEF SetDelay
  <2>4. Answers' = [Answers EXCEPT ![c] = <<"OK">>]
    BY <1>1, <2>2, AnswerGiven
  <2> QED BY <2>1, <2>3, <2>4, Written
<1>8. CASE SetEnable
  <2>1. OperationOf(cmdproto) = <<"write", cmdproto.plugin, cmdproto.enable>>
    BY <1>8, Arguments DEF SetEnable, Handling, OperationOf
  <2>2. Content(rspproto') = <<"OK">>
    BY <1>8 DEF SetEnable, Respond, Content
  <2>3. Registers' = [Registers EXCEPT ![cmdproto.plugin] = cmdproto.enable]
    BY <1>1, <1>8, OneRegister, CommandsAssumption, Arguments DEF SetEnable, Handling
  <2>4. Answers' = [Answers EXCEPT ![c] = <<"OK">>]
    BY <1>1, <2>2, AnswerGiven
  <2> QED BY <2>1, <2>3, <2>4, Written
<1>9. CASE GetEnabled
  <2>1. OperationOf(cmdproto) = <<"read", cmdproto.plugin>>
    BY <1>9 DEF GetEnabled, Handling, OperationOf
  <2>2. Content(rspproto') = <<"OK", cmdproto.plugin, enabled[cmdproto.plugin]>>
    BY <1>9 DEF GetEnabled, Respond, Content
  <2>3. Registers' = Registers /\ Registers[cmdproto.plugin] = enabled[cmdproto.plugin]
    BY <1>1, <1>9, CommandsAssumption, Arguments DEF GetEnabled, Registers, Store, settings, Handling
  <2>4. Answers' = [Answers EXCEPT ![c] = <<"OK", cmdproto.plugin, enabled[cmdproto.plugin]>>]
    BY <1>1, <2>2, AnswerGiven
  <2>5. cmdproto.plugin # "gain"
    BY <1>1, <1>9, CommandsAssumption, Arguments DEF GetEnabled, Handling
  <2> QED BY <2>1, <2>3, <2>4, <2>5, Read
<1>10. CASE SetGain /\ cmdproto.which = "MAIN_IN"
  <2>1. DecibelsOf(cmdproto.gain) =
          <<IF cmdproto.gain = <<>> THEN 0 ELSE Head(cmdproto.gain),
            IF cmdproto.gain = <<>> THEN 0 ELSE cmdproto.gain[Len(cmdproto.gain)]>>
    BY <1>1, <1>10, Arguments, GainAsked DEF SetGain, Handling
  <2>2. OperationOf(cmdproto) = <<"write", "gain", DecibelsOf(cmdproto.gain)>>
    BY <1>10, <2>1 DEF SetGain, Handling, OperationOf
  <2>3. Content(rspproto') = <<"OK">>
    BY <1>10 DEF SetGain, Respond, Content
  <2>4. Registers' = [Registers EXCEPT !["gain"] = DecibelsOf(cmdproto.gain)]
    BY <1>1, <1>10, OneRegister, CommandsAssumption DEF SetGain
  <2>5. Answers' = [Answers EXCEPT ![c] = <<"OK">>]
    BY <1>1, <2>3, AnswerGiven
  <2> QED BY <2>2, <2>4, <2>5, Written
<1>11. CASE SetGain /\ cmdproto.which # "MAIN_IN"
  <2>1. OperationOf(cmdproto) = <<"nothing">>
    BY <1>11 DEF SetGain, Handling, OperationOf
  <2>2. Content(rspproto') = <<"OK">>
    BY <1>11 DEF SetGain, Respond, Content
  <2>3. Registers' = Registers
    BY <1>11 DEF SetGain, Registers
  <2>4. Answers' = [Answers EXCEPT ![c] = <<"OK">>]
    BY <1>1, <2>2, AnswerGiven
  <2> QED BY <2>1, <2>3, <2>4, NothingDone
<1>12. CASE GetGain /\ cmdproto.which = "MAIN_IN"
  <2>1. OperationOf(cmdproto) = <<"read", "gain">>
    BY <1>12 DEF GetGain, Handling, OperationOf
  <2>2. Content(rspproto') = <<"OK", "gain", Reported[gain[1]]>>
    BY <1>12 DEF GetGain, Respond, Content
  <2>3. Registers' = Registers /\ Registers["gain"] = gain
    BY <1>12, CommandsAssumption DEF GetGain, Registers, Store, settings
  <2>4. Answers' = [Answers EXCEPT ![c] = <<"OK", "gain", Reported[gain[1]]>>]
    BY <1>1, <2>2, AnswerGiven
  <2> QED BY <2>1, <2>3, <2>4, Read
<1>13. CASE GetGain /\ cmdproto.which # "MAIN_IN"
  <2>1. OperationOf(cmdproto) = <<"nothing">>
    BY <1>13 DEF GetGain, Handling, OperationOf
  <2>2. Content(rspproto') = <<"OK">>
    BY <1>13 DEF GetGain, Respond, Content
  <2>3. Registers' = Registers
    BY <1>13 DEF GetGain, Registers, settings
  <2>4. Answers' = [Answers EXCEPT ![c] = <<"OK">>]
    BY <1>1, <2>2, AnswerGiven
  <2> QED BY <2>1, <2>3, <2>4, NothingDone
<1>14. CASE Unknown
  <2>1. OperationOf(cmdproto) = <<"refuse">>
    BY <1>14 DEF Unknown, OperationOf
  <2>2. Content(rspproto') = <<"ERROR">>
    BY <1>14 DEF Unknown, Content
  <2>3. Registers' = Registers
    BY <1>14 DEF Unknown, Registers, settings
  <2>4. Answers' = [Answers EXCEPT ![c] = <<"ERROR">>]
    BY <1>1, <2>2, AnswerGiven
  <2> QED BY <2>1, <2>3, <2>4, Refused
<1> QED BY <1>2, <1>3, <1>4, <1>5, <1>6, <1>7, <1>8, <1>9, <1>10, <1>11, <1>12,
           <1>13, <1>14
        DEF HandleCommand

(* The initial states map to initial states.                               *)
LEMMA InitRefines ==
  Init => Interface!Init
BY DEF Init, Interface!Init, Registers, Answers

(* Every step maps to a step or a stutter: sending asks, handling serves,  *)
(* replying is taken, and the bass enhancer fades.                         *)
LEMMA StepRefines ==
  IInv /\ [Next]_vars => [Interface!Next]_Interface!vars
<1> SUFFICES ASSUME IInv, [Next]_vars PROVE [Interface!Next]_Interface!vars
  OBVIOUS
<1>1. ASSUME NEW c \in Client, SendRequest(c) PROVE Interface!Ask(c)
  BY <1>1 DEF SendRequest, Interface!Ask, Registers, Answers, settings
<1>2. ASSUME NEW c \in Client, Receive(c) PROVE UNCHANGED Interface!vars
  <2>1. Answers' = Answers
    BY <1>2 DEF Receive, Answers
  <2> QED BY <1>2, <2>1 DEF Receive, Interface!vars, Registers, settings
<1>3. ASSUME HandleCommand PROVE \E c \in Client : Interface!Serve(c)
  <2>1. /\ pc = "handle" /\ UNCHANGED unhandled
    BY <1>3, EveryHandlerResponds DEF IInv
  <2>2. PICK c \in Client : /\ peer = {c}
                            /\ request[c] # NoRequest
                            /\ cmdproto \in Parsed(request[c])
    BY <2>1 DEF IInv, Serving
  <2>3. Interface!Perform(OperationOf(cmdproto), c)
    BY <1>3, <2>2, HandlerPerforms DEF IInv
  <2>4. OperationOf(cmdproto) \in OperationsOf(request[c])
    BY <2>2 DEF OperationsOf
  <2>5. Answers[c] = <<>>
    BY <2>1 DEF Answers
  <2> QED BY <2>1, <2>2, <2>3, <2>4, <2>5 DEF Interface!Serve, unhandled
<1>4. ASSUME SendReply PROVE \E c \in Client : Interface!Take(c)
  <2>1. PICK c \in Client : peer = {c}
    BY <1>4 DEF SendReply, IInv, Serving
  <2>2. Answers[c] # <<>>
    BY <1>4, <2>1 DEF SendReply, Answers, Content
  <2>3. request' = [request EXCEPT ![c] = NoRequest]
    BY <1>4, <2>1 DEF SendReply, IInv, TypeOK
  <2>4. Answers' = [Answers EXCEPT ![c] = <<>>]
    BY <1>4, <2>1 DEF SendReply, Loop, Answers
  <2> QED BY <1>4, <2>2, <2>3, <2>4 DEF SendReply, Interface!Take, Registers, settings
<1>5. ASSUME Stop PROVE UNCHANGED Interface!vars
  BY <1>5 DEF Stop, Interface!vars, Registers, Answers, settings
<1>6. ASSUME BassBlock PROVE Interface!Fade
  <2>1. Registers' = [Registers EXCEPT ![Bass] = FALSE]
    BY <1>6, CommandsAssumption, OneRegister DEF BassBlock, IInv, TypeOK
  <2>2. UNCHANGED <<request, Answers>>
    BY <1>6 DEF BassBlock, Answers
  <2> QED BY <2>1, <2>2 DEF Interface!Fade
<1>7. ASSUME UNCHANGED vars PROVE UNCHANGED Interface!vars
  BY <1>7 DEF vars, Interface!vars, Registers, Answers, settings
<1> QED BY <1>1, <1>2, <1>3, <1>4, <1>5, <1>6, <1>7
        DEF Next, Responder, Interface!Next

(* The command interface, whatever the clients ask and however many there  *)
(* are, is a set of registers: each request takes effect once, at one      *)
(* moment, on the register it names.                                       *)
THEOREM InterfaceIsRegisters ==
  Spec => ImplementsSettings
BY Invariance, InitRefines, StepRefines, PTL
   DEF Spec, ImplementsSettings, Interface!Spec
=============================================================================
