------------------------------ MODULE Settings ------------------------------
(***************************************************************************)
(* What the command interface promises: a set of registers that any number *)
(* of clients write and read, each request taking effect at one moment     *)
(* between being sent and being answered, once.  Some registers may lose   *)
(* what has been written to them at any time.                              *)
(*                                                                         *)
(* An operation is <<"write", register, value>>, <<"read", register>>,     *)
(* <<"nothing">>, or <<"refuse">>.                                         *)
(***************************************************************************)
CONSTANTS
  Client,
  Initial,       \* the stores to begin with: functions from registers to values
  Faded,         \* of each register that does not keep its value, what it falls to
  Request,       \* what clients send
  Idle,          \* in place of a request
  Operation(_),  \* the operations that a request may be taken for
  Shown(_, _)    \* what a reader is shown of a register and its value

VARIABLES
  store,    \* the registers
  asked,    \* the request of each client
  answer    \* the answer to it, <<>> if there is none yet

vars == <<store, asked, answer>>

Init ==
  /\ store \in Initial
  /\ asked = [c \in Client |-> Idle]
  /\ answer = [c \in Client |-> <<>>]

Ask(c) ==
  /\ asked[c] = Idle
  /\ \E r \in Request : asked' = [asked EXCEPT ![c] = r]
  /\ UNCHANGED <<store, answer>>

Perform(op, c) ==
  \/ /\ op[1] = "write"
     /\ store' = [store EXCEPT ![op[2]] = op[3]]
     /\ answer' = [answer EXCEPT ![c] = <<"OK">>]
  \/ /\ op[1] = "read"
     /\ store' = store
     /\ answer' =
          [answer EXCEPT ![c] = <<"OK", op[2], Shown(op[2], store[op[2]])>>]
  \/ /\ op[1] = "nothing"
     /\ store' = store
     /\ answer' = [answer EXCEPT ![c] = <<"OK">>]
  \/ /\ op[1] = "refuse"
     /\ store' = store
     /\ answer' = [answer EXCEPT ![c] = <<"ERROR">>]

Serve(c) ==
  /\ asked[c] # Idle
  /\ answer[c] = <<>>
  /\ \E op \in Operation(asked[c]) : Perform(op, c)
  /\ UNCHANGED asked

Take(c) ==
  /\ answer[c] # <<>>
  /\ asked' = [asked EXCEPT ![c] = Idle]
  /\ answer' = [answer EXCEPT ![c] = <<>>]
  /\ UNCHANGED store

Fade ==
  /\ \E r \in DOMAIN Faded : store' = [store EXCEPT ![r] = Faded[r]]
  /\ UNCHANGED <<asked, answer>>

Next == Fade \/ \E c \in Client : Ask(c) \/ Serve(c) \/ Take(c)

Spec == Init /\ [][Next]_vars
=============================================================================
