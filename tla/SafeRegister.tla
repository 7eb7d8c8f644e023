---------------------------- MODULE SafeRegister ----------------------------
(***************************************************************************)
(* A safe register, after Lamport: one writer, one reader, neither waits   *)
(* for the other.  A read that no write overlaps returns what was last     *)
(* written; a read that overlaps a write may return anything.              *)
(*                                                                         *)
(* What is written is the next of a sequence, and the register holds a     *)
(* number; Message says how each number is represented.                    *)
(***************************************************************************)
EXTENDS Naturals

CONSTANTS
  Message,  \* from numbers to what a reader gets to see
  Pending   \* in place of a result, while a read is under way

VARIABLES
  value,    \* how often the register has been written
  writing,  \* a write has begun and not ended
  reading,  \* a read has begun and not ended
  clean,    \* no write has overlapped the read
  result    \* what the last read returned

vars == <<value, writing, reading, clean, result>>

Init ==
  /\ value = 0
  /\ writing = FALSE
  /\ reading = FALSE
  /\ clean = TRUE
  /\ result = Message[0]

BeginWrite ==
  /\ ~writing
  /\ writing' = TRUE
  /\ clean' = FALSE
  /\ UNCHANGED <<value, reading, result>>

EndWrite ==
  /\ writing
  /\ writing' = FALSE
  /\ value' = value + 1
  /\ UNCHANGED <<reading, clean, result>>

BeginRead ==
  /\ ~reading
  /\ reading' = TRUE
  /\ clean' = ~writing
  /\ result' = Pending
  /\ UNCHANGED <<value, writing>>

EndRead ==
  /\ reading
  /\ reading' = FALSE
  /\ clean => result' = Message[value]
  /\ UNCHANGED <<value, writing, clean>>

Next == BeginWrite \/ EndWrite \/ BeginRead \/ EndRead

Spec == Init /\ [][Next]_vars
=============================================================================
