------------------------------ MODULE LiveData ------------------------------
(***************************************************************************)
(* Publisher::m_pld, the protobuf message two threads share without a      *)
(* lock: after every block the real-time thread copies the live data into  *)
(* it (CopyFrom: Clear, then MergeFrom), and every 50 ms the publisher     *)
(* sends its serialised form and its length.                               *)
(*                                                                         *)
(* The steps are the reads and writes of the generated code, in the order  *)
(* of the code; within a group of eight fields, which Clear() sets to zero *)
(* with one memset and MergeFrom() copies in straight-line code, in any    *)
(* order.  The value of a field is the number of the block it comes from,  *)
(* zero after Clear().  A length stands for the fields that it counts.     *)
(***************************************************************************)
EXTENDS Naturals, Sequences

CONSTANTS
  N,          \* fields that the live data has, numbered from 1
  Group,      \* the mask of eight has-bits that each field is under
  Word,       \* the word of _has_bits_ that each field's bit is in
  MaxBlocks   \* bound: blocks processed

Field == 1..N

Words == {Word[f] : f \in Field}

ASSUME LayoutAssumption ==
  /\ N \in Nat \ {0}
  /\ Group \in [Field -> Nat]
  /\ Word \in [Field -> {0, 1}]
  /\ \A f, g \in Field : f < g => Group[f] <= Group[g] /\ Word[f] <= Word[g]
  /\ \A f, g \in Field : Group[f] = Group[g] => Word[f] = Word[g]
  /\ Words = {0, 1}
  /\ MaxBlocks \in Nat

VARIABLES
  value,     \* the fields of m_pld
  has,       \* _has_bits_
  copying,   \* where CopyFrom() is: idle, clear, clearBits, merge, setBits
  todo,      \* the fields that are still to be cleared, or merged
  todoBits,  \* the words of _has_bits_ still to be cleared
  block,     \* blocks processed: the one in m_pld, or being copied into it
  plan,      \* the reads that the publisher has still to make
  sending,   \* the publisher is between waking up and sending
  string,    \* SerializeAsString() so far: the fields written, their values
  bytes,     \* the length SerializeAsString() makes room for
  length,    \* the other argument of message_t(), ByteSizeLong()
  clean,     \* history: no copying has overlapped with this message
  base       \* history: the block that was in m_pld when it was begun

rtVars  == <<value, has, copying, todo, todoBits, block>>
pubVars == <<plan, sending, string, bytes, length, base>>
vars == <<rtVars, pubVars, clean>>

Nothing == [string |-> <<>>, bytes |-> {}, length |-> {}]

(* The whole message for block n; an empty one before the first.           *)
Whole == [n \in 0..MaxBlocks |->
            IF n = 0 THEN Nothing
            ELSE [string |-> [i \in Field |-> <<i, n>>],
                  bytes  |-> Field,
                  length |-> Field]]

Init ==
  /\ value = [f \in Field |-> 0]
  /\ has = [w \in Words |-> {}]
  /\ copying = "idle"
  /\ todo = {}
  /\ todoBits = {}
  /\ block = 0
  /\ plan = <<>>
  /\ sending = FALSE
  /\ string = <<>>
  /\ bytes = {}
  /\ length = {}
  /\ clean = TRUE
  /\ base = 0

-----------------------------------------------------------------------------
(* The real-time thread.                                                   *)

Present == UNION {has[w] : w \in Words}

(* The fields of S that are in its first group.                            *)
FirstGroup(S) == {f \in S : \A g \in S : Group[f] <= Group[g]}

(* refresh_live_data(): CopyFrom() begins.  Clear() sets to zero those     *)
(* groups in which any field is present.                                   *)
BeginRefresh ==
  /\ copying = "idle"
  /\ block < MaxBlocks
  /\ block' = block + 1
  /\ todo' = {f \in Field : \E g \in Present : Group[g] = Group[f]}
  /\ todoBits' = Words
  /\ copying' = IF todo' = {} THEN "clearBits" ELSE "clear"
  /\ clean' = FALSE
  /\ UNCHANGED <<value, has, pubVars>>

ClearField ==
  /\ copying = "clear"
  /\ \E f \in FirstGroup(todo) :
       /\ value' = [value EXCEPT ![f] = 0]
       /\ todo' = todo \ {f}
  /\ copying' = IF todo' = {} THEN "clearBits" ELSE "clear"
  /\ UNCHANGED <<has, todoBits, block, pubVars, clean>>

(* _has_bits_.Clear(); then MergeFrom() begins.                            *)
ClearBits ==
  /\ copying = "clearBits"
  /\ \E w \in todoBits :
       /\ has' = [has EXCEPT ![w] = {}]
       /\ todoBits' = todoBits \ {w}
  /\ IF todoBits' = {}
     THEN copying' = "merge" /\ todo' = Field
     ELSE UNCHANGED <<copying, todo>>
  /\ UNCHANGED <<value, block, pubVars, clean>>

MergeField ==
  /\ copying = "merge"
  /\ \E f \in FirstGroup(todo) :
       /\ value' = [value EXCEPT ![f] = block]
       /\ todo' = todo \ {f}
       /\ copying' = IF FirstGroup(todo) = {f} THEN "setBits" ELSE "merge"
  /\ UNCHANGED <<has, todoBits, block, pubVars, clean>>

(* The word of the group that has just been merged.                        *)
MergedWord ==
  LET done == Field \ todo
      f == CHOOSE f \in done : \A g \in done : g <= f
  IN  Word[f]

(* Slip: it is always the first word that the bits are put in.             *)
SetBits_FirstWord ==
  /\ copying = "setBits"
  /\ has' = [has EXCEPT ![0] = @ \cup {f \in Field : Word[f] = MergedWord}]
  /\ copying' = IF todo = {} THEN "idle" ELSE "merge"
  /\ UNCHANGED <<value, todo, todoBits, block, pubVars, clean>>

(* _has_bits_[w] |= cached_has_bits, after each group: the bits of all     *)
(* fields of the word, those of groups that are still to come included.    *)
SetBits ==
  /\ copying = "setBits"
  /\ has' = [has EXCEPT ![MergedWord] = {f \in Field : Word[f] = MergedWord}]
  /\ copying' = IF todo = {} THEN "idle" ELSE "merge"
  /\ UNCHANGED <<value, todo, todoBits, block, pubVars, clean>>

Refresh ==
  BeginRefresh \/ ClearField \/ ClearBits \/ MergeField \/ SetBits

-----------------------------------------------------------------------------
(* The publisher.                                                          *)

(* The reads of ByteSizeLong(), as it is called for what.                  *)
ByteSizeLong(what) == <<<<what, 0>>, <<what, 1>>>>

(* SerializeAsString() makes room for ByteSizeLong(), and then, field by   *)
(* field, looks at the bit and reads the value.                            *)
SerializeAsString ==
  ByteSizeLong("bytes") \o [i \in 1..(2 * N) |->
    <<IF i % 2 = 1 THEN "bit" ELSE "value", (i + 1) \div 2>>]

(* Slip: the string is made once, and sent again.                          *)
BeginMessage_Once ==
  /\ ~sending
  /\ sending' = TRUE
  /\ plan' = IF string = <<>>
             THEN SerializeAsString \o ByteSizeLong("length")
             ELSE ByteSizeLong("length")
  /\ bytes' = IF string = <<>> THEN {} ELSE bytes
  /\ length' = {}
  /\ clean' = (copying = "idle")
  /\ base' = IF copying = "idle" THEN block ELSE block - 1
  /\ UNCHANGED <<rtVars, string>>

(* usleep() returns; the two arguments of message_t() are evaluated in     *)
(* whichever order the compiler has chosen.                                *)
BeginMessage ==
  /\ ~sending
  /\ sending' = TRUE
  /\ plan' \in {SerializeAsString \o ByteSizeLong("length"),
                ByteSizeLong("length") \o SerializeAsString}
  /\ string' = <<>>
  /\ bytes' = {}
  /\ length' = {}
  /\ clean' = (copying = "idle")
  /\ base' = IF copying = "idle" THEN block ELSE block - 1
  /\ UNCHANGED rtVars

NextRead(what) == plan # <<>> /\ Head(plan)[1] = what

At == Head(plan)[2]

ReadBytes ==
  /\ NextRead("bytes")
  /\ bytes' = bytes \cup has[At]
  /\ plan' = Tail(plan)
  /\ UNCHANGED <<rtVars, sending, string, length, clean, base>>

ReadLength ==
  /\ NextRead("length")
  /\ length' = length \cup has[At]
  /\ plan' = Tail(plan)
  /\ UNCHANGED <<rtVars, sending, string, bytes, clean, base>>

(* A field that is not present is passed over.                             *)
ReadBit ==
  /\ NextRead("bit")
  /\ plan' = IF At \in has[Word[At]] THEN Tail(plan) ELSE Tail(Tail(plan))
  /\ UNCHANGED <<rtVars, sending, string, bytes, length, clean, base>>

ReadValue ==
  /\ NextRead("value")
  /\ string' = Append(string, <<At, value[At]>>)
  /\ plan' = Tail(plan)
  /\ UNCHANGED <<rtVars, sending, bytes, length, clean, base>>

Send ==
  /\ sending
  /\ plan = <<>>
  /\ sending' = FALSE
  /\ UNCHANGED <<rtVars, plan, string, bytes, length, clean, base>>

Publish ==
  BeginMessage \/ ReadBytes \/ ReadLength \/ ReadBit \/ ReadValue \/ Send

Next == Refresh \/ Publish

Spec == Init /\ [][Next]_vars

-----------------------------------------------------------------------------
(* Properties.                                                             *)

(* Every variable stays in its range; no field is written twice.           *)
TypeOK ==
  /\ value \in [Field -> 0..MaxBlocks]
  /\ \A w \in Words : has[w] \subseteq {f \in Field : Word[f] = w}
  /\ copying \in {"idle", "clear", "clearBits", "merge", "setBits"}
  /\ todo \subseteq Field
  /\ todoBits \subseteq Words
  /\ block \in 0..MaxBlocks
  /\ Len(plan) <= 2 * N + 4
  /\ sending \in BOOLEAN
  /\ \A i \in DOMAIN string : string[i] \in Field \X (0..MaxBlocks)
  /\ \A i, j \in DOMAIN string : i < j => string[i][1] < string[j][1]
  /\ bytes \subseteq Field /\ length \subseteq Field
  /\ clean \in BOOLEAN
  /\ base \in 0..MaxBlocks

(* Each field taken by itself is regular: it is from the block that was in *)
(* m_pld when the message was begun, or from one processed meanwhile,      *)
(* never from an earlier one; or it is zero, which can only be seen while  *)
(* a copy is under way (MergeFrom() raises the bits of a whole word before *)
(* it has copied all of its fields).                                       *)
RegularFields ==
  \A i \in DOMAIN string :
    LET v == string[i][2] IN
      \/ v \in base..block /\ v > 0
      \/ v = 0 /\ ~clean

(* What the publisher sends is, as a whole, no more than safe: a message   *)
(* put together while no copy is under way is complete, from one block,    *)
(* with the right length in both places; of any other nothing of this can  *)
(* be said.                                                                *)
Register == INSTANCE SafeRegister WITH
  Message <- Whole,
  value   <- IF copying = "idle" THEN block ELSE block - 1,
  writing <- copying # "idle",
  reading <- sending,
  Pending <- "pending",
  result  <- IF sending THEN "pending"
             ELSE [string |-> string, bytes |-> bytes, length |-> length]

SafeMessage == Register!Spec
=============================================================================
