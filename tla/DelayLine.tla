------------------------------ MODULE DelayLine ------------------------------
(***************************************************************************)
(* The circular buffer of class DelayLine (delay_line.cc) as PluginDelay   *)
(* drives it: process() once per JACK block, change_delay() on a command.  *)
(* Each is one action, the critical section on the file's mutex.           *)
(*                                                                         *)
(* Pointers are offsets from the start of the buffer; eob is the offset    *)
(* Size.  The left and the right channel make the same moves, so a frame   *)
(* stands for both samples.  Frames are their positions in the input       *)
(* stream, as in DelayedStream.                                            *)
(***************************************************************************)
EXTENDS Integers

CONSTANTS BufSize, Delays, MaxFrames, MaxChanges

ASSUME DelayLineAssumption ==
  /\ BufSize \in Nat \ {0}
  /\ Delays \subseteq Nat
  /\ MaxFrames \in Nat
  /\ MaxChanges \in Nat

Silence == 0

Block == 0..(BufSize - 1)

VARIABLES
  sampDelay,  \* samp_delay
  buf,        \* delay_buf_l and delay_buf_r, as a function from offsets
  w,          \* wPtrL and wPtrR
  r,          \* rPtrL and rPtrR
  out,        \* outL and outR after the last process()
  total,      \* history: frames that have come in
  fresh,      \* history: frames that have come in since the last init()
  changes     \* history: calls of change_delay

vars == <<sampDelay, buf, w, r, out, total, fresh, changes>>

Size == sampDelay + BufSize   \* delay_buf_size

(* The offsets of a fresh buffer of delay d.                               *)
Offsets(d) == 0..(d + BufSize - 1)

-----------------------------------------------------------------------------
(* Slip: the write pointer starts one frame too early.                     *)
InitBuffer_Early(d) ==
  /\ sampDelay' = d
  /\ buf' = [p \in Offsets(d) |-> Silence]
  /\ w' = IF d = 0 THEN 0 ELSE d - 1
  /\ r' = 0

(* init(): new buffers, filled with silence, and the two pointers.         *)
InitBuffer(d) ==
  /\ sampDelay' = d
  /\ buf' = [p \in Offsets(d) |-> Silence]
  /\ w' = d
  /\ r' = 0

(* The constructor of PluginDelay makes a line with no delay.              *)
Init ==
  /\ sampDelay = 0
  /\ buf = [p \in Offsets(0) |-> Silence]
  /\ w = 0
  /\ r = 0
  /\ out = [i \in Block |-> Silence]
  /\ total = 0
  /\ fresh = 0
  /\ changes = 0

(* The old buffers are cleared, not deleted (quit() is commented out):      *)
(* they are never used again, and leak.                                    *)
ChangeDelay(d) ==
  /\ changes < MaxChanges
  /\ InitBuffer(d)
  /\ changes' = changes + 1
  /\ fresh' = 0
  /\ UNCHANGED <<out, total>>

-----------------------------------------------------------------------------
(* process().  A block that does not fit before the end of the buffer is   *)
(* copied in two parts.                                                    *)

(* Slip: the pointer is never taken back to the start of the buffer.       *)
Advance_NoWrap(p) == p + BufSize

(* The offset after a block has been copied to or from p.                  *)
Advance(p) ==
  IF p + BufSize > Size THEN BufSize - (Size - p) ELSE p + BufSize

(* Frame i of the block at p: behind the end of the buffer, it is in the   *)
(* second part.                                                            *)
Slot(p, i) == IF p + i < Size THEN p + i ELSE p + i - Size

(* The incoming block.                                                     *)
In(i) == total + i + 1

(* Slip: the second part of a wrapped block repeats its beginning.         *)
AfterWrite_Repeat ==
  [p \in DOMAIN buf |->
     IF w <= p /\ p < w + BufSize
     THEN In(p - w)
     ELSE IF p < w + BufSize - Size THEN In(p) ELSE buf[p]]

(* The buffer with the incoming block at the write pointer.                *)
AfterWrite ==
  [p \in DOMAIN buf |->
     IF w <= p /\ p < w + BufSize
     THEN In(p - w)
     ELSE IF p < w + BufSize - Size THEN In(Size - w + p) ELSE buf[p]]

Process ==
  /\ total + BufSize <= MaxFrames
  /\ buf' = AfterWrite
  /\ out' = [i \in Block |-> AfterWrite[Slot(r, i)]]
  /\ w' = Advance(w)
  /\ r' = Advance(r)
  /\ total' = total + BufSize
  /\ fresh' = fresh + BufSize
  /\ UNCHANGED <<sampDelay, changes>>

Next == Process \/ \E d \in Delays : ChangeDelay(d)

Spec == Init /\ [][Next]_vars

-----------------------------------------------------------------------------
(* Properties.                                                             *)

(* The pointers stay within the buffer, eob included, so that no memcpy of *)
(* process() runs past an end: Size - w and Size - r are never negative.   *)
TypeOK ==
  /\ sampDelay \in Delays \cup {0}
  /\ buf \in [0..(Size - 1) -> Nat]
  /\ w \in 0..Size
  /\ r \in 0..Size
  /\ out \in [Block -> Nat]
  /\ total \in Nat
  /\ fresh \in Nat
  /\ fresh <= total
  /\ changes \in Nat

(* The write pointer is the delay ahead of the read pointer or, once round *)
(* the end of the buffer, one block behind it: the block written next      *)
(* never overwrites a frame that has still to be read.  HoldsDelayedFrames *)
(* is proved from it.                                                      *)
PointerGap == w = r + sampDelay \/ w = r - BufSize

(* Frame k since init(), or the silence the buffer was filled with.        *)
Frame(k) == IF k > 0 THEN total - fresh + k ELSE Silence

(* Between two blocks the buffer holds, from the read pointer on, the last *)
(* sampDelay frames that came in, each exactly once and in order.          *)
HoldsDelayedFrames ==
  \A j \in 0..(sampDelay - 1) :
    buf[Slot(r, j)] = Frame(fresh - sampDelay + j + 1)

(* The line implements an exact delay: every block that comes out is the   *)
(* one that came in sampDelay frames earlier, with silence after a change  *)
(* and never a frame from before it.                                       *)
Delay == INSTANCE DelayedStream WITH delay <- sampDelay

ExactDelay == Delay!Spec
=============================================================================
