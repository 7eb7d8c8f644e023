--------------------------- MODULE DelayedStream ---------------------------
(***************************************************************************)
(* What a delay line promises, with no buffer in sight: a stream of stereo *)
(* frames comes in block by block and leaves `delay' frames later.  After  *)
(* the delay has been set, the output is silent until the first frame that *)
(* came in since then is due, and nothing older is ever heard again.       *)
(*                                                                         *)
(* A frame is identified with its position 1, 2, 3, ... in the input       *)
(* stream; Silence is the frame (0.0, 0.0).                                *)
(***************************************************************************)
EXTENDS Integers

CONSTANTS
  BufSize,    \* frames in a block
  Delays,     \* the delays, in frames, that can be asked for
  MaxFrames,  \* bound: frames that come in
  MaxChanges  \* bound: changes of the delay

Silence == 0

Block == 0..(BufSize - 1)

VARIABLES
  delay,    \* the delay in force
  total,    \* frames that have come in
  fresh,    \* frames that have come in since the delay was set
  changes,  \* changes of the delay so far
  out       \* the last output block

vars == <<delay, total, fresh, changes, out>>

(* Frame i of the block that leaves as frames total + 1 ... come in.       *)
Due(i) == IF fresh + i >= delay THEN total + i + 1 - delay ELSE Silence

Init ==
  /\ delay = 0
  /\ total = 0
  /\ fresh = 0
  /\ changes = 0
  /\ out = [i \in Block |-> Silence]

Process ==
  /\ total + BufSize <= MaxFrames
  /\ total' = total + BufSize
  /\ fresh' = fresh + BufSize
  /\ out' = [i \in Block |-> Due(i)]
  /\ UNCHANGED <<delay, changes>>

SetDelay(d) ==
  /\ changes < MaxChanges
  /\ changes' = changes + 1
  /\ delay' = d
  /\ fresh' = 0
  /\ UNCHANGED <<total, out>>

Next == Process \/ \E d \in Delays : SetDelay(d)

Spec == Init /\ [][Next]_vars
=============================================================================
