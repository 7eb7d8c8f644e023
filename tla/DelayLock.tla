------------------------------ MODULE DelayLock ------------------------------
(***************************************************************************)
(* The delay line under its two threads: the real-time thread in process() *)
(* and the responder in init(), each call with the mutex of delay_line.cc  *)
(* held through a unique_lock.  Both functions end with mtx.unlock(), and  *)
(* then the destructor of the unique_lock, which does not know of it,      *)
(* unlocks once more.  Unlocking, as the library is built, makes the mutex *)
(* free whoever holds it, and does nothing to a free one.                  *)
(*                                                                         *)
(* The effect of a call on the line is the action of DelayLine, somewhere  *)
(* between locking and unlocking.  That is faithful as long as the two do  *)
(* not meet inside; once they have, nothing can be said of the buffers any *)
(* more, and the model ends.                                               *)
(***************************************************************************)
EXTENDS DelayLine

Thread == {"rt", "responder"}

Other(t) == IF t = "rt" THEN "responder" ELSE "rt"

VARIABLES
  locked,  \* mtx
  pc,      \* of each thread: out, inside, leaving, or unlocked (by hand)
  robbed,  \* history: the other's second unlock has hit the section t is in
  met      \* both threads have been inside at the same time

lockVars == <<locked, pc, robbed, met>>
threadVars == <<vars, lockVars>>

LockInit ==
  /\ Init
  /\ locked = FALSE
  /\ pc = [t \in Thread |-> "out"]
  /\ robbed = [t \in Thread |-> FALSE]
  /\ met = FALSE

Goto(t, from, to) == pc[t] = from /\ pc' = [pc EXCEPT ![t] = to]

(* Slip: the lock is constructed with defer_lock.                          *)
Enter_Deferred(t) ==
  /\ Goto(t, "out", "inside")
  /\ t = "rt" => total + BufSize <= MaxFrames
  /\ t = "responder" => changes < MaxChanges
  /\ robbed' = [robbed EXCEPT ![t] = FALSE]
  /\ met' = (pc[Other(t)] = "inside")
  /\ UNCHANGED <<vars, locked>>

(* unique_lock<mutex> lck(mtx).                                            *)
Enter(t) ==
  /\ Goto(t, "out", "inside")
  /\ t = "rt" => total + BufSize <= MaxFrames
  /\ t = "responder" => changes < MaxChanges
  /\ ~locked
  /\ locked' = TRUE
  /\ robbed' = [robbed EXCEPT ![t] = FALSE]
  /\ met' = (pc[Other(t)] = "inside")
  /\ UNCHANGED vars

ProcessBlock ==
  /\ Goto("rt", "inside", "leaving")
  /\ Process
  /\ UNCHANGED <<locked, robbed, met>>

InitLine ==
  /\ Goto("responder", "inside", "leaving")
  /\ \E d \in Delays : ChangeDelay(d)
  /\ UNCHANGED <<locked, robbed, met>>

(* Slip: the unlocking is left out where the section ends, and the object  *)
(* that would do it has been released.                                     *)
Unlock_Not(t) ==
  /\ Goto(t, "leaving", "out")
  /\ UNCHANGED <<vars, locked, robbed, met>>

(* mtx.unlock(), the last statement of both functions.                     *)
Unlock(t) ==
  /\ Goto(t, "leaving", "unlocked")
  /\ locked' = FALSE
  /\ UNCHANGED <<vars, robbed, met>>

(* The destructor of lck, which still believes to own the mutex.           *)
Destroy(t) ==
  /\ Goto(t, "unlocked", "out")
  /\ locked' = FALSE
  /\ robbed' = [robbed EXCEPT ![Other(t)] =
                  @ \/ pc[Other(t)] \in {"inside", "leaving"}]
  /\ UNCHANGED <<vars, met>>

ThreadStep(t) ==
  \/ Enter(t)
  \/ t = "rt" /\ ProcessBlock
  \/ t = "responder" /\ InitLine
  \/ Unlock(t)
  \/ Destroy(t)

LockNext == ~met /\ \E t \in Thread : ThreadStep(t)

LockSpec == LockInit /\ [][LockNext]_threadVars

-----------------------------------------------------------------------------
(* Properties.                                                             *)

(* init() and process() are inside together only if, while one of them was *)
(* inside, the other's second unlock has taken the mutex from it and the   *)
(* other has then come back with a call of its own: a change of delay that *)
(* takes longer than until the next block, or two changes in one block.    *)
MeetOnlyIfRobbed ==
  met => \E t \in Thread : pc[t] = "inside" /\ robbed[t]

(* The second unlock never leaves the mutex locked behind: if neither      *)
(* thread is between locking and unlocking by hand, it is free, so that    *)
(* neither can block the other for good.                                   *)
FreeWhenNobodyInside ==
  (\A t \in Thread : pc[t] \in {"out", "unlocked"}) => ~locked
=============================================================================
