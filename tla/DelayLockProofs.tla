--------------------------- MODULE DelayLockProofs ---------------------------
(***************************************************************************)
(* Proofs about the delay line under its two threads: what the second      *)
(* unlock can do and cannot do, and that the line stays an exact delay     *)
(* as long as the two threads have not met.                                *)
(***************************************************************************)
EXTENDS DelayLock, DelayLineProofs

InSection(t) == pc[t] \in {"inside", "leaving"}

LockTypeOK ==
  /\ locked \in BOOLEAN
  /\ pc \in [Thread -> {"out", "inside", "leaving", "unlocked"}]
  /\ robbed \in [Thread -> BOOLEAN]
  /\ met \in BOOLEAN

(* Who is in the section has the mutex, unless it has been robbed, or the  *)
(* other has unlocked by hand and is about to do so again: it can then not *)
(* come back before its destructor has left the mark.                      *)
HolderOrRobbed ==
  \A t \in Thread :
    InSection(t) /\ ~robbed[t] /\ pc[Other(t)] # "unlocked" => locked

LockInv ==
  /\ LockTypeOK
  /\ HolderOrRobbed
  /\ FreeWhenNobodyInside
  /\ MeetOnlyIfRobbed

LEMMA OtherLemma ==
  ASSUME NEW t \in Thread
  PROVE  /\ Other(t) \in Thread
         /\ Other(t) # t
         /\ \A u \in Thread : u = t \/ u = Other(t)
         /\ Other(Other(t)) = t
BY DEF Thread, Other

(* Whoever finds the mutex free while the other is inside finds a robbed   *)
(* one there.                                                              *)
LEMMA EnterKeeps ==
  ASSUME LockInv, ~met, NEW t \in Thread, Enter(t)
  PROVE  LockInv'
<1>1. /\ Other(t) \in Thread /\ Other(t) # t
      /\ \A u \in Thread : u = t \/ u = Other(t)
      /\ Other(Other(t)) = t
  BY OtherLemma
<1>2. /\ pc[t] = "out" /\ ~locked /\ locked' = TRUE
      /\ pc' = [pc EXCEPT ![t] = "inside"]
      /\ robbed' = [robbed EXCEPT ![t] = FALSE]
      /\ met' = (pc[Other(t)] = "inside")
  BY DEF Enter, Goto
<1>3. LockTypeOK'
  BY <1>1, <1>2 DEF LockInv, LockTypeOK
<1>4. HolderOrRobbed'
  BY <1>2 DEF HolderOrRobbed
<1>5. FreeWhenNobodyInside'
  <2>1. pc'[t] = "inside"
    BY <1>2 DEF LockInv, LockTypeOK
  <2>2. QED
    BY <2>1 DEF FreeWhenNobodyInside
<1>6. MeetOnlyIfRobbed'
  <2> SUFFICES ASSUME met' PROVE \E u \in Thread : pc'[u] = "inside" /\ robbed'[u]
    BY DEF MeetOnlyIfRobbed
  <2>1. pc[Other(t)] = "inside"
    BY <1>2
  <2>2. robbed[Other(t)]
    BY <1>1, <1>2, <2>1 DEF LockInv, LockTypeOK, HolderOrRobbed, InSection
  <2>3. pc'[Other(t)] = "inside" /\ robbed'[Other(t)]
    BY <1>1, <1>2, <2>1, <2>2 DEF LockInv, LockTypeOK
  <2>4. QED
    BY <1>1, <2>3
<1>7. QED
  BY <1>3, <1>4, <1>5, <1>6 DEF LockInv

(* The work inside moves a thread on and touches nothing of the lock.      *)
LEMMA WorkKeeps ==
  ASSUME LockInv, ~met, NEW t \in Thread, Goto(t, "inside", "leaving"),
         UNCHANGED <<locked, robbed, met>>
  PROVE  LockInv'
<1>1. Other(t) \in Thread /\ Other(t) # t
      /\ \A u \in Thread : u = t \/ u = Other(t)
  BY OtherLemma
<1>2. pc' = [pc EXCEPT ![t] = "leaving"] /\ pc[t] = "inside"
      /\ locked' = locked /\ robbed' = robbed /\ met' = met
  BY DEF Goto
<1>3. LockTypeOK'
  BY <1>2 DEF LockInv, LockTypeOK
<1>4. HolderOrRobbed'
  BY <1>1, <1>2, OtherLemma DEF LockInv, LockTypeOK, HolderOrRobbed, InSection
<1>5. FreeWhenNobodyInside'
  <2>1. pc'[t] = "leaving"
    BY <1>2 DEF LockInv, LockTypeOK
  <2>2. QED
    BY <2>1 DEF FreeWhenNobodyInside
<1>6. MeetOnlyIfRobbed'
  BY <1>2 DEF MeetOnlyIfRobbed
<1>7. QED
  BY <1>3, <1>4, <1>5, <1>6 DEF LockInv

LEMMA UnlockKeeps ==
  ASSUME LockInv, ~met, NEW t \in Thread, Unlock(t)
  PROVE  LockInv'
<1>1. /\ Other(t) \in Thread /\ Other(t) # t
      /\ \A u \in Thread : u = t \/ u = Other(t)
      /\ Other(Other(t)) = t
  BY OtherLemma
<1>2. pc' = [pc EXCEPT ![t] = "unlocked"] /\ pc[t] = "leaving"
      /\ locked' = FALSE /\ robbed' = robbed /\ met' = met
  BY DEF Goto, Unlock
<1>3. LockTypeOK'
  BY <1>2 DEF LockInv, LockTypeOK
<1>4. HolderOrRobbed'
  <2>1. pc'[t] = "unlocked"
    BY <1>2 DEF LockInv, LockTypeOK
  <2>2. \A u \in Thread : pc'[u] # "unlocked" => pc'[Other(u)] = "unlocked"
    BY <1>1, <2>1
  <2>3. QED
    BY <2>2 DEF HolderOrRobbed, InSection
<1>5. FreeWhenNobodyInside' /\ MeetOnlyIfRobbed'
  BY <1>2 DEF FreeWhenNobodyInside, MeetOnlyIfRobbed
<1>6. QED
  BY <1>3, <1>4, <1>5 DEF LockInv

(* The second unlock marks whom it takes the mutex from.                   *)
LEMMA DestroyKeeps ==
  ASSUME LockInv, ~met, NEW t \in Thread, Destroy(t)
  PROVE  LockInv'
<1>1. /\ Other(t) \in Thread /\ Other(t) # t
      /\ \A u \in Thread : u = t \/ u = Other(t)
  BY OtherLemma
<1>2. /\ pc' = [pc EXCEPT ![t] = "out"] /\ pc[t] = "unlocked"
      /\ locked' = FALSE /\ met' = met
      /\ robbed' = [robbed EXCEPT ![Other(t)] =
                      @ \/ pc[Other(t)] \in {"inside", "leaving"}]
  BY DEF Goto, Destroy
<1>3. LockTypeOK'
  <2>1. robbed' \in [Thread -> BOOLEAN]
    BY <1>2 DEF LockInv, LockTypeOK
  <2>2. QED
    BY <1>2, <2>1 DEF LockInv, LockTypeOK
<1>4. HolderOrRobbed'
  <2>1. pc'[t] = "out" /\ pc'[Other(t)] = pc[Other(t)]
    BY <1>1, <1>2 DEF LockInv, LockTypeOK
  <2>2. InSection(Other(t))' => robbed'[Other(t)]
    BY <1>1, <1>2, <2>1 DEF LockInv, LockTypeOK, InSection
  <2>3. ~InSection(t)'
    BY <2>1 DEF InSection
  <2>4. \A u \in Thread : InSection(u)' => robbed'[u]
    BY <1>1, <2>2, <2>3
  <2>5. QED
    BY <2>4 DEF HolderOrRobbed
<1>5. FreeWhenNobodyInside' /\ MeetOnlyIfRobbed'
  BY <1>2 DEF FreeWhenNobodyInside, MeetOnlyIfRobbed
<1>6. QED
  BY <1>3, <1>4, <1>5 DEF LockInv

LEMMA LockInvInvariant == LockSpec => []LockInv
<1>1. LockInit => LockInv
  BY DEF LockInit, LockInv, LockTypeOK, HolderOrRobbed, InSection,
         FreeWhenNobodyInside, MeetOnlyIfRobbed
<1>2. LockInv /\ [LockNext]_threadVars => LockInv'
  <2> SUFFICES ASSUME LockInv, [LockNext]_threadVars PROVE LockInv'
    OBVIOUS
  <2>1. ASSUME ~met, NEW t \in Thread, ThreadStep(t) PROVE LockInv'
    <3>1. CASE Enter(t)
      BY <2>1, <3>1, EnterKeeps
    <3>2. CASE t = "rt" /\ ProcessBlock
      BY <2>1, <3>2, WorkKeeps DEF ProcessBlock
    <3>3. CASE t = "responder" /\ InitLine
      BY <2>1, <3>3, WorkKeeps DEF InitLine
    <3>4. CASE Unlock(t)
      BY <2>1, <3>4, UnlockKeeps
    <3>5. CASE Destroy(t)
      BY <2>1, <3>5, DestroyKeeps
    <3>6. QED
      BY <2>1, <3>1, <3>2, <3>3, <3>4, <3>5 DEF ThreadStep
  <2>2. CASE UNCHANGED threadVars
    BY <2>2 DEF threadVars, lockVars, LockInv, LockTypeOK, HolderOrRobbed,
                InSection, FreeWhenNobodyInside, MeetOnlyIfRobbed
  <2>3. QED
    BY <2>1, <2>2 DEF LockNext
<1>3. QED
  BY <1>1, <1>2, PTL DEF LockSpec

(* The threads are inside together only if one of them was robbed of the   *)
(* mutex by the other's second unlock: with one unlock they never are.     *)
THEOREM RobbedFirst == LockSpec => []MeetOnlyIfRobbed
<1>1. LockInv => MeetOnlyIfRobbed
  BY DEF LockInv
<1>2. QED
  BY <1>1, LockInvInvariant, PTL

(* The mutex is never left locked by a thread that is done with it.        *)
THEOREM NeverLeftLocked == LockSpec => []FreeWhenNobodyInside
<1>1. LockInv => FreeWhenNobodyInside
  BY DEF LockInv
<1>2. QED
  BY <1>1, LockInvInvariant, PTL

-----------------------------------------------------------------------------
(* As long as they have not met, the two threads do to the line what the   *)
(* undivided actions of DelayLine do.                                      *)
LEMMA LockedLineIsLine == LockSpec => Spec
<1>1. LockInit => Init
  BY DEF LockInit
<1>2. [LockNext]_threadVars => [Next]_vars
  <2> SUFFICES ASSUME [LockNext]_threadVars PROVE [Next]_vars
    OBVIOUS
  <2>1. ASSUME NEW t \in Thread, ThreadStep(t) PROVE [Next]_vars
    <3>1. CASE Enter(t)
      BY <3>1 DEF Enter
    <3>2. CASE ProcessBlock
      BY <3>2 DEF ProcessBlock, Next
    <3>3. CASE InitLine
      BY <3>3 DEF InitLine, Next
    <3>4. CASE Unlock(t)
      BY <3>4 DEF Unlock
    <3>5. CASE Destroy(t)
      BY <3>5 DEF Destroy
    <3>6. QED
      BY <2>1, <3>1, <3>2, <3>3, <3>4, <3>5 DEF ThreadStep
  <2>2. CASE UNCHANGED threadVars
    BY <2>2 DEF threadVars
  <2>3. QED
    BY <2>1, <2>2 DEF LockNext
<1>3. QED
  BY <1>1, <1>2, PTL DEF LockSpec, Spec

(* So a change of the delay by the responder between any two blocks of the *)
(* real-time thread leaves the pointers in the buffer and at their         *)
(* distance, and the buffer with the frames still to be heard.             *)
THEOREM LockedLineKept == LockSpec => [](TypeOK /\ PointerGap /\ HoldsDelayedFrames)
BY LockedLineIsLine, TypeCorrect, BufferInvariant, PTL

(* The line under its lock is an exact delay too, until they meet.         *)
THEOREM LockedRefinement == LockSpec => ExactDelay
BY LockedLineIsLine, Refinement, PTL
=============================================================================
