--------------------------- MODULE DelayLineProofs ---------------------------
(***************************************************************************)
(* Proofs that the circular buffer of DelayLine is an exact delay, for     *)
(* every block size, every set of delays and streams of any length.        *)
(***************************************************************************)
EXTENDS DelayLine, TLAPS

(* Where a pointer is after a block: still in the buffer, and a block      *)
(* further on, round the end.                                              *)
LEMMA AdvanceLemma ==
  ASSUME TypeOK, NEW p \in 0..Size
  PROVE  /\ Advance(p) \in 0..Size
         /\ Size \in Nat
         /\ Advance(p) = p + BufSize \/ Advance(p) = p + BufSize - Size
         /\ p + BufSize > Size => Advance(p) = p + BufSize - Size
         /\ p + BufSize <= Size => Advance(p) = p + BufSize
<1>1. BufSize \in Nat \ {0} /\ sampDelay \in Nat /\ p \in 0..(sampDelay + BufSize)
  BY DelayLineAssumption DEF TypeOK, Size
<1>2. QED
  BY <1>1 DEF Advance, Size

(* Every slot of the block at p is an offset of the buffer.                *)
LEMMA SlotLemma ==
  ASSUME TypeOK, NEW p \in 0..Size, NEW i \in 0..(Size - 1)
  PROVE  Slot(p, i) \in 0..(Size - 1)
<1>1. BufSize \in Nat \ {0} /\ sampDelay \in Nat /\ p \in 0..(sampDelay + BufSize)
  BY DelayLineAssumption DEF TypeOK, Size
<1>2. i \in 0..(sampDelay + BufSize - 1)
  BY <1>1 DEF Size
<1>3. QED
  BY <1>1, <1>2 DEF Slot, Size

(* The buffer stays a function from offsets to frames.                     *)
LEMMA AfterWriteType ==
  ASSUME TypeOK
  PROVE  /\ AfterWrite \in [0..(Size - 1) -> Nat]
         /\ DOMAIN buf = 0..(Size - 1)
<1>1. BufSize \in Nat \ {0} /\ sampDelay \in Nat /\ total \in Nat
      /\ w \in 0..(sampDelay + BufSize) /\ Size = sampDelay + BufSize
  BY DelayLineAssumption DEF TypeOK, Size
<1>2. DOMAIN buf = 0..(Size - 1) /\ buf \in [0..(Size - 1) -> Nat]
  BY DEF TypeOK
<1>3. ASSUME NEW p \in 0..(Size - 1)
      PROVE  (IF w <= p /\ p < w + BufSize
              THEN In(p - w)
              ELSE IF p < w + BufSize - Size THEN In(Size - w + p) ELSE buf[p])
             \in Nat
  BY <1>1, <1>2, <1>3 DEF In
<1>4. QED
  BY <1>2, <1>3 DEF AfterWrite

(* init() establishes the whole invariant.                                 *)
LEMMA ChangeDelayType ==
  ASSUME TypeOK, NEW d \in Delays, ChangeDelay(d)
  PROVE  TypeOK'
<1>1. BufSize \in Nat \ {0} /\ d \in Nat
  BY DelayLineAssumption
<1>2. sampDelay' = d /\ Size' = d + BufSize
  BY DEF ChangeDelay, InitBuffer, Size
<1>3. buf' \in [0..(Size' - 1) -> Nat]
  BY <1>1, <1>2 DEF ChangeDelay, InitBuffer, Offsets, Silence
<1>4. w' \in 0..Size' /\ r' \in 0..Size'
  BY <1>1, <1>2 DEF ChangeDelay, InitBuffer
<1>5. out' \in [Block -> Nat] /\ total' \in Nat /\ fresh' \in Nat
      /\ fresh' <= total' /\ changes' \in Nat
  BY DEF ChangeDelay, TypeOK
<1>6. QED
  BY <1>2, <1>3, <1>4, <1>5 DEF TypeOK

LEMMA ProcessType ==
  ASSUME TypeOK, Process
  PROVE  TypeOK'
<1>1. Size' = Size /\ sampDelay' = sampDelay
  BY DEF Process, Size
<1>2. buf' \in [0..(Size' - 1) -> Nat]
  BY <1>1, AfterWriteType DEF Process
<1>3. w' \in 0..Size' /\ r' \in 0..Size'
  BY <1>1, AdvanceLemma DEF Process, TypeOK
<1>4. ASSUME NEW i \in Block
      PROVE  AfterWrite[Slot(r, i)] \in Nat
  <2>1. i \in 0..(Size - 1)
    BY DelayLineAssumption DEF TypeOK, Block, Size
  <2>2. Slot(r, i) \in 0..(Size - 1)
    BY <2>1, SlotLemma DEF TypeOK
  <2>3. QED
    BY <2>2, AfterWriteType
<1>5. out' \in [Block -> Nat]
  BY <1>4 DEF Process
<1>6. total' \in Nat /\ fresh' \in Nat /\ fresh' <= total'
      /\ changes' \in Nat
  BY DelayLineAssumption DEF Process, TypeOK
<1>7. QED
  BY <1>1, <1>2, <1>3, <1>5, <1>6 DEF TypeOK

(* Type correctness, which includes that both pointers stay within the     *)
(* buffer and hence that no memcpy of process() leaves it.                 *)
THEOREM TypeCorrect == Spec => []TypeOK
<1>1. Init => TypeOK
  <2> SUFFICES ASSUME Init PROVE TypeOK
    OBVIOUS
  <2>1. BufSize \in Nat \ {0} /\ Size = BufSize /\ sampDelay = 0
    BY DelayLineAssumption DEF Init, Size
  <2>2. buf \in [0..(Size - 1) -> Nat] /\ out \in [Block -> Nat]
    BY <2>1 DEF Init, Offsets, Silence
  <2>3. QED
    BY <2>1, <2>2 DEF Init, TypeOK
<1>2. TypeOK /\ [Next]_vars => TypeOK'
  <2> SUFFICES ASSUME TypeOK, [Next]_vars PROVE TypeOK'
    OBVIOUS
  <2>1. CASE Process
    BY <2>1, ProcessType
  <2>2. ASSUME NEW d \in Delays, ChangeDelay(d) PROVE TypeOK'
    BY <2>2, ChangeDelayType
  <2>3. CASE UNCHANGED vars
    BY <2>3 DEF vars, TypeOK, Size
  <2>4. QED
    BY <2>1, <2>2, <2>3 DEF Next
<1>3. QED
  BY <1>1, <1>2, PTL DEF Spec

-----------------------------------------------------------------------------
(* The inductive invariant: a block that is overwritten while it is still  *)
(* due would break the content, and only the pointers' distance rules it   *)
(* out.                                                                    *)
IInv == TypeOK /\ PointerGap /\ HoldsDelayedFrames

LEMMA ProcessGap ==
  ASSUME TypeOK, PointerGap, Process
  PROVE  PointerGap'
<1>1. BufSize \in Nat \ {0} /\ sampDelay \in Nat /\ Size = sampDelay + BufSize
      /\ w \in 0..(sampDelay + BufSize) /\ r \in 0..(sampDelay + BufSize)
  BY DelayLineAssumption DEF TypeOK, Size
<1>2. w' = Advance(w) /\ r' = Advance(r) /\ sampDelay' = sampDelay
  BY DEF Process
<1>3. QED
  BY <1>1, <1>2 DEF PointerGap, Advance

(* What the read pointer sees of the buffer once the incoming block is     *)
(* written: slots 0 .. sampDelay - 1 still hold the delayed frames, and    *)
(* the block itself follows them.                                          *)
LEMMA WindowLemma ==
  ASSUME IInv, NEW j \in 0..(Size - 1)
  PROVE  AfterWrite[Slot(r, j)] = Frame(fresh - sampDelay + j + 1)
<1>1. BufSize \in Nat \ {0} /\ sampDelay \in Nat /\ Size = sampDelay + BufSize
      /\ w \in 0..(sampDelay + BufSize) /\ r \in 0..(sampDelay + BufSize)
      /\ total \in Nat /\ fresh \in Nat /\ j \in 0..(sampDelay + BufSize - 1)
  BY DelayLineAssumption DEF IInv, TypeOK, Size
<1>2. Slot(r, j) \in DOMAIN buf
  BY SlotLemma, AfterWriteType DEF IInv, TypeOK
<1>3. w = r + sampDelay \/ w = r - BufSize
  BY DEF IInv, PointerGap
<1> DEFINE s == Slot(r, j)
<1>4. AfterWrite[s] = IF w <= s /\ s < w + BufSize
                      THEN In(s - w)
                      ELSE IF s < w + BufSize - Size
                           THEN In(Size - w + s) ELSE buf[s]
  BY <1>2 DEF AfterWrite
<1>5. CASE j < sampDelay
  <2>1. ~(w <= s /\ s < w + BufSize) /\ ~(s < w + BufSize - Size)
    BY <1>1, <1>3, <1>5 DEF Slot
  <2>2. AfterWrite[s] = buf[s]
    BY <1>4, <2>1
  <2>3. buf[s] = Frame(fresh - sampDelay + j + 1)
    BY <1>1, <1>5 DEF IInv, HoldsDelayedFrames
  <2>4. QED
    BY <2>2, <2>3
<1>6. CASE j >= sampDelay
  <2>1. AfterWrite[s] = In(j - sampDelay)
    BY <1>1, <1>3, <1>4, <1>6 DEF Slot
  <2>2. In(j - sampDelay) = Frame(fresh - sampDelay + j + 1)
    <3>1. fresh - sampDelay + j + 1 > 0
      BY <1>1, <1>6
    <3>2. total - fresh + (fresh - sampDelay + j + 1) = total + (j - sampDelay) + 1
      BY <1>1
    <3>3. QED
      BY <3>1, <3>2 DEF In, Frame
  <2>3. QED
    BY <2>1, <2>2
<1>7. QED
  BY <1>1, <1>5, <1>6

LEMMA ProcessHolds ==
  ASSUME IInv, Process
  PROVE  HoldsDelayedFrames'
<1>1. BufSize \in Nat \ {0} /\ sampDelay \in Nat /\ Size = sampDelay + BufSize
      /\ r \in 0..(sampDelay + BufSize) /\ total \in Nat /\ fresh \in Nat
  BY DelayLineAssumption DEF IInv, TypeOK, Size
<1>2. r' = Advance(r) /\ sampDelay' = sampDelay /\ Size' = Size
      /\ total' = total + BufSize /\ fresh' = fresh + BufSize
      /\ buf' = AfterWrite
  BY DEF Process, Size
<1>3. ASSUME NEW j \in 0..(sampDelay - 1)
      PROVE  buf'[Slot(r, j)'] = Frame(fresh - sampDelay + j + 1)'
  <2>1. Slot(r, j)' = Slot(r, j + BufSize)
    BY <1>1, <1>2 DEF Slot, Advance
  <2>2. j + BufSize \in 0..(Size - 1)
    BY <1>1
  <2>3. AfterWrite[Slot(r, j + BufSize)]
          = Frame(fresh - sampDelay + (j + BufSize) + 1)
    BY <2>2, WindowLemma
  <2>4. Frame(fresh - sampDelay + j + 1)'
          = Frame(fresh - sampDelay + (j + BufSize) + 1)
    BY <1>1, <1>2 DEF Frame
  <2>5. QED
    BY <1>2, <2>1, <2>3, <2>4
<1>4. QED
  BY <1>2, <1>3 DEF HoldsDelayedFrames

LEMMA InitBufferHolds ==
  ASSUME NEW d \in Delays, ChangeDelay(d)
  PROVE  PointerGap' /\ HoldsDelayedFrames'
<1>1. BufSize \in Nat \ {0} /\ d \in Nat
  BY DelayLineAssumption
<1>2. sampDelay' = d /\ r' = 0 /\ w' = d /\ fresh' = 0 /\ Size' = d + BufSize
      /\ buf' = [p \in 0..(d + BufSize - 1) |-> Silence]
  BY DEF ChangeDelay, InitBuffer, Size, Offsets
<1>3. ASSUME NEW j \in 0..(d - 1)
      PROVE  buf'[Slot(r, j)'] = Frame(fresh - sampDelay + j + 1)'
  <2>1. Slot(r, j)' \in 0..(d + BufSize - 1)
    BY <1>1, <1>2 DEF Slot
  <2>2. Frame(fresh - sampDelay + j + 1)' = Silence
    BY <1>1, <1>2 DEF Frame
  <2>3. QED
    BY <1>2, <2>1, <2>2
<1>4. QED
  BY <1>1, <1>2, <1>3 DEF PointerGap, HoldsDelayedFrames

LEMMA IInvInvariant == Spec => []IInv
<1>1. Init => IInv
  <2> SUFFICES ASSUME Init PROVE PointerGap /\ HoldsDelayedFrames /\ TypeOK
    BY DEF IInv
  <2>1. BufSize \in Nat \ {0} /\ Size = BufSize /\ sampDelay = 0 /\ w = 0 /\ r = 0
    BY DelayLineAssumption DEF Init, Size
  <2>2. buf \in [0..(Size - 1) -> Nat] /\ out \in [Block -> Nat]
    BY <2>1 DEF Init, Offsets, Silence
  <2>3. TypeOK
    BY <2>1, <2>2 DEF Init, TypeOK
  <2>4. PointerGap /\ HoldsDelayedFrames
    BY <2>1 DEF PointerGap, HoldsDelayedFrames
  <2>5. QED
    BY <2>3, <2>4
<1>2. IInv /\ [Next]_vars => IInv'
  <2> SUFFICES ASSUME IInv, [Next]_vars PROVE IInv'
    OBVIOUS
  <2>1. CASE Process
    BY <2>1, ProcessType, ProcessGap, ProcessHolds DEF IInv
  <2>2. ASSUME NEW d \in Delays, ChangeDelay(d) PROVE IInv'
    BY <2>2, ChangeDelayType, InitBufferHolds DEF IInv
  <2>3. CASE UNCHANGED vars
    BY <2>3 DEF vars, IInv, TypeOK, PointerGap, HoldsDelayedFrames, Size,
                Slot, Frame
  <2>4. QED
    BY <2>1, <2>2, <2>3 DEF Next
<1>3. QED
  BY <1>1, <1>2, PTL DEF Spec

(* The pointers keep their distance and the buffer its content: nothing    *)
(* that is still to be heard is overwritten.                               *)
THEOREM BufferInvariant == Spec => [](PointerGap /\ HoldsDelayedFrames)
<1>1. IInv => PointerGap /\ HoldsDelayedFrames
  BY DEF IInv
<1>2. QED
  BY <1>1, IInvInvariant, PTL

-----------------------------------------------------------------------------
(* What process() hands out is what is due.                                *)
LEMMA ProcessRefines ==
  ASSUME IInv, Process
  PROVE  Delay!Process
<1>1. BufSize \in Nat \ {0} /\ sampDelay \in Nat /\ Size = sampDelay + BufSize
      /\ total \in Nat /\ fresh \in Nat
  BY DelayLineAssumption DEF IInv, TypeOK, Size
<1>2. ASSUME NEW i \in Block
      PROVE  AfterWrite[Slot(r, i)] = Delay!Due(i)
  <2>1. i \in 0..(Size - 1) /\ i \in Nat
    BY <1>1 DEF Block
  <2>2. AfterWrite[Slot(r, i)] = Frame(fresh - sampDelay + i + 1)
    BY <2>1, WindowLemma
  <2>3. Frame(fresh - sampDelay + i + 1) = Delay!Due(i)
    <3>1. fresh - sampDelay + i + 1 > 0 <=> fresh + i >= sampDelay
      BY <1>1, <2>1
    <3>2. total - fresh + (fresh - sampDelay + i + 1) = total + i + 1 - sampDelay
      BY <1>1, <2>1
    <3>3. QED
      BY <3>1, <3>2 DEF Frame, Delay!Due, Silence, Delay!Silence
  <2>4. QED
    BY <2>2, <2>3
<1>3. out' = [i \in Block |-> Delay!Due(i)]
  BY <1>2 DEF Process
<1>4. QED
  BY <1>3 DEF Process, Delay!Process, Block, Delay!Block

(* The circular buffer implements the exact delay: for every block size    *)
(* and every sequence of blocks and delay changes, each block that leaves  *)
(* is the one that is due.                                                 *)
THEOREM Refinement == Spec => ExactDelay
<1>1. Init => Delay!Init
  BY DEF Init, Delay!Init, Block, Delay!Block, Silence, Delay!Silence
<1>2. IInv /\ [Next]_vars => [Delay!Next]_(Delay!vars)
  <2> SUFFICES ASSUME IInv, [Next]_vars PROVE [Delay!Next]_(Delay!vars)
    OBVIOUS
  <2>1. CASE Process
    BY <2>1, ProcessRefines DEF Delay!Next
  <2>2. ASSUME NEW d \in Delays, ChangeDelay(d) PROVE Delay!SetDelay(d)
    BY <2>2 DEF ChangeDelay, InitBuffer, Delay!SetDelay
  <2>3. CASE UNCHANGED vars
    BY <2>3 DEF vars, Delay!vars
  <2>4. QED
    BY <2>1, <2>2, <2>3 DEF Next, Delay!Next
<1>3. QED
  BY <1>1, <1>2, IInvInvariant, PTL DEF Spec, Delay!Spec, ExactDelay
=============================================================================
