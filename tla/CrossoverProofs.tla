-------------------------- MODULE CrossoverProofs --------------------------
(***************************************************************************)
(* Proofs about the crossover's buffers and filter memories, for any       *)
(* number of blocks: every filter is called once in a run, and fed one     *)
(* stream, its own channel's, the sum of the bands is flat, and garbage in *)
(* a filter spoils its channel's sum only.                                 *)
(***************************************************************************)
EXTENDS Crossover, SequenceTheorems, TLAPS

-----------------------------------------------------------------------------
(* The calls.                                                              *)

(* The place of a call in its channel, by its filter and by its output.    *)
PlaceOfFilter(name) ==
  CASE name = "f0lo"  -> 1  [] name = "fa0p2" -> 2  [] name = "f1lo"  -> 3
    [] name = "fa1p4" -> 4  [] name = "f3lo"  -> 5  [] name = "f3hi"  -> 6
    [] name = "f1hi"  -> 7  [] name = "fa1q3" -> 8  [] name = "f4lo"  -> 9
    [] name = "f4hi"  -> 10 [] name = "f0hi"  -> 11 [] name = "fa0q1" -> 12
    [] name = "fa0q3" -> 13 [] name = "fa0q4" -> 14 [] name = "f2lo"  -> 15
    [] name = "f2hi"  -> 16

PlaceOfOutput(out) ==
  CASE out = "in"        -> 0
    [] out = "f0lo_out"  -> 1  [] out = "a0p2_out"  -> 2
    [] out = "f1lo_out"  -> 3  [] out = "fa1p4_out" -> 4
    [] out = "b0_out"    -> 5  [] out = "b1_out"    -> 6
    [] out = "f1hi_out"  -> 7  [] out = "fa1q3_out" -> 8
    [] out = "b2_out"    -> 9  [] out = "b3_out"    -> 10
    [] out = "f0hi_out"  -> 11 [] out = "a0q1_out"  -> 12
    [] out = "a0q3_out"  -> 13 [] out = "a0q4_out"  -> 14
    [] out = "b4_out"    -> 15 [] out = "b5_out"    -> 16
    [] out = "out"       -> 17

(* Which filter's output each filter reads.                                *)
Feed == <<0, 1, 2, 3, 4, 4, 2, 7, 8, 8, 0, 11, 12, 13, 14, 14>>

(* The calls that make the bands.                                          *)
BandAt == <<5, 6, 9, 10, 15, 16>>

LEMMA BranchesLemma ==
  /\ Len(Chains) = 16 /\ DOMAIN Chains = 1..16
  /\ \A i \in 1..10 : Chains[i] = LowBranch[i]
  /\ \A i \in 11..16 : Chains[i] = HighBranch[i - 10]
<1> DEFINE S == {LowBranch[i] : i \in 1..10} \cup {HighBranch[i] : i \in 1..6}
<1>1. /\ LowBranch \in Seq(S) /\ Len(LowBranch) = 10
      /\ HighBranch \in Seq(S) /\ Len(HighBranch) = 6
  BY DEF LowBranch, HighBranch
<1> HIDE DEF S
<1>2. /\ Chains \in Seq(S) /\ Len(Chains) = Len(LowBranch) + Len(HighBranch)
      /\ \A i \in 1..(Len(LowBranch) + Len(HighBranch)) :
           Chains[i] = IF i <= Len(LowBranch) THEN LowBranch[i]
                       ELSE HighBranch[i - Len(LowBranch)]
  BY <1>1, ConcatProperties DEF Chains
<1>3. Len(Chains) = 16 /\ DOMAIN Chains = 1..16
  BY <1>1, <1>2, LenProperties
<1>4. /\ \A i \in 1..10 : Chains[i] = LowBranch[i]
      /\ \A i \in 11..16 : Chains[i] = HighBranch[i - 10]
  BY <1>1, <1>2
<1>5. QED
  BY <1>3, <1>4

LEMMA ChainsLemma ==
  /\ Len(Chains) = 16 /\ DOMAIN Chains = 1..16
  /\ \A i \in 1..16 :
       /\ PlaceOfFilter(Chains[i].name) = i
       /\ PlaceOfOutput(Chains[i].out) = i
       /\ Feed[i] \in 0..(i - 1)
       /\ Chains[i].in = IF Feed[i] = 0 THEN "in" ELSE Chains[Feed[i]].out
       /\ \A s \in Side : <<Chains[i].name, s>> \in Filter
  /\ \A f \in Filter : \E i \in 1..16, s \in Side : f = <<Chains[i].name, s>>
  /\ \A k \in 1..6 : BandOut[k] = Chains[BandAt[k]].out
<1>1. /\ Chains[1].name = "f0lo" /\ Chains[1].in = "in" /\ Chains[1].out = "f0lo_out"
      /\ Chains[2].name = "fa0p2" /\ Chains[2].in = "f0lo_out" /\ Chains[2].out = "a0p2_out"
      /\ Chains[3].name = "f1lo" /\ Chains[3].in = "a0p2_out" /\ Chains[3].out = "f1lo_out"
      /\ Chains[4].name = "fa1p4" /\ Chains[4].in = "f1lo_out" /\ Chains[4].out = "fa1p4_out"
      /\ Chains[5].name = "f3lo" /\ Chains[5].in = "fa1p4_out" /\ Chains[5].out = "b0_out"
      /\ Chains[6].name = "f3hi" /\ Chains[6].in = "fa1p4_out" /\ Chains[6].out = "b1_out"
      /\ Chains[7].name = "f1hi" /\ Chains[7].in = "a0p2_out" /\ Chains[7].out = "f1hi_out"
      /\ Chains[8].name = "fa1q3" /\ Chains[8].in = "f1hi_out" /\ Chains[8].out = "fa1q3_out"
      /\ Chains[9].name = "f4lo" /\ Chains[9].in = "fa1q3_out" /\ Chains[9].out = "b2_out"
      /\ Chains[10].name = "f4hi" /\ Chains[10].in = "fa1q3_out" /\ Chains[10].out = "b3_out"
      /\ Chains[11].name = "f0hi" /\ Chains[11].in = "in" /\ Chains[11].out = "f0hi_out"
      /\ Chains[12].name = "fa0q1" /\ Chains[12].in = "f0hi_out" /\ Chains[12].out = "a0q1_out"
      /\ Chains[13].name = "fa0q3" /\ Chains[13].in = "a0q1_out" /\ Chains[13].out = "a0q3_out"
      /\ Chains[14].name = "fa0q4" /\ Chains[14].in = "a0q3_out" /\ Chains[14].out = "a0q4_out"
      /\ Chains[15].name = "f2lo" /\ Chains[15].in = "a0q4_out" /\ Chains[15].out = "b4_out"
      /\ Chains[16].name = "f2hi" /\ Chains[16].in = "a0q4_out" /\ Chains[16].out = "b5_out"
  BY BranchesLemma DEF LowBranch, HighBranch, FilterLR4, AllpassFilterLR4
<1>2. ASSUME NEW i \in 1..16
      PROVE  /\ PlaceOfFilter(Chains[i].name) = i
             /\ PlaceOfOutput(Chains[i].out) = i
             /\ Feed[i] \in 0..(i - 1)
             /\ Chains[i].in = IF Feed[i] = 0 THEN "in" ELSE Chains[Feed[i]].out
             /\ \A s \in Side : <<Chains[i].name, s>> \in Filter
  <2>1. \/ i = 1 \/ i = 2 \/ i = 3 \/ i = 4 \/ i = 5 \/ i = 6 \/ i = 7 \/ i = 8
        \/ i = 9 \/ i = 10 \/ i = 11 \/ i = 12 \/ i = 13 \/ i = 14 \/ i = 15
        \/ i = 16
    OBVIOUS
  <2>2. PlaceOfFilter(Chains[i].name) = i
    BY <1>1, <2>1 DEF PlaceOfFilter
  <2>3. PlaceOfOutput(Chains[i].out) = i
    BY <1>1, <2>1 DEF PlaceOfOutput
  <2>4. Feed[i] \in 0..(i - 1)
    BY <2>1 DEF Feed
  <2>5. Chains[i].in = IF Feed[i] = 0 THEN "in" ELSE Chains[Feed[i]].out
    BY <1>1, <2>1 DEF Feed
  <2>6. \A s \in Side : <<Chains[i].name, s>> \in Filter
    BY <1>1, <2>1 DEF Filter
  <2>7. QED
    BY <2>2, <2>3, <2>4, <2>5, <2>6
<1>3. \A k \in 1..6 : BandOut[k] = Chains[BandAt[k]].out
  BY <1>1 DEF BandOut, BandAt
<1>4. ASSUME NEW f \in Filter
      PROVE  \E i \in 1..16, s \in Side : f = <<Chains[i].name, s>>
  <2>1. Chains[PlaceOfFilter(f[1])].name = f[1] /\ PlaceOfFilter(f[1]) \in 1..16
    BY <1>1 DEF Filter, PlaceOfFilter
  <2>2. f[2] \in Side /\ f = <<f[1], f[2]>>
    BY DEF Filter
  <2>3. QED
    BY <2>1, <2>2
<1>5. QED
  BY <1>2, <1>3, <1>4, BranchesLemma

Call == 1..16

In(i, s)  == <<Chains[i].in, s>>
Out(i, s) == <<Chains[i].out, s>>

(* Each call has a filter and an output buffer of its own.                 *)
LEMMA OwnLemma ==
  /\ \A i \in Call, s \in Side : /\ Out(i, s) \in Buffer /\ In(i, s) \in Buffer
                                 /\ Object(i, s) \in Filter
  /\ \A s \in Side : <<"in", s>> \in Buffer /\ <<"out", s>> \in Buffer
  /\ \A b \in Buffer : \/ \E s \in Side : b = <<"in", s>> \/ b = <<"out", s>>
                       \/ \E i \in Call, s \in Side : b = Out(i, s)
  /\ \A f \in Filter : \E i \in Call, s \in Side : f = Object(i, s)
  /\ \A i, j \in Call, s, t \in Side :
       /\ Out(i, s) = Out(j, t) => i = j /\ s = t
       /\ Object(i, s) = Object(j, t) => i = j /\ s = t
       /\ Out(i, s) # <<"in", t>> /\ Out(i, s) # <<"out", t>>
       /\ In(i, s) = Out(j, t) => j = Feed[i] /\ s = t
  /\ \A i \in Call, s \in Side :
       In(i, s) = IF Feed[i] = 0 THEN <<"in", s>> ELSE Out(Feed[i], s)
  /\ \A s, t \in Side : <<"in", s>> # <<"out", t>>
<1>1. DOMAIN Chains = Call
  BY ChainsLemma DEF Call
<1>2. ASSUME NEW i \in Call
      PROVE  /\ PlaceOfFilter(Chains[i].name) = i
             /\ PlaceOfOutput(Chains[i].out) = i
             /\ Feed[i] \in 0..(i - 1) /\ i \in Int
             /\ Chains[i].in = IF Feed[i] = 0 THEN "in" ELSE Chains[Feed[i]].out
  BY ChainsLemma DEF Call
<1>3. PlaceOfOutput("in") = 0 /\ PlaceOfOutput("out") = 17
  BY DEF PlaceOfOutput
<1>4. ASSUME NEW i \in Call
      PROVE  /\ Chains[i].out # "in" /\ Chains[i].out # "out"
             /\ Feed[i] # 0 => Feed[i] \in Call
  BY <1>2, <1>3 DEF Call
<1>5. ASSUME NEW i \in Call, NEW s \in Side
      PROVE  /\ Out(i, s) \in Buffer /\ In(i, s) \in Buffer
             /\ Object(i, s) \in Filter
  <2>1. Out(i, s) \in Buffer /\ Object(i, s) \in Filter
    BY <1>1, ChainsLemma DEF Out, Buffer, Object, Call
  <2>2. Chains[i].in \in {"in", "out"} \cup {Chains[j].out : j \in DOMAIN Chains}
    BY <1>1, <1>2, <1>4
  <2>3. QED
    BY <2>1, <2>2 DEF In, Buffer
<1>6. \A s \in Side : <<"in", s>> \in Buffer /\ <<"out", s>> \in Buffer
  BY DEF Buffer
<1>7. \A b \in Buffer : \/ \E s \in Side : b = <<"in", s>> \/ b = <<"out", s>>
                        \/ \E i \in Call, s \in Side : b = Out(i, s)
  BY <1>1 DEF Buffer, Out
<1>8. \A f \in Filter : \E i \in Call, s \in Side : f = Object(i, s)
  BY ChainsLemma DEF Object, Call
<1>9. ASSUME NEW i \in Call, NEW j \in Call, NEW s \in Side, NEW t \in Side
      PROVE  /\ Out(i, s) = Out(j, t) => i = j /\ s = t
             /\ Object(i, s) = Object(j, t) => i = j /\ s = t
             /\ Out(i, s) # <<"in", t>> /\ Out(i, s) # <<"out", t>>
             /\ In(i, s) = Out(j, t) => j = Feed[i] /\ s = t
  <2>1. Out(i, s) = Out(j, t) => i = j /\ s = t
    BY <1>2 DEF Out
  <2>2. Object(i, s) = Object(j, t) => i = j /\ s = t
    BY <1>2 DEF Object
  <2>3. Out(i, s) # <<"in", t>> /\ Out(i, s) # <<"out", t>>
    BY <1>4 DEF Out
  <2>4. ASSUME In(i, s) = Out(j, t)
        PROVE  j = Feed[i] /\ s = t
    <3>1. Chains[i].in = Chains[j].out /\ s = t
      BY <2>4 DEF In, Out
    <3>2. Feed[i] # 0
      BY <1>2, <1>4, <3>1
    <3>3. Chains[Feed[i]].out = Chains[j].out /\ Feed[i] \in Call
      BY <1>2, <1>4, <3>1, <3>2
    <3>4. QED
      BY <1>2, <3>1, <3>3
  <2>5. QED
    BY <2>1, <2>2, <2>3, <2>4
<1>10. \A i \in Call, s \in Side :
         In(i, s) = IF Feed[i] = 0 THEN <<"in", s>> ELSE Out(Feed[i], s)
  BY <1>2 DEF In, Out
<1>11. QED
  BY <1>5, <1>6, <1>7, <1>8, <1>9, <1>10

-----------------------------------------------------------------------------
(* The signals.                                                            *)

None == {<<>>}
Lo   == {<<"lo">>}
Hi   == {<<"hi">>}
Both == {<<"lo">>, <<"hi">>}

(* The filters of each split, from 0 to 4, that the output of each call    *)
(* has gone through, and how those of different splits are combined.       *)
Through ==
  << <<Lo, None, None, None, None>>, <<Lo, None, Both, None, None>>,
     <<Lo, Lo, Both, None, None>>,   <<Lo, Lo, Both, None, Both>>,
     <<Lo, Lo, Both, Lo, Both>>,     <<Lo, Lo, Both, Hi, Both>>,
     <<Lo, Hi, Both, None, None>>,   <<Lo, Hi, Both, Both, None>>,
     <<Lo, Hi, Both, Both, Lo>>,     <<Lo, Hi, Both, Both, Hi>>,
     <<Hi, None, None, None, None>>, <<Hi, Both, None, None, None>>,
     <<Hi, Both, None, Both, None>>, <<Hi, Both, None, Both, Both>>,
     <<Hi, Both, Lo, Both, Both>>,   <<Hi, Both, Hi, Both, Both>> >>

Combined(c) == {m \in Term : \A k \in Split : m[k] \in c[k + 1]}

Signal(i) == IF i = 0 THEN {Straight} ELSE Combined(Through[i])

Choice == {None, Lo, Hi, Both}

(* A term on its way through a filter at a split it has not been at, and   *)
(* back.                                                                   *)
LEMMA OneTerm ==
  ASSUME NEW d \in Term, NEW q \in Split, d[q] = <<>>, NEW p \in {"lo", "hi"}
  PROVE  /\ After(d, q, p) = [d EXCEPT ![q] = <<p>>] /\ After(d, q, p) \in Term
         /\ \A k \in Split : After(d, q, p)[k] = IF k = q THEN <<p>> ELSE d[k]
         /\ Before(After(d, q, p), q) = d
<1> DEFINE m == [d EXCEPT ![q] = <<p>>]
<1>1. d \in [Split -> {<<>>, <<"lo">>, <<"hi">>}]
  BY DEF Term
<1>2. After(d, q, p) = m
  BY <1>1 DEF After
<1>3. m \in [Split -> {<<>>, <<"lo">>, <<"hi">>}]
  BY <1>1
<1>4. \A k \in Split : m[k] = IF k = q THEN <<p>> ELSE d[k]
  BY <1>1
<1>5. Front(<<p>>) = <<>>
  BY DEF Front
<1> HIDE DEF m
<1>6. Before(m, q) = [m EXCEPT ![q] = <<>>]
  <2>1. Front(m[q]) = <<>>
    BY <1>4, <1>5
  <2>2. QED
    BY <2>1 DEF Before
<1>7. [m EXCEPT ![q] = <<>>] = d
  BY <1>1, <1>3, <1>4
<1>8. QED
  BY <1>2, <1>3, <1>4, <1>6, <1>7 DEF Term, m

(* The filters of one split changed in a list of choices.                  *)
Gone(passes) == {<<p>> : p \in passes}

Chosen(c, q, passes) == [c EXCEPT ![q + 1] = Gone(passes)]

LEMMA ChosenLemma ==
  ASSUME NEW c \in [1..5 -> Choice], NEW q \in Split, NEW passes
  PROVE  \A k \in Split : Chosen(c, q, passes)[k + 1] =
           IF k = q THEN Gone(passes) ELSE c[k + 1]
<1>1. \A k \in Split : k + 1 \in 1..5 /\ (k + 1 = q + 1 => k = q)
  BY DEF Split
<1>2. QED
  BY <1>1 DEF Chosen

(* What a filter makes of a term it has not been met by.                   *)
LEMMA Onward ==
  ASSUME NEW c \in [1..5 -> Choice], NEW q \in Split, c[q + 1] = None,
         NEW passes \in SUBSET {"lo", "hi"}, NEW d \in Combined(c), NEW p \in passes
  PROVE  /\ After(d, q, p) \in Combined(Chosen(c, q, passes))
         /\ Before(After(d, q, p), q) = d
<1>1. d \in Term /\ \A k \in Split : d[k] \in c[k + 1]
  BY DEF Combined
<1>2. d[q] = <<>>
  BY <1>1 DEF None
<1>3. p \in {"lo", "hi"}
  OBVIOUS
<1>4. /\ After(d, q, p) \in Term
      /\ \A k \in Split : After(d, q, p)[k] = IF k = q THEN <<p>> ELSE d[k]
      /\ Before(After(d, q, p), q) = d
  BY <1>1, <1>2, <1>3, OneTerm
<1>5. <<p>> \in Gone(passes)
  BY DEF Gone
<1>6. ASSUME NEW k \in Split
      PROVE  After(d, q, p)[k] \in Chosen(c, q, passes)[k + 1]
  <2>1. Chosen(c, q, passes)[k + 1] = IF k = q THEN Gone(passes) ELSE c[k + 1]
    BY ChosenLemma
  <2>2. CASE k = q
    BY <1>4, <1>5, <2>1, <2>2
  <2>3. CASE k # q
    BY <1>1, <1>4, <2>1, <2>3
  <2>4. QED
    BY <2>2, <2>3
<1>7. QED
  BY <1>4, <1>6 DEF Combined

(* Each term behind the filter comes from one before it.                   *)
LEMMA Backward ==
  ASSUME NEW c \in [1..5 -> Choice], NEW q \in Split, c[q + 1] = None,
         NEW passes \in SUBSET {"lo", "hi"},
         NEW m \in Combined(Chosen(c, q, passes))
  PROVE  \E d \in Combined(c), p \in passes : m = After(d, q, p)
<1>1. m \in Term /\ \A k \in Split : m[k] \in Chosen(c, q, passes)[k + 1]
  BY DEF Combined
<1>2. \A k \in Split : m[k] \in IF k = q THEN Gone(passes) ELSE c[k + 1]
  BY <1>1, ChosenLemma
<1>3. PICK p \in passes : m[q] = <<p>>
  BY <1>2 DEF Gone
<1>4. PICK d : d = [m EXCEPT ![q] = <<>>]
  OBVIOUS
<1>5. d \in Term /\ \A k \in Split : d[k] = IF k = q THEN <<>> ELSE m[k]
  BY <1>1, <1>4 DEF Term
<1>6. \A k \in Split : d[k] \in c[k + 1]
  BY <1>2, <1>5 DEF None
<1>7. d \in Combined(c)
  BY <1>5, <1>6 DEF Combined
<1>8. m = [d EXCEPT ![q] = <<p>>]
  BY <1>1, <1>3, <1>5 DEF Term
<1>9. After(d, q, p) = [d EXCEPT ![q] = <<p>>]
  <2>1. d \in Term /\ d[q] = <<>> /\ p \in {"lo", "hi"}
    BY <1>5
  <2>2. QED
    BY <2>1, OneTerm
<1>10. QED
  BY <1>7, <1>8, <1>9

(* A filter at a split that its input has not been through.                *)
LEMMA FilteredLemma ==
  ASSUME NEW c \in [1..5 -> Choice], NEW q \in Split, c[q + 1] = None,
         NEW passes \in SUBSET {"lo", "hi"}
  PROVE  Filtered(SetToBag(Combined(c)), q, passes)
           = SetToBag(Combined(Chosen(c, q, passes)))
<1> DEFINE S == Combined(c)
           T == Combined(Chosen(c, q, passes))
<1>1. \A d \in S, p \in passes : After(d, q, p) \in T /\ Before(After(d, q, p), q) = d
  BY Onward
<1>2. \A m \in T : \E d \in S, p \in passes : m = After(d, q, p)
  BY Backward
<1> HIDE DEF S, T
<1>3. {After(d, q, p) : d \in S, p \in passes} = T
  BY <1>1, <1>2
<1>4. \A m \in T : Before(m, q) \in S
  BY <1>1, <1>2
<1>5. DOMAIN SetToBag(S) = S /\ \A d \in S : SetToBag(S)[d] = 1
  BY DEF SetToBag
<1>6. Filtered(SetToBag(S), q, passes) = [m \in T |-> SetToBag(S)[Before(m, q)]]
  BY <1>3, <1>5 DEF Filtered
<1>7. Filtered(SetToBag(S), q, passes) = [m \in T |-> 1]
  BY <1>4, <1>5, <1>6
<1>8. QED
  BY <1>7 DEF SetToBag, S, T

(* Each call makes its signal of that of the call it reads from.           *)
LEMMA SignalLemma ==
  ASSUME NEW i \in Call
  PROVE  Filtered(SetToBag(Signal(Feed[i])), Chains[i].split, Chains[i].passes)
           = SetToBag(Signal(i))
<1> DEFINE U == <<None, None, None, None, None>>
           c == IF Feed[i] = 0 THEN U ELSE Through[Feed[i]]
           q == Chains[i].split
           Q == Chains[i].passes
<1>1. \/ i = 1 \/ i = 2 \/ i = 3 \/ i = 4 \/ i = 5 \/ i = 6 \/ i = 7 \/ i = 8
      \/ i = 9 \/ i = 10 \/ i = 11 \/ i = 12 \/ i = 13 \/ i = 14 \/ i = 15
      \/ i = 16
  BY DEF Call
<1>2. /\ Chains[1].split = 0 /\ Chains[1].passes = {"lo"}
      /\ Chains[2].split = 2 /\ Chains[2].passes = {"lo", "hi"}
      /\ Chains[3].split = 1 /\ Chains[3].passes = {"lo"}
      /\ Chains[4].split = 4 /\ Chains[4].passes = {"lo", "hi"}
      /\ Chains[5].split = 3 /\ Chains[5].passes = {"lo"}
      /\ Chains[6].split = 3 /\ Chains[6].passes = {"hi"}
      /\ Chains[7].split = 1 /\ Chains[7].passes = {"hi"}
      /\ Chains[8].split = 3 /\ Chains[8].passes = {"lo", "hi"}
      /\ Chains[9].split = 4 /\ Chains[9].passes = {"lo"}
      /\ Chains[10].split = 4 /\ Chains[10].passes = {"hi"}
      /\ Chains[11].split = 0 /\ Chains[11].passes = {"hi"}
      /\ Chains[12].split = 1 /\ Chains[12].passes = {"lo", "hi"}
      /\ Chains[13].split = 3 /\ Chains[13].passes = {"lo", "hi"}
      /\ Chains[14].split = 4 /\ Chains[14].passes = {"lo", "hi"}
      /\ Chains[15].split = 2 /\ Chains[15].passes = {"lo"}
      /\ Chains[16].split = 2 /\ Chains[16].passes = {"hi"}
  BY BranchesLemma DEF LowBranch, HighBranch, FilterLR4, AllpassFilterLR4
<1>3. q \in Split /\ Q \in SUBSET {"lo", "hi"}
  BY <1>1, <1>2 DEF Split
<1>4. c \in [1..5 -> Choice] /\ c[q + 1] = None
  BY <1>1, <1>2 DEF Through, Feed, Choice
<1>5. Chosen(c, q, Q) = Through[i]
  <2> DEFINE gone == Gone(Q)
             d    == [c EXCEPT ![q + 1] = gone]
  <2>1. /\ Q = {"lo"} => gone = Lo
        /\ Q = {"hi"} => gone = Hi
        /\ Q = {"lo", "hi"} => gone = Both
    BY DEF Gone, Lo, Hi, Both
  <2> HIDE DEF gone
  <2>2. /\ i \in {1, 3, 5, 9, 15} => gone = Lo
        /\ i \in {6, 7, 10, 11, 16} => gone = Hi
        /\ i \in {2, 4, 8, 12, 13, 14} => gone = Both
    BY <1>2, <2>1
  <2>3. /\ i \in {1, 11} => q = 0
        /\ i \in {3, 7, 12} => q = 1
        /\ i \in {2, 15, 16} => q = 2
        /\ i \in {5, 6, 8, 13} => q = 3
        /\ i \in {4, 9, 10, 14} => q = 4
    BY <1>2
  <2>4. DOMAIN d = 1..5 /\ d = [k \in 1..5 |-> d[k]]
    BY <1>4
  <2>5. Through[i] = [k \in 1..5 |-> Through[i][k]]
    BY <1>1 DEF Through
  <2>6. \A k \in 1..5 : d[k] = IF k = q + 1 THEN gone ELSE c[k]
    BY <1>4
  <2> HIDE DEF q
  <2>7. ASSUME NEW k \in 1..5
        PROVE  Through[i][k] = IF k = q + 1 THEN gone ELSE c[k]
    <3>1. k = 1 \/ k = 2 \/ k = 3 \/ k = 4 \/ k = 5
      OBVIOUS
    <3>2. CASE i \in {1, 2, 3, 4}
      BY <2>2, <2>3, <3>1, <3>2 DEF Through, Feed
    <3>3. CASE i \in {5, 6, 7, 8}
      BY <2>2, <2>3, <3>1, <3>3 DEF Through, Feed
    <3>4. CASE i \in {9, 10, 11, 12}
      BY <2>2, <2>3, <3>1, <3>4 DEF Through, Feed
    <3>5. CASE i \in {13, 14, 15, 16}
      BY <2>2, <2>3, <3>1, <3>5 DEF Through, Feed
    <3>6. QED
      BY <1>1, <3>2, <3>3, <3>4, <3>5
  <2> HIDE DEF d, c
  <2>8. d = Through[i]
    BY <2>4, <2>5, <2>6, <2>7
  <2>9. QED
    BY <2>8 DEF d, gone, Chosen
<1>6. Signal(Feed[i]) = Combined(c)
  <2>1. Combined(U) = {Straight}
    BY DEF Combined, Straight, None, Term, Split
  <2>2. QED
    BY <2>1 DEF Signal
<1>7. Signal(i) = Combined(Through[i])
  BY DEF Signal, Call
<1> HIDE DEF c, q, Q
<1>8. Filtered(SetToBag(Combined(c)), q, Q)
        = SetToBag(Combined(Chosen(c, q, Q)))
  BY <1>3, <1>4, FilteredLemma
<1>9. QED
  BY <1>5, <1>6, <1>7, <1>8 DEF q, Q

(* All products of one filter per split.                                   *)
Flat == [Split -> {<<"lo">>, <<"hi">>}]

(* The band a term of the sum belongs to.                                  *)
LEMMA BandSignals ==
  ASSUME NEW m
  PROVE  /\ m \in Signal(5) <=> /\ m \in Flat /\ m[0] = <<"lo">>
                                /\ m[1] = <<"lo">> /\ m[3] = <<"lo">>
         /\ m \in Signal(6) <=> /\ m \in Flat /\ m[0] = <<"lo">>
                                /\ m[1] = <<"lo">> /\ m[3] = <<"hi">>
         /\ m \in Signal(9) <=> /\ m \in Flat /\ m[0] = <<"lo">>
                                /\ m[1] = <<"hi">> /\ m[4] = <<"lo">>
         /\ m \in Signal(10) <=> /\ m \in Flat /\ m[0] = <<"lo">>
                                 /\ m[1] = <<"hi">> /\ m[4] = <<"hi">>
         /\ m \in Signal(15) <=> m \in Flat /\ m[0] = <<"hi">> /\ m[2] = <<"lo">>
         /\ m \in Signal(16) <=> m \in Flat /\ m[0] = <<"hi">> /\ m[2] = <<"hi">>
<1>1. ASSUME NEW c0, NEW c1, NEW c2, NEW c3, NEW c4
      PROVE  m \in Combined(<<c0, c1, c2, c3, c4>>) <=>
               /\ m \in Term /\ m[0] \in c0 /\ m[1] \in c1
               /\ m[2] \in c2 /\ m[3] \in c3 /\ m[4] \in c4
  <2> DEFINE c == <<c0, c1, c2, c3, c4>>
  <2>1. \A k : k \in Split <=> k = 0 \/ k = 1 \/ k = 2 \/ k = 3 \/ k = 4
    BY DEF Split
  <2>2. /\ c[0 + 1] = c0 /\ c[1 + 1] = c1 /\ c[2 + 1] = c2 /\ c[3 + 1] = c3
        /\ c[4 + 1] = c4
    OBVIOUS
  <2> HIDE DEF c
  <2>3. (\A k \in Split : m[k] \in c[k + 1]) <=>
          /\ m[0] \in c0 /\ m[1] \in c1 /\ m[2] \in c2 /\ m[3] \in c3 /\ m[4] \in c4
    BY <2>1, <2>2
  <2>4. QED
    BY <2>3 DEF Combined, c
<1>2. m \in Flat <=> /\ m \in Term /\ m[0] \in Both /\ m[1] \in Both
                    /\ m[2] \in Both /\ m[3] \in Both /\ m[4] \in Both
  BY DEF Flat, Term, Split, Both
<1>3. Lo \subseteq Both /\ Hi \subseteq Both
  BY DEF Lo, Hi, Both
<1>4. /\ \A x : x \in Lo <=> x = <<"lo">>
      /\ \A x : x \in Hi <=> x = <<"hi">>
  BY DEF Lo, Hi
<1>5. /\ Signal(5) = Combined(<<Lo, Lo, Both, Lo, Both>>)
      /\ Signal(6) = Combined(<<Lo, Lo, Both, Hi, Both>>)
      /\ Signal(9) = Combined(<<Lo, Hi, Both, Both, Lo>>)
      /\ Signal(10) = Combined(<<Lo, Hi, Both, Both, Hi>>)
      /\ Signal(15) = Combined(<<Hi, Both, Lo, Both, Both>>)
      /\ Signal(16) = Combined(<<Hi, Both, Hi, Both, Both>>)
  BY DEF Signal, Through
<1>6. /\ m \in Signal(5) <=> /\ m \in Term /\ m[0] \in Lo /\ m[1] \in Lo
                             /\ m[2] \in Both /\ m[3] \in Lo /\ m[4] \in Both
      /\ m \in Signal(6) <=> /\ m \in Term /\ m[0] \in Lo /\ m[1] \in Lo
                             /\ m[2] \in Both /\ m[3] \in Hi /\ m[4] \in Both
      /\ m \in Signal(9) <=> /\ m \in Term /\ m[0] \in Lo /\ m[1] \in Hi
                             /\ m[2] \in Both /\ m[3] \in Both /\ m[4] \in Lo
      /\ m \in Signal(10) <=> /\ m \in Term /\ m[0] \in Lo /\ m[1] \in Hi
                              /\ m[2] \in Both /\ m[3] \in Both /\ m[4] \in Hi
      /\ m \in Signal(15) <=> /\ m \in Term /\ m[0] \in Hi /\ m[1] \in Both
                              /\ m[2] \in Lo /\ m[3] \in Both /\ m[4] \in Both
      /\ m \in Signal(16) <=> /\ m \in Term /\ m[0] \in Hi /\ m[1] \in Both
                              /\ m[2] \in Hi /\ m[3] \in Both /\ m[4] \in Both
  BY <1>1, <1>5
<1>7. m \in Signal(5) <=> /\ m \in Flat /\ m[0] = <<"lo">>
                         /\ m[1] = <<"lo">> /\ m[3] = <<"lo">>
  BY <1>2, <1>3, <1>4, <1>6
<1>8. m \in Signal(6) <=> /\ m \in Flat /\ m[0] = <<"lo">>
                         /\ m[1] = <<"lo">> /\ m[3] = <<"hi">>
  BY <1>2, <1>3, <1>4, <1>6
<1>9. m \in Signal(9) <=> /\ m \in Flat /\ m[0] = <<"lo">>
                         /\ m[1] = <<"hi">> /\ m[4] = <<"lo">>
  BY <1>2, <1>3, <1>4, <1>6
<1>10. m \in Signal(10) <=> /\ m \in Flat /\ m[0] = <<"lo">>
                           /\ m[1] = <<"hi">> /\ m[4] = <<"hi">>
  BY <1>2, <1>3, <1>4, <1>6
<1>11. m \in Signal(15) <=> m \in Flat /\ m[0] = <<"hi">> /\ m[2] = <<"lo">>
  BY <1>2, <1>3, <1>4, <1>6
<1>12. m \in Signal(16) <=> m \in Flat /\ m[0] = <<"hi">> /\ m[2] = <<"hi">>
  BY <1>2, <1>3, <1>4, <1>6
<1>13. QED
  BY <1>7, <1>8, <1>9, <1>10, <1>11, <1>12

LEMMA DisjointSum ==
  ASSUME NEW S, NEW T, S \cap T = {}
  PROVE  SetToBag(S) (+) SetToBag(T) = SetToBag(S \cup T)
BY DEF SetToBag, (+)

(* The bands have no term in common and all of them together.              *)
LEMMA BandsAddUp ==
  SetToBag(Signal(5)) (+) SetToBag(Signal(6)) (+) SetToBag(Signal(9))
    (+) SetToBag(Signal(10)) (+) SetToBag(Signal(15)) (+) SetToBag(Signal(16))
    = SetToBag(Flat)
<1> DEFINE A == Signal(5) \cup Signal(6)
           B == A \cup Signal(9)
           C == B \cup Signal(10)
           D == C \cup Signal(15)
           E == D \cup Signal(16)
<1>1. <<"lo">> # <<"hi">>
  OBVIOUS
<1>2. /\ Signal(5) \cap Signal(6) = {} /\ A \cap Signal(9) = {}
      /\ B \cap Signal(10) = {} /\ C \cap Signal(15) = {} /\ D \cap Signal(16) = {}
  BY <1>1, BandSignals
<1>3. E = Flat
  <2>1. ASSUME NEW m \in Flat, NEW k \in {0, 1, 2, 3, 4}
        PROVE  m[k] = <<"lo">> \/ m[k] = <<"hi">>
    BY DEF Flat, Split
  <2>2. \A m \in Flat : m \in E
    BY <2>1, BandSignals
  <2>3. \A m \in E : m \in Flat
    BY BandSignals
  <2> HIDE DEF E
  <2>4. QED
    BY <2>2, <2>3
<1>4. SetToBag(Signal(5)) (+) SetToBag(Signal(6)) = SetToBag(A)
  BY <1>2, DisjointSum
<1> HIDE DEF A
<1>5. SetToBag(A) (+) SetToBag(Signal(9)) = SetToBag(B)
  BY <1>2, DisjointSum
<1> HIDE DEF B
<1>6. SetToBag(B) (+) SetToBag(Signal(10)) = SetToBag(C)
  BY <1>2, DisjointSum
<1> HIDE DEF C
<1>7. SetToBag(C) (+) SetToBag(Signal(15)) = SetToBag(D)
  BY <1>2, DisjointSum
<1> HIDE DEF D
<1>8. SetToBag(D) (+) SetToBag(Signal(16)) = SetToBag(E)
  BY <1>2, DisjointSum
<1>9. QED
  BY <1>3, <1>4, <1>5, <1>6, <1>7, <1>8

-----------------------------------------------------------------------------
(* The invariant.                                                          *)

Content(c) ==
  /\ c = [block |-> c.block, from |-> c.from, terms |-> c.terms, dirty |-> c.dirty]
  /\ c.block \in Nat
  /\ c.dirty \in BOOLEAN

Types ==
  /\ block \in Nat /\ block <= MaxBlock
  /\ at \in {Idle, InTheSum} \cup (Call \X Side)
  /\ buf = [b \in Buffer |-> buf[b]] /\ \A b \in Buffer : Content(buf[b])
  /\ memory = [f \in Filter |-> memory[f]] /\ \A f \in Filter : Content(memory[f])
  /\ calls \in [Filter -> Nat]

(* The call has been made for the current block.                           *)
Done(i, s) == at[1] > i \/ (at[1] = i /\ at[2] = "R" /\ s = "L")

(* The block do_process() was last called with and has returned from.      *)
LastRun == buf[<<"out", "L">>].block

(* All are at the current block that have been called for it, the others   *)
(* at the last one.                                                        *)
Stamps ==
  /\ LastRun <= block /\ (at # Idle => LastRun < block)
  /\ \A s \in Side :
       /\ buf[<<"out", s>>].block = LastRun
       /\ buf[<<"in", s>>].block = IF at = Idle THEN LastRun ELSE block
  /\ \A i \in Call, s \in Side :
       /\ buf[Out(i, s)].block = IF Done(i, s) THEN block ELSE LastRun
       /\ memory[Object(i, s)].block = buf[Out(i, s)].block

From(c, s) == c.from = IF c.block > 0 THEN {s} ELSE {}

Origins ==
  /\ \A b \in Buffer : From(buf[b], b[2])
  /\ \A f \in Filter : From(memory[f], f[2])

Carries(c, S) == c.terms = IF c.block > 0 THEN SetToBag(S) ELSE EmptyBag

(* What runs through each buffer and each filter never changes.            *)
Signals ==
  /\ \A s \in Side : /\ Carries(buf[<<"in", s>>], {Straight})
                    /\ Carries(buf[<<"out", s>>], Flat)
  /\ \A i \in Call, s \in Side : /\ Carries(buf[Out(i, s)], Signal(i))
                               /\ Carries(memory[Object(i, s)], Signal(Feed[i]))

(* Garbage goes on from each filter to those that read its output.         *)
Garbage ==
  /\ \A i \in Call, s \in Side : Done(i, s) =>
       /\ buf[Out(i, s)].dirty = memory[Object(i, s)].dirty
       /\ buf[In(i, s)].dirty => memory[Object(i, s)].dirty
  /\ at = Idle /\ LastRun > 0 => \A s \in Side :
       buf[<<"out", s>>].dirty = (\E f \in Filter : f[2] = s /\ memory[f].dirty)

(* A filter has been called in this run if its place has been come to; of  *)
(* the last run it was called once.                                        *)
Counts ==
  \A i \in Call, s \in Side :
    calls[Object(i, s)] = IF at = Idle THEN IF LastRun > 0 THEN 1 ELSE 0
                          ELSE IF Done(i, s) THEN 1 ELSE 0

IInv == Types /\ Stamps /\ Origins /\ Signals /\ Garbage /\ Counts

-----------------------------------------------------------------------------
(* The steps.                                                              *)

LEMMA AtEnds ==
  /\ Idle # InTheSum /\ Idle \notin Call \X Side /\ InTheSum \notin Call \X Side
  /\ at = Idle => \A i \in Call, s \in Side : ~Done(i, s)
  /\ at = InTheSum => \A i \in Call, s \in Side : Done(i, s)
<1>1. Idle = <<0, "L">> /\ InTheSum = <<17, "L">>
  BY ChainsLemma DEF Idle, InTheSum
<1>2. QED
  BY <1>1 DEF Call, Done

(* A filter reads the output of one called before it.                      *)
LEMMA FeedLemma ==
  ASSUME NEW i \in Call, Feed[i] # 0
  PROVE  Feed[i] \in Call /\ Feed[i] < i
<1>1. Feed[i] \in 0..(i - 1) /\ i \in 1..16
  BY ChainsLemma DEF Call
<1>2. QED
  BY <1>1 DEF Call

LEMMA InitIInv ==
  ASSUME Init
  PROVE  IInv
<1>1. /\ block = 0 /\ at = Idle /\ buf = [b \in Buffer |-> Nothing]
      /\ calls = [f \in Filter |-> 0]
  BY DEF Init
<1>2. PICK born : memory = [f \in Filter |-> [Nothing EXCEPT !.dirty = f \in born]]
  BY DEF Init
<1>3. /\ \A b \in Buffer : buf[b] = Nothing
      /\ \A f \in Filter : memory[f] = [Nothing EXCEPT !.dirty = f \in born]
  BY <1>1, <1>2
<1>4. /\ \A b \in Buffer : /\ Content(buf[b]) /\ buf[b].block = 0
                           /\ buf[b].from = {} /\ buf[b].terms = EmptyBag
      /\ \A f \in Filter : /\ Content(memory[f]) /\ memory[f].block = 0
                           /\ memory[f].from = {} /\ memory[f].terms = EmptyBag
  <2>1. \A d \in BOOLEAN :
          LET c == [Nothing EXCEPT !.dirty = d]
          IN /\ Content(c) /\ c.block = 0 /\ c.from = {} /\ c.terms = EmptyBag
    BY DEF Nothing, Content
  <2>2. /\ Content(Nothing) /\ Nothing.block = 0 /\ Nothing.from = {}
        /\ Nothing.terms = EmptyBag
    BY DEF Nothing, Content
  <2>3. \A f \in Filter : (f \in born) \in BOOLEAN
    OBVIOUS
  <2>4. \A f \in Filter : /\ Content(memory[f]) /\ memory[f].block = 0
                          /\ memory[f].from = {} /\ memory[f].terms = EmptyBag
    BY <1>3, <2>1, <2>3
  <2>5. QED
    BY <1>3, <2>2, <2>4
<1>5. LastRun = 0
  BY <1>4, OwnLemma DEF LastRun, Side
<1>6. Types
  BY <1>1, <1>2, <1>4, CrossoverAssumption DEF Types
<1>7. Stamps
  BY <1>1, <1>4, <1>5, AtEnds, OwnLemma DEF Stamps
<1>8. Origins
  <2>1. ~(0 > 0)
    OBVIOUS
  <2>2. \A b \in Buffer : From(buf[b], b[2])
    BY <1>4, <2>1 DEF From
  <2>3. \A f \in Filter : From(memory[f], f[2])
    BY <1>4, <2>1 DEF From
  <2>4. QED
    BY <2>2, <2>3 DEF Origins
<1>9. Signals
  <2>1. ~(0 > 0)
    OBVIOUS
  <2>2. ASSUME NEW S
        PROVE  /\ \A b \in Buffer : Carries(buf[b], S)
               /\ \A f \in Filter : Carries(memory[f], S)
    BY <1>4, <2>1 DEF Carries
  <2>3. QED
    BY <2>2, OwnLemma DEF Signals
<1>10. Garbage
  BY <1>1, <1>5, AtEnds DEF Garbage
<1>11. Counts
  BY <1>1, <1>5, OwnLemma DEF Counts
<1>12. QED
  BY <1>6, <1>7, <1>8, <1>9, <1>10, <1>11 DEF IInv

LEMMA BeginStep ==
  ASSUME IInv, Begin
  PROVE  IInv'
<1> USE DEF IInv
<1>1. /\ at = Idle /\ block < MaxBlock /\ block' = block + 1 /\ at' = <<1, "L">>
      /\ buf' = [b \in Buffer |->
                   IF b[1] = "in" THEN Captured(block', b[2]) ELSE buf[b]]
      /\ memory' = memory /\ calls' = [f \in Filter |-> 0]
  BY DEF Begin
<1>2. /\ block \in Nat /\ block' \in Nat /\ block' > 0 /\ block < block'
      /\ at' \in Call \X Side /\ at' # Idle
  BY <1>1, AtEnds DEF Types, Call, Side
<1>3. /\ \A s \in Side : /\ buf'[<<"in", s>>] = Captured(block', s)
                         /\ buf'[<<"out", s>>] = buf[<<"out", s>>]
      /\ \A i \in Call, s \in Side : buf'[Out(i, s)] = buf[Out(i, s)]
  <2>1. \A b \in Buffer : b[1] # "in" => buf'[b] = buf[b]
    BY <1>1
  <2>2. \A i \in Call, s \in Side : Out(i, s)[1] # "in"
    BY OwnLemma DEF Out
  <2>3. QED
    BY <1>1, <2>1, <2>2, OwnLemma
<1>4. \A s \in Side : LET c == Captured(block', s)
                      IN /\ Content(c) /\ c.block = block' /\ c.from = {s}
                         /\ c.terms = SetToBag({Straight})
  BY <1>2 DEF Captured, Content
<1>5. LastRun' = LastRun
  BY <1>3 DEF LastRun, Side
<1>6. \A i \in Call, s \in Side : ~Done(i, s) /\ ~Done(i, s)'
  BY <1>1, AtEnds DEF Done, Call, Side
<1>7. Types'
  <2>1. \A b \in Buffer : Content(buf'[b])
    BY <1>1, <1>4 DEF Types, Buffer
  <2>2. block' <= MaxBlock
    BY <1>1, <1>2, CrossoverAssumption
  <2>3. QED
    BY <1>1, <1>2, <2>1, <2>2 DEF Types
<1>8. Stamps'
  <2>1. LastRun' < block' /\ LastRun' <= block'
    BY <1>1, <1>2, <1>5, OwnLemma DEF Stamps, Types, Content, LastRun, Side
  <2>2. \A s \in Side : /\ buf'[<<"out", s>>].block = LastRun'
                        /\ buf'[<<"in", s>>].block = block'
    BY <1>3, <1>4, <1>5 DEF Stamps
  <2>3. \A i \in Call, s \in Side :
          /\ buf'[Out(i, s)].block = LastRun'
          /\ memory'[Object(i, s)].block = buf'[Out(i, s)].block
    BY <1>1, <1>3, <1>5, <1>6 DEF Stamps
  <2>4. QED
    BY <1>2, <1>6, <2>1, <2>2, <2>3 DEF Stamps
<1>9. Origins'
  <2>1. ASSUME NEW b \in Buffer
        PROVE  From(buf'[b], b[2])
    <3>1. CASE b[1] = "in"
      <4>1. buf'[b] = Captured(block', b[2]) /\ b[2] \in Side
        BY <1>1, <3>1 DEF Buffer
      <4>2. QED
        BY <1>2, <1>4, <4>1 DEF From
    <3>2. CASE b[1] # "in"
      BY <1>1, <3>2 DEF Origins
    <3>3. QED
      BY <3>1, <3>2
  <2>2. QED
    BY <1>1, <2>1 DEF Origins, From
<1>10. Signals'
  <2>1. \A s \in Side : Carries(buf'[<<"in", s>>], {Straight})
    BY <1>2, <1>3, <1>4 DEF Carries
  <2>2. \A s \in Side : Carries(buf'[<<"out", s>>], Flat)
    BY <1>3 DEF Signals
  <2>3. \A i \in Call, s \in Side : /\ Carries(buf'[Out(i, s)], Signal(i))
                                  /\ Carries(memory'[Object(i, s)], Signal(Feed[i]))
    BY <1>1, <1>3 DEF Signals
  <2>4. QED
    BY <2>1, <2>2, <2>3 DEF Signals, Carries
<1>11. Garbage'
  BY <1>2, <1>6 DEF Garbage
<1>12. Counts'
  BY <1>1, <1>2, <1>6, OwnLemma DEF Counts
<1>13. QED
  BY <1>7, <1>8, <1>9, <1>10, <1>11, <1>12

LEMMA BypassedStep ==
  ASSUME IInv, Bypassed
  PROVE  IInv'
<1> USE DEF IInv
<1>1. at = Idle /\ block < MaxBlock /\ block' = block + 1 /\ UNCHANGED <<at, buf, memory, calls>>
  BY DEF Bypassed
<1>2. \A i \in Call, s \in Side : ~Done(i, s) /\ ~Done(i, s)'
  BY <1>1, AtEnds DEF Done
<1>3. LastRun' = LastRun /\ LastRun <= block'
  <2>1. LastRun \in Nat /\ LastRun <= block /\ block \in Nat
    BY OwnLemma DEF Types, Content, LastRun, Side, Stamps
  <2>2. QED
    BY <1>1, <2>1 DEF LastRun
<1>4. Types'
  BY <1>1, CrossoverAssumption DEF Types
<1>5. Stamps'
  BY <1>1, <1>2, <1>3 DEF Stamps
<1>6. Origins' /\ Signals'
  BY <1>1 DEF Origins, From, Signals, Carries
<1>7. Garbage'
  BY <1>1, <1>2, <1>3 DEF Garbage
<1>8. Counts'
  BY <1>1, <1>3 DEF Counts
<1>9. QED
  BY <1>4, <1>5, <1>6, <1>7, <1>8

(* A call finds the current block at its input, and has not been made for  *)
(* it yet.                                                                 *)
LEMMA CallLemma ==
  ASSUME IInv, NEW i \in Call, NEW s \in Side, at = <<i, s>>
  PROVE  /\ at # Idle /\ block > 0 /\ ~Done(i, s)
         /\ Feed[i] # 0 => Feed[i] \in Call /\ Done(Feed[i], s)
         /\ buf[In(i, s)].block = block
         /\ buf[Out(i, s)].block = LastRun /\ memory[Object(i, s)].block = LastRun
         /\ LastRun \in Nat /\ LastRun < block /\ block \in Nat
<1>1. at # Idle /\ ~Done(i, s)
  BY AtEnds DEF Done, Call
<1>2. /\ LastRun \in Nat /\ LastRun < block /\ block \in Nat
      /\ buf[Out(i, s)].block = LastRun /\ memory[Object(i, s)].block = LastRun
  <2>1. LastRun \in Nat /\ block \in Nat
    BY OwnLemma DEF IInv, Types, Content, LastRun, Side
  <2>2. LastRun < block
    BY <1>1 DEF IInv, Stamps
  <2>3. /\ buf[Out(i, s)].block = IF Done(i, s) THEN block ELSE LastRun
        /\ memory[Object(i, s)].block = buf[Out(i, s)].block
    BY DEF IInv, Stamps
  <2>4. QED
    BY <1>1, <2>1, <2>2, <2>3
<1>3. Feed[i] # 0 => Feed[i] \in Call /\ Done(Feed[i], s)
  BY FeedLemma DEF Call, Done
<1>4. buf[In(i, s)].block = block
  <2>1. CASE Feed[i] = 0
    <3>1. In(i, s) = <<"in", s>>
      BY <2>1, OwnLemma
    <3>2. QED
      BY <1>1, <3>1 DEF IInv, Stamps
  <2>2. CASE Feed[i] # 0
    <3>1. In(i, s) = Out(Feed[i], s) /\ Feed[i] \in Call /\ Done(Feed[i], s)
      BY <1>3, <2>2, OwnLemma
    <3>2. QED
      BY <3>1 DEF IInv, Stamps
  <2>3. QED
    BY <2>1, <2>2
<1>5. QED
  BY <1>1, <1>2, <1>3, <1>4

(* What a call reads is the signal of the one it reads from.               *)
LEMMA CallReads ==
  ASSUME IInv, NEW i \in Call, NEW s \in Side, at = <<i, s>>
  PROVE  buf[In(i, s)].terms = SetToBag(Signal(Feed[i]))
<1>1. buf[In(i, s)].block = block /\ block > 0
  BY CallLemma
<1>2. Carries(buf[In(i, s)], Signal(Feed[i]))
  <2>1. CASE Feed[i] = 0
    <3>1. In(i, s) = <<"in", s>> /\ Signal(Feed[i]) = {Straight}
      BY <2>1, OwnLemma DEF Signal
    <3>2. QED
      BY <3>1 DEF IInv, Signals
  <2>2. CASE Feed[i] # 0
    <3>1. In(i, s) = Out(Feed[i], s) /\ Feed[i] \in Call
      BY <2>2, OwnLemma, FeedLemma
    <3>2. QED
      BY <3>1 DEF IInv, Signals
  <2>3. QED
    BY <2>1, <2>2
<1>3. QED
  BY <1>1, <1>2 DEF Carries

LEMMA ProcessStep ==
  ASSUME IInv, NEW i \in Call, NEW s \in Side, Process(i, s)
  PROVE  IInv'
<1> DEFINE x     == buf[In(i, s)]
           dirty == x.dirty \/ memory[Object(i, s)].dirty
           terms == Filtered(x.terms, Chains[i].split, Chains[i].passes)
           from  == x.from \cup memory[Object(i, s)].from
           new   == [block |-> x.block, from |-> from, terms |-> terms, dirty |-> dirty]
           heard == [x EXCEPT !.dirty = dirty]
<1>1. /\ at = <<i, s>> /\ at' = IF s = "L" THEN <<i, "R">> ELSE <<i + 1, "L">>
      /\ block' = block
      /\ buf' = [buf EXCEPT ![Out(i, s)] = new]
      /\ memory' = [memory EXCEPT ![Object(i, s)] = heard]
      /\ calls' = [calls EXCEPT ![Object(i, s)] = @ + 1]
  BY DEF Process, In, Out
<1>2. /\ at # Idle /\ block > 0 /\ ~Done(i, s)
      /\ Feed[i] # 0 => Feed[i] \in Call /\ Done(Feed[i], s)
      /\ x.block = block
      /\ buf[Out(i, s)].block = LastRun /\ memory[Object(i, s)].block = LastRun
      /\ LastRun \in Nat /\ LastRun < block /\ block \in Nat
  BY <1>1, CallLemma
<1>3. /\ Out(i, s) \in Buffer /\ In(i, s) \in Buffer /\ Object(i, s) \in Filter
      /\ Content(x) /\ Content(memory[Object(i, s)])
      /\ buf = [b \in Buffer |-> buf[b]] /\ memory = [f \in Filter |-> memory[f]]
  BY OwnLemma DEF IInv, Types
<1>4. /\ x.from = {s} /\ memory[Object(i, s)].from \subseteq {s}
  <2>1. In(i, s)[2] = s /\ Object(i, s)[2] = s
    BY DEF In, Object
  <2>2. From(x, s) /\ From(memory[Object(i, s)], s)
    BY <1>3, <2>1 DEF IInv, Origins
  <2>3. QED
    BY <1>2, <2>2 DEF From
<1>5. /\ Content(new) /\ new.block = block /\ new.from = {s} /\ new.dirty = dirty
      /\ new.terms = Filtered(x.terms, Chains[i].split, Chains[i].passes)
      /\ Content(heard) /\ heard.block = block /\ heard.from = {s}
      /\ heard.dirty = dirty /\ heard.terms = x.terms
  <2>1. x = [block |-> x.block, from |-> x.from, terms |-> x.terms, dirty |-> x.dirty]
    BY <1>3 DEF Content
  <2>2. dirty \in BOOLEAN /\ x.block = block /\ block \in Nat
    BY <1>2, <1>3 DEF Content
  <2>3. from = {s}
    BY <1>4
  <2> HIDE DEF x, dirty, terms, from
  <2>4. heard = [block |-> x.block, from |-> x.from, terms |-> x.terms, dirty |-> dirty]
    BY <2>1
  <2> HIDE DEF heard
  <2>5. /\ Content(new) /\ new.block = block /\ new.from = {s} /\ new.dirty = dirty
        /\ new.terms = terms
    BY <2>2, <2>3 DEF Content
  <2>6. /\ Content(heard) /\ heard.block = block /\ heard.from = {s}
        /\ heard.dirty = dirty /\ heard.terms = x.terms
    BY <1>4, <2>2, <2>4 DEF Content
  <2>7. QED
    BY <2>5, <2>6 DEF terms
<1> HIDE DEF new, heard
<1>6. /\ buf'[Out(i, s)] = new /\ memory'[Object(i, s)] = heard
      /\ \A b \in Buffer : b # Out(i, s) => buf'[b] = buf[b]
      /\ \A f \in Filter : f # Object(i, s) => memory'[f] = memory[f]
      /\ buf' = [b \in Buffer |-> buf'[b]] /\ memory' = [f \in Filter |-> memory'[f]]
  BY <1>1, <1>3
<1> HIDE DEF x, dirty, terms, from
<1>7. /\ \A t \in Side : /\ buf'[<<"in", t>>] = buf[<<"in", t>>]
                         /\ buf'[<<"out", t>>] = buf[<<"out", t>>]
      /\ LastRun' = LastRun
  <2>1. \A t \in Side : /\ buf'[<<"in", t>>] = buf[<<"in", t>>]
                        /\ buf'[<<"out", t>>] = buf[<<"out", t>>]
    <3>1. ASSUME NEW t \in Side
          PROVE  /\ <<"in", t>> \in Buffer /\ <<"in", t>> # Out(i, s)
                 /\ <<"out", t>> \in Buffer /\ <<"out", t>> # Out(i, s)
      <4>1. Out(i, s) # <<"in", t>> /\ Out(i, s) # <<"out", t>>
        BY OwnLemma
      <4>2. <<"in", t>> \in Buffer /\ <<"out", t>> \in Buffer
        BY OwnLemma
      <4>3. QED
        BY <4>1, <4>2
    <3>2. QED
      BY <1>6, <3>1
  <2>2. QED
    BY <2>1 DEF LastRun, Side
<1>8. ASSUME NEW j \in Call, NEW t \in Side, ~(j = i /\ t = s)
      PROVE  /\ buf'[Out(j, t)] = buf[Out(j, t)]
             /\ memory'[Object(j, t)] = memory[Object(j, t)]
  BY <1>6, <1>8, OwnLemma
<1>9. ASSUME NEW j \in Call, NEW t \in Side, In(j, t) = Out(i, s)
      PROVE  /\ t = s /\ ~(j = i /\ t = s) /\ ~Done(j, t)
             /\ memory[Object(j, t)].block = LastRun
  <2>1. t = s /\ i = Feed[j]
    BY <1>9, OwnLemma
  <2>2. i < j
    BY <2>1, FeedLemma DEF Call
  <2>3. ~Done(j, t)
    BY <1>1, <2>2 DEF Done, Call
  <2>4. memory[Object(j, t)].block = LastRun
    BY <2>3 DEF IInv, Stamps
  <2>5. QED
    BY <2>1, <2>2, <2>3, <2>4 DEF Call
<1>10. /\ at' # Idle /\ at' \in {Idle, InTheSum} \cup (Call \X Side)
       /\ \A j \in Call, t \in Side : Done(j, t)' = (Done(j, t) \/ (j = i /\ t = s))
  <2>1. i \in 1..16 /\ s \in {"L", "R"} /\ Len(Chains) = 16
    BY ChainsLemma DEF Call, Side
  <2>2. at' # Idle
    BY <1>1, <2>1 DEF Idle
  <2>3. at' \in {Idle, InTheSum} \cup (Call \X Side)
    BY <1>1, <2>1 DEF InTheSum, Call, Side
  <2>4. ASSUME NEW j \in Call, NEW t \in Side
        PROVE  Done(j, t)' = (Done(j, t) \/ (j = i /\ t = s))
    BY <1>1, <2>1 DEF Done, Call, Side
  <2>5. QED
    BY <2>2, <2>3, <2>4
<1>11. Types'
  <2>1. \A b \in Buffer : Content(buf'[b])
    BY <1>5, <1>6 DEF IInv, Types
  <2>2. \A f \in Filter : Content(memory'[f])
    BY <1>5, <1>6 DEF IInv, Types
  <2>3. block' \in Nat /\ block' <= MaxBlock
    BY <1>1, <1>2 DEF IInv, Types
  <2>4. calls' \in [Filter -> Nat]
    BY <1>1, <1>3 DEF IInv, Types
  <2>5. QED
    BY <1>6, <1>10, <2>1, <2>2, <2>3, <2>4 DEF Types
<1>12. Stamps'
  <2>1. LastRun' <= block' /\ LastRun' < block'
    BY <1>1, <1>2, <1>7
  <2>2. ASSUME NEW t \in Side
        PROVE  /\ buf'[<<"out", t>>].block = LastRun'
               /\ buf'[<<"in", t>>].block = block'
    BY <1>1, <1>2, <1>7 DEF IInv, Stamps
  <2>3. ASSUME NEW j \in Call, NEW t \in Side
        PROVE  /\ buf'[Out(j, t)].block = IF Done(j, t)' THEN block' ELSE LastRun'
               /\ memory'[Object(j, t)].block = buf'[Out(j, t)].block
    <3>1. CASE j = i /\ t = s
      <4>1. buf'[Out(j, t)] = new /\ memory'[Object(j, t)] = heard
        BY <1>6, <3>1
      <4>2. new.block = block /\ heard.block = block
        BY <1>5
      <4>3. Done(j, t)'
        BY <1>10, <3>1
      <4>4. QED
        BY <1>1, <4>1, <4>2, <4>3
    <3>2. CASE ~(j = i /\ t = s)
      <4>1. /\ buf[Out(j, t)].block = IF Done(j, t) THEN block ELSE LastRun
            /\ memory[Object(j, t)].block = buf[Out(j, t)].block
        BY DEF IInv, Stamps
      <4>2. QED
        BY <1>1, <1>7, <1>8, <1>10, <3>2, <4>1
    <3>3. QED
      BY <3>1, <3>2
  <2>4. QED
    BY <1>10, <2>1, <2>2, <2>3 DEF Stamps
<1>13. Origins'
  <2>1. Out(i, s)[2] = s /\ Object(i, s)[2] = s
    BY DEF Out, Object
  <2>2. From(new, s) /\ From(heard, s)
    BY <1>2, <1>5 DEF From
  <2>3. \A b \in Buffer : From(buf'[b], b[2])
    BY <1>6, <2>1, <2>2 DEF IInv, Origins
  <2>4. \A f \in Filter : From(memory'[f], f[2])
    BY <1>6, <2>1, <2>2 DEF IInv, Origins
  <2>5. QED
    BY <2>3, <2>4 DEF Origins, From
<1>14. Signals'
  <2>1. x.terms = SetToBag(Signal(Feed[i]))
    BY <1>1, CallReads DEF x
  <2>2. new.terms = SetToBag(Signal(i))
    BY <1>5, <2>1, SignalLemma
  <2>3. Carries(new, Signal(i)) /\ Carries(heard, Signal(Feed[i]))
    BY <1>2, <1>5, <2>1, <2>2 DEF Carries
  <2>4. ASSUME NEW j \in Call, NEW t \in Side
        PROVE  /\ Carries(buf'[Out(j, t)], Signal(j))
               /\ Carries(memory'[Object(j, t)], Signal(Feed[j]))
    <3>1. CASE j = i /\ t = s
      BY <1>6, <2>3, <3>1
    <3>2. CASE ~(j = i /\ t = s)
      BY <1>8, <3>2 DEF IInv, Signals
    <3>3. QED
      BY <3>1, <3>2
  <2>5. \A t \in Side : /\ Carries(buf'[<<"in", t>>], {Straight})
                      /\ Carries(buf'[<<"out", t>>], Flat)
    BY <1>7 DEF IInv, Signals
  <2>6. QED
    BY <2>4, <2>5 DEF Signals, Carries
<1>15. Garbage'
  <2>1. ASSUME NEW j \in Call, NEW t \in Side, Done(j, t)'
        PROVE  /\ buf'[Out(j, t)].dirty = memory'[Object(j, t)].dirty
               /\ buf'[In(j, t)].dirty => memory'[Object(j, t)].dirty
    <3>1. CASE j = i /\ t = s
      <4>1. buf'[In(i, s)] = x
        BY <1>3, <1>6, <1>9 DEF x
      <4>2. x.dirty => dirty
        BY DEF dirty
      <4>3. QED
        BY <1>5, <1>6, <3>1, <4>1, <4>2
    <3>2. CASE ~(j = i /\ t = s)
      <4>1. Done(j, t)
        BY <1>10, <2>1, <3>2
      <4>2. buf'[In(j, t)] = buf[In(j, t)]
        BY <1>6, <1>9, <4>1, OwnLemma
      <4>3. /\ buf[Out(j, t)].dirty = memory[Object(j, t)].dirty
            /\ buf[In(j, t)].dirty => memory[Object(j, t)].dirty
        BY <4>1 DEF IInv, Garbage
      <4>4. QED
        BY <1>8, <3>2, <4>2, <4>3
    <3>3. QED
      BY <3>1, <3>2
  <2>2. QED
    BY <1>10, <2>1 DEF Garbage
<1>16. Counts'
  <2>1. /\ calls'[Object(i, s)] = calls[Object(i, s)] + 1
        /\ \A f \in Filter : f # Object(i, s) => calls'[f] = calls[f]
    BY <1>1, <1>3 DEF IInv, Types
  <2>2. ASSUME NEW j \in Call, NEW t \in Side
        PROVE  calls'[Object(j, t)] = IF Done(j, t)' THEN 1 ELSE 0
    <3>1. calls[Object(j, t)] = IF Done(j, t) THEN 1 ELSE 0
      BY <1>2 DEF IInv, Counts
    <3>2. CASE j = i /\ t = s
      <4>1. calls'[Object(j, t)] = calls[Object(j, t)] + 1 /\ ~Done(j, t)
        BY <1>2, <2>1, <3>2
      <4>2. calls'[Object(j, t)] = 1
        BY <3>1, <4>1
      <4>3. Done(j, t)'
        BY <1>10, <3>2
      <4>4. QED
        BY <4>2, <4>3
    <3>3. CASE ~(j = i /\ t = s)
      <4>1. Object(j, t) # Object(i, s) /\ Object(j, t) \in Filter
        BY <3>3, OwnLemma
      <4>2. QED
        BY <1>10, <2>1, <3>1, <3>3, <4>1
    <3>4. QED
      BY <3>2, <3>3
  <2>3. QED
    BY <1>10, <2>2 DEF Counts
<1>17. QED
  BY <1>11, <1>12, <1>13, <1>14, <1>15, <1>16 DEF IInv

(* When a run of the calls is over, garbage anywhere in a channel has come *)
(* to one of its bands: each filter feeds another one or makes a band.     *)
LEMMA GarbageComesOut ==
  ASSUME IInv, at = InTheSum, NEW s \in Side
  PROVE  (\E k \in Bands : buf[<<BandOut[k], s>>].dirty)
           = (\E f \in Filter : f[2] = s /\ memory[f].dirty)
<1> DEFINE D == {j \in Call : memory[Object(j, s)].dirty}
<1>1. ASSUME NEW j \in Call
      PROVE  /\ j \in D <=> memory[Object(j, s)].dirty
             /\ j \in D <=> buf[Out(j, s)].dirty
             /\ buf[In(j, s)].dirty => j \in D
  <2>1. Done(j, s) /\ Object(j, s) \in Filter
    BY AtEnds, OwnLemma
  <2>2. /\ buf[Out(j, s)].dirty = memory[Object(j, s)].dirty
        /\ buf[In(j, s)].dirty => memory[Object(j, s)].dirty
    BY <2>1 DEF IInv, Garbage
  <2>3. memory[Object(j, s)].dirty \in BOOLEAN
    BY <2>1 DEF IInv, Types, Content
  <2>4. QED
    BY <2>2, <2>3
<1> HIDE DEF D
<1>2. ASSUME NEW j \in Call, Feed[j] # 0
      PROVE  Feed[j] \in D => j \in D
  <2>1. Feed[j] \in Call /\ In(j, s) = Out(Feed[j], s)
    BY <1>2, FeedLemma, OwnLemma
  <2>2. buf[Out(Feed[j], s)].dirty <=> Feed[j] \in D
    BY <1>1, <2>1
  <2>3. buf[In(j, s)].dirty => j \in D
    BY <1>1
  <2>4. QED
    BY <2>1, <2>2, <2>3
<1>3. /\ (1 \in D => 2 \in D)   /\ (2 \in D => 3 \in D)   /\ (3 \in D => 4 \in D)
      /\ (4 \in D => 5 \in D)   /\ (2 \in D => 7 \in D)   /\ (7 \in D => 8 \in D)
      /\ (8 \in D => 9 \in D)   /\ (11 \in D => 12 \in D) /\ (12 \in D => 13 \in D)
      /\ (13 \in D => 14 \in D) /\ (14 \in D => 15 \in D)
  <2>1. /\ Feed[2] = 1   /\ Feed[3] = 2   /\ Feed[4] = 3   /\ Feed[5] = 4
        /\ Feed[7] = 2   /\ Feed[8] = 7   /\ Feed[9] = 8   /\ Feed[12] = 11
        /\ Feed[13] = 12 /\ Feed[14] = 13 /\ Feed[15] = 14
    BY DEF Feed
  <2>2. QED
    BY <1>2, <2>1 DEF Call
<1>4. ASSUME NEW k \in 1..6
      PROVE  BandAt[k] \in Call /\ (buf[<<BandOut[k], s>>].dirty <=> BandAt[k] \in D)
  <2>1. BandAt[k] \in Call
    BY DEF BandAt, Call
  <2>2. <<BandOut[k], s>> = Out(BandAt[k], s)
    BY ChainsLemma DEF Out
  <2>3. QED
    BY <1>1, <2>1, <2>2
<1>5. Bands = 1..6
  BY DEF Bands, BandOut
<1>6. ASSUME NEW k \in Bands, buf[<<BandOut[k], s>>].dirty
      PROVE  \E f \in Filter : f[2] = s /\ memory[f].dirty
  <2>1. BandAt[k] \in Call /\ BandAt[k] \in D
    BY <1>4, <1>5, <1>6
  <2>2. /\ Object(BandAt[k], s) \in Filter /\ Object(BandAt[k], s)[2] = s
        /\ memory[Object(BandAt[k], s)].dirty
    BY <1>1, <2>1, OwnLemma DEF Object
  <2>3. QED
    BY <2>2
<1>7. ASSUME NEW f \in Filter, f[2] = s, memory[f].dirty
      PROVE  \E k \in Bands : buf[<<BandOut[k], s>>].dirty
  <2>1. PICK i \in Call : f = Object(i, s)
    <3>1. PICK i \in Call, t \in Side : f = Object(i, t)
      BY OwnLemma
    <3>2. t = s
      BY <1>7, <3>1 DEF Object
    <3>3. QED
      BY <3>1, <3>2
  <2>2. i \in D
    BY <1>1, <1>7, <2>1
  <2>3. 5 \in D \/ 6 \in D \/ 9 \in D \/ 10 \in D \/ 15 \in D \/ 16 \in D
    <3>1. \/ i = 1 \/ i = 2 \/ i = 3 \/ i = 4 \/ i = 5 \/ i = 6 \/ i = 7 \/ i = 8
          \/ i = 9 \/ i = 10 \/ i = 11 \/ i = 12 \/ i = 13 \/ i = 14 \/ i = 15
          \/ i = 16
      BY DEF Call
    <3>2. \/ 1 \in D  \/ 2 \in D  \/ 3 \in D  \/ 4 \in D  \/ 5 \in D  \/ 6 \in D
          \/ 7 \in D  \/ 8 \in D  \/ 9 \in D  \/ 10 \in D \/ 11 \in D \/ 12 \in D
          \/ 13 \in D \/ 14 \in D \/ 15 \in D \/ 16 \in D
      BY <2>2, <3>1
    <3>3. QED
      BY <1>3, <3>2
  <2>4. \E k \in 1..6 : BandAt[k] \in D
    <3>1. /\ BandAt[1] = 5 /\ BandAt[2] = 6 /\ BandAt[3] = 9 /\ BandAt[4] = 10
          /\ BandAt[5] = 15 /\ BandAt[6] = 16
      BY DEF BandAt
    <3>2. QED
      BY <2>3, <3>1
  <2>5. QED
    BY <1>4, <1>5, <2>4
<1>8. QED
  BY <1>6, <1>7

LEMMA SumBandsStep ==
  ASSUME IInv, SumBands
  PROVE  IInv'
<1>1. /\ at = InTheSum /\ at' = Idle /\ block' = block /\ memory' = memory
      /\ calls' = calls
      /\ buf' = [b \in Buffer |-> IF b[1] = "out" THEN Mixed(b[2]) ELSE buf[b]]
  BY DEF SumBands
<1>2. /\ \A i \in Call, s \in Side : Done(i, s) /\ ~Done(i, s)'
      /\ at # Idle
  BY <1>1, AtEnds DEF Done, Idle, Call
<1>3. /\ \A s \in Side : /\ buf'[<<"in", s>>] = buf[<<"in", s>>]
                         /\ buf'[<<"out", s>>] = Mixed(s)
      /\ \A i \in Call, s \in Side : /\ buf'[Out(i, s)] = buf[Out(i, s)]
                                     /\ buf'[In(i, s)] = buf[In(i, s)]
  <2>1. \A b \in Buffer : b[1] # "out" => buf'[b] = buf[b]
    BY <1>1
  <2>2. \A s \in Side : /\ buf'[<<"in", s>>] = buf[<<"in", s>>]
                        /\ buf'[<<"out", s>>] = Mixed(s)
    BY <1>1, OwnLemma
  <2>3. \A i \in Call, s \in Side : Out(i, s) \in Buffer /\ Out(i, s)[1] # "out"
    BY OwnLemma DEF Out
  <2>4. \A i \in Call, s \in Side : buf'[Out(i, s)] = buf[Out(i, s)]
    BY <2>1, <2>3
  <2>5. ASSUME NEW i \in Call, NEW s \in Side
        PROVE  buf'[In(i, s)] = buf[In(i, s)]
    <3>1. In(i, s) = IF Feed[i] = 0 THEN <<"in", s>> ELSE Out(Feed[i], s)
      BY OwnLemma
    <3>2. Feed[i] # 0 => Feed[i] \in Call
      BY FeedLemma
    <3>3. QED
      BY <2>2, <2>4, <3>1, <3>2
  <2>6. QED
    BY <2>2, <2>4, <2>5
<1>4. LastRun \in Nat /\ block \in Nat /\ LastRun < block /\ block > 0
  <2>1. LastRun \in Nat /\ block \in Nat
    BY OwnLemma DEF IInv, Types, Content, LastRun, Side
  <2>2. LastRun < block
    BY <1>2 DEF IInv, Stamps
  <2>3. QED
    BY <2>1, <2>2
<1>5. ASSUME NEW s \in Side
      PROVE  /\ Content(Mixed(s)) /\ Mixed(s).block = block /\ Mixed(s).from = {s}
             /\ Mixed(s).dirty = (\E f \in Filter : f[2] = s /\ memory[f].dirty)
             /\ Mixed(s).terms = SetToBag(Flat)
  <2>1. Bands = 1..6
    BY DEF Bands, BandOut
  <2>2. ASSUME NEW k \in Bands
        PROVE  /\ buf[<<BandOut[k], s>>].block = block
               /\ buf[<<BandOut[k], s>>].from = {s}
               /\ buf[<<BandOut[k], s>>].terms = SetToBag(Signal(BandAt[k]))
    <3>1. BandAt[k] \in Call /\ <<BandOut[k], s>> = Out(BandAt[k], s)
      BY <2>1, ChainsLemma DEF Out, BandAt, Call
    <3>2. /\ Out(BandAt[k], s) \in Buffer /\ Out(BandAt[k], s)[2] = s
          /\ Done(BandAt[k], s)
      BY <1>2, <3>1, OwnLemma DEF Out
    <3>3. buf[Out(BandAt[k], s)].block = block
      BY <3>1, <3>2 DEF IInv, Stamps
    <3>4. From(buf[Out(BandAt[k], s)], s)
      BY <3>2 DEF IInv, Origins
    <3>5. Carries(buf[Out(BandAt[k], s)], Signal(BandAt[k]))
      BY <3>1 DEF IInv, Signals
    <3>6. QED
      BY <1>4, <3>1, <3>3, <3>4, <3>5 DEF From, Carries
  <2>3. buf[<<BandOut[1], s>>].block = block
    BY <2>1, <2>2
  <2>4. UNION {buf[<<BandOut[k], s>>].from : k \in Bands} = {s}
    BY <2>1, <2>2
  <2>5. (\E k \in Bands : buf[<<BandOut[k], s>>].dirty)
          = (\E f \in Filter : f[2] = s /\ memory[f].dirty)
    BY <1>1, GarbageComesOut
  <2> DEFINE band(k) == buf[<<BandOut[k], s>>].terms
             terms == band(1) (+) band(2) (+) band(3) (+) band(4) (+) band(5) (+) band(6)
             dirty == \E k \in Bands : buf[<<BandOut[k], s>>].dirty
             from  == UNION {buf[<<BandOut[k], s>>].from : k \in Bands}
             stamp == buf[<<BandOut[1], s>>].block
  <2>6. Mixed(s) = [block |-> stamp, from |-> from, terms |-> terms, dirty |-> dirty]
    BY DEF Mixed
  <2>7. dirty \in BOOLEAN
    OBVIOUS
  <2>8. terms = SetToBag(Flat)
    <3>1. /\ BandAt[1] = 5 /\ BandAt[2] = 6 /\ BandAt[3] = 9 /\ BandAt[4] = 10
          /\ BandAt[5] = 15 /\ BandAt[6] = 16
      BY DEF BandAt
    <3>2. \A k \in 1..6 : band(k) = SetToBag(Signal(BandAt[k]))
      BY <2>1, <2>2
    <3> HIDE DEF band
    <3>3. /\ band(1) = SetToBag(Signal(5)) /\ band(2) = SetToBag(Signal(6))
          /\ band(3) = SetToBag(Signal(9)) /\ band(4) = SetToBag(Signal(10))
          /\ band(5) = SetToBag(Signal(15)) /\ band(6) = SetToBag(Signal(16))
      BY <3>1, <3>2
    <3>4. QED
      BY <3>3, BandsAddUp
  <2> HIDE DEF terms, dirty, from, stamp
  <2>9. /\ Mixed(s).block = stamp /\ Mixed(s).from = from /\ Mixed(s).terms = terms
        /\ Mixed(s).dirty = dirty
    BY <2>6
  <2>10. Content(Mixed(s))
    <3>1. stamp \in Nat
      BY <1>4, <2>3 DEF stamp
    <3>2. QED
      BY <2>6, <2>7, <2>9, <3>1 DEF Content
  <2>11. QED
    BY <2>3, <2>4, <2>5, <2>8, <2>9, <2>10 DEF dirty, from, stamp
<1> HIDE DEF Mixed
<1>6. LastRun' = block
  BY <1>3, <1>5 DEF LastRun, Side
<1>7. Types'
  <2>1. \A b \in Buffer : b[1] = "out" => b[2] \in Side /\ buf'[b] = Mixed(b[2])
    BY <1>1 DEF Buffer
  <2>2. \A b \in Buffer : b[1] # "out" => buf'[b] = buf[b]
    BY <1>1
  <2>3. ASSUME NEW b \in Buffer
        PROVE  Content(buf'[b])
    <3>1. CASE b[1] = "out"
      BY <1>5, <2>1, <3>1
    <3>2. CASE b[1] # "out"
      BY <2>2, <3>2 DEF IInv, Types
    <3>3. QED
      BY <3>1, <3>2
  <2>4. buf' = [b \in Buffer |-> buf'[b]]
    BY <1>1
  <2>5. /\ block' \in Nat /\ block' <= MaxBlock /\ memory' = [f \in Filter |-> memory'[f]]
        /\ \A f \in Filter : Content(memory'[f])
    BY <1>1 DEF IInv, Types
  <2>6. at' \in {Idle, InTheSum} \cup (Call \X Side) /\ calls' \in [Filter -> Nat]
    BY <1>1 DEF IInv, Types
  <2>7. QED
    BY <2>3, <2>4, <2>5, <2>6 DEF Types
<1>8. Stamps'
  <2>1. \A s \in Side : /\ buf'[<<"out", s>>].block = block
                        /\ buf'[<<"in", s>>].block = block
    BY <1>2, <1>3, <1>5 DEF IInv, Stamps
  <2>2. ASSUME NEW i \in Call, NEW s \in Side
        PROVE  /\ buf'[Out(i, s)].block = block
               /\ memory'[Object(i, s)].block = buf'[Out(i, s)].block
    <3>1. Done(i, s) /\ buf'[Out(i, s)] = buf[Out(i, s)]
      BY <1>2, <1>3
    <3>2. /\ buf[Out(i, s)].block = IF Done(i, s) THEN block ELSE LastRun
          /\ memory[Object(i, s)].block = buf[Out(i, s)].block
      BY DEF IInv, Stamps
    <3>3. QED
      BY <1>1, <3>1, <3>2
  <2>3. QED
    BY <1>1, <1>2, <1>4, <1>6, <2>1, <2>2, SMTT(30) DEF Stamps
<1>9. Origins'
  <2>1. ASSUME NEW b \in Buffer
        PROVE  From(buf'[b], b[2])
    <3>1. CASE b[1] = "out"
      <4>1. buf'[b] = Mixed(b[2]) /\ b[2] \in Side
        BY <1>1, <3>1 DEF Buffer
      <4>2. QED
        BY <1>4, <1>5, <4>1 DEF From
    <3>2. CASE b[1] # "out"
      BY <1>1, <3>2 DEF IInv, Origins
    <3>3. QED
      BY <3>1, <3>2
  <2>2. QED
    BY <1>1, <2>1 DEF IInv, Origins, From
<1>10. Signals'
  <2>1. \A s \in Side : Carries(buf'[<<"out", s>>], Flat)
    BY <1>3, <1>4, <1>5 DEF Carries
  <2>2. \A s \in Side : Carries(buf'[<<"in", s>>], {Straight})
    BY <1>3 DEF IInv, Signals
  <2>3. \A i \in Call, s \in Side : /\ Carries(buf'[Out(i, s)], Signal(i))
                                  /\ Carries(memory'[Object(i, s)], Signal(Feed[i]))
    BY <1>1, <1>3 DEF IInv, Signals
  <2>4. QED
    BY <2>1, <2>2, <2>3 DEF Signals, Carries
<1>11. Garbage'
  <2>1. ASSUME NEW s \in Side
        PROVE  buf'[<<"out", s>>].dirty
                 = (\E f \in Filter : f[2] = s /\ memory'[f].dirty)
    <3>1. buf'[<<"out", s>>].dirty = Mixed(s).dirty
      BY <1>3
    <3>2. Mixed(s).dirty = (\E f \in Filter : f[2] = s /\ memory[f].dirty)
      BY <1>5
    <3>3. QED
      BY <1>1, <3>1, <3>2, Zenon
  <2>2. QED
    BY <1>1, <1>2, <2>1 DEF Garbage
<1>12. Counts'
  <2>1. \A i \in Call, s \in Side : calls[Object(i, s)] = 1
    BY <1>2 DEF IInv, Counts
  <2>2. LastRun' > 0
    BY <1>4, <1>6
  <2>3. QED
    BY <1>1, <2>1, <2>2 DEF Counts
<1>13. QED
  BY <1>7, <1>8, <1>9, <1>10, <1>11, <1>12 DEF IInv

-----------------------------------------------------------------------------
(* The theorems.                                                           *)

LEMMA NextIInv ==
  ASSUME IInv, [Next]_vars
  PROVE  IInv'
<1>1. CASE Begin
  BY <1>1, BeginStep
<1>2. CASE Bypassed
  BY <1>2, BypassedStep
<1>3. CASE \E i \in DOMAIN Chains, s \in Side : Process(i, s)
  <2>1. DOMAIN Chains = Call
    BY ChainsLemma DEF Call
  <2>2. QED
    BY <1>3, <2>1, ProcessStep
<1>4. CASE SumBands
  BY <1>4, SumBandsStep
<1>5. CASE UNCHANGED vars
  <2>1. UNCHANGED <<block, at, buf, memory, calls>>
    BY <1>5 DEF vars
  <2>2. /\ LastRun' = LastRun
        /\ \A i \in Call, s \in Side : Done(i, s)' = Done(i, s)
    BY <2>1 DEF LastRun, Done
  <2>3. Types' /\ Origins' /\ Signals'
    BY <2>1 DEF IInv, Types, Origins, From, Signals, Carries
  <2>4. Stamps'
    BY <2>1, <2>2 DEF IInv, Stamps
  <2>5. Garbage'
    BY <2>1, <2>2 DEF IInv, Garbage
  <2>6. Counts'
    BY <2>1, <2>2 DEF IInv, Counts
  <2>7. QED
    BY <2>3, <2>4, <2>5, <2>6 DEF IInv
<1>6. QED
  BY <1>1, <1>2, <1>3, <1>4, <1>5 DEF Next

(* The invariant holds in every state: the stamps of the buffers and the   *)
(* filters tell how far do_process() has come, and each of them carries    *)
(* the signal of its place in the tree.                                    *)
THEOREM IInvInvariant == Spec => []IInv
<1>1. Init => IInv
  BY InitIInv
<1>2. IInv /\ [Next]_vars => IInv'
  BY NextIInv
<1>3. QED
  BY <1>1, <1>2, PTL DEF Spec

(* Every value is of the kind its variable keeps: no filter of a split     *)
(* comes twice in a path, no path twice in a signal.                       *)
THEOREM TypeCorrect == Spec => []TypeOK
<1>1. IInv => TypeOK
  <2> SUFFICES ASSUME IInv PROVE TypeOK
    OBVIOUS
  <2>1. block \in 0..MaxBlock
    BY CrossoverAssumption DEF IInv, Types
  <2>2. at \in (0..(Len(Chains) + 1)) \X Side
    <3>1. Idle \in (0..17) \X Side /\ InTheSum \in (0..17) \X Side
      <4>1. Idle = <<0, "L">> /\ InTheSum = <<17, "L">>
        BY ChainsLemma DEF Idle, InTheSum
      <4>2. 0 \in 0..17 /\ 17 \in 0..17 /\ "L" \in Side
        BY DEF Side
      <4>3. QED
        BY <4>1, <4>2
    <3>2. Call \X Side \subseteq (0..17) \X Side
      BY DEF Call
    <3>3. QED
      BY <3>1, <3>2, ChainsLemma DEF IInv, Types
  <2>3. ASSUME NEW c, NEW s \in Side, From(c, s)
        PROVE  c.from \subseteq Side
    BY <2>3 DEF From
  <2>4. ASSUME NEW c, NEW S \in SUBSET Term, Carries(c, S)
        PROVE  DOMAIN c.terms \subseteq Term /\ \A m \in DOMAIN c.terms : c.terms[m] = 1
    BY <2>4 DEF Carries, SetToBag, EmptyBag
  <2>5. /\ {Straight} \in SUBSET Term /\ Flat \in SUBSET Term
        /\ \A i \in {0} \cup Call : Signal(i) \in SUBSET Term
    <3>1. Straight \in Term /\ Flat \in SUBSET Term
      BY DEF Straight, Term, Flat
    <3>2. \A c : Combined(c) \in SUBSET Term
      BY DEF Combined
    <3>3. QED
      BY <3>1, <3>2 DEF Signal
  <2>6. LastRun \in Nat /\ LastRun <= block /\ block \in Nat
    BY OwnLemma DEF IInv, Types, Content, LastRun, Side, Stamps
  <2>7. ASSUME NEW b \in Buffer
        PROVE  /\ buf[b].block \in 0..block
               /\ DOMAIN buf[b].terms \subseteq Term
               /\ \A m \in DOMAIN buf[b].terms : buf[b].terms[m] = 1
    <3>1. CASE \E s \in Side : b = <<"in", s>> \/ b = <<"out", s>>
      <4>1. buf[b].block = LastRun \/ buf[b].block = block
        BY <3>1 DEF IInv, Stamps
      <4>2. Carries(buf[b], {Straight}) \/ Carries(buf[b], Flat)
        BY <3>1 DEF IInv, Signals
      <4>3. QED
        BY <2>4, <2>5, <2>6, <4>1, <4>2
    <3>2. CASE \E i \in Call, s \in Side : b = Out(i, s)
      <4>1. PICK i \in Call, s \in Side : b = Out(i, s)
        BY <3>2
      <4>2. buf[b].block = LastRun \/ buf[b].block = block
        BY <4>1 DEF IInv, Stamps
      <4>3. Carries(buf[b], Signal(i))
        BY <4>1 DEF IInv, Signals
      <4>4. /\ DOMAIN buf[b].terms \subseteq Term
            /\ \A m \in DOMAIN buf[b].terms : buf[b].terms[m] = 1
        <5>1. Signal(i) \in SUBSET Term
          BY <2>5
        <5>2. QED
          BY <2>4, <4>3, <5>1
      <4>5. QED
        BY <2>6, <4>2, <4>4
    <3>3. QED
      BY <3>1, <3>2, OwnLemma
  <2>8. ASSUME NEW f \in Filter
        PROVE  /\ memory[f].block \in 0..block
               /\ DOMAIN memory[f].terms \subseteq Term
               /\ \A m \in DOMAIN memory[f].terms : memory[f].terms[m] = 1
    <3>1. PICK i \in Call, s \in Side : f = Object(i, s)
      BY OwnLemma
    <3>2. memory[f].block = buf[Out(i, s)].block
      BY <3>1 DEF IInv, Stamps
    <3>3. Carries(memory[f], Signal(Feed[i])) /\ Feed[i] \in {0} \cup Call
      BY <3>1, FeedLemma DEF IInv, Signals
    <3>4. QED
      BY <2>4, <2>5, <2>7, <3>2, <3>3, OwnLemma
  <2>9. /\ \A b \in Buffer : buf[b].from \subseteq Side /\ buf[b].dirty \in BOOLEAN
        /\ \A f \in Filter : memory[f].from \subseteq Side /\ memory[f].dirty \in BOOLEAN
    <3>1. /\ \A b \in Buffer : b[2] \in Side
          /\ \A f \in Filter : f[2] \in Side
      BY DEF Buffer, Filter
    <3>2. QED
      BY <2>3, <3>1 DEF IInv, Origins, Types, Content
  <2>10. calls \in [Filter -> Nat]
    BY DEF IInv, Types
  <2>11. QED
    BY <2>1, <2>2, <2>7, <2>8, <2>9, <2>10 DEF TypeOK
<1>2. QED
  BY <1>1, IInvInvariant, PTL

(* Whenever do_process() is done, the sum of its six bands is all products *)
(* of one filter per split, each once: the input but for its phase.        *)
THEOREM SumFlat == Spec => []SumIsFlat
<1>1. IInv => SumIsFlat
  <2> SUFFICES ASSUME IInv, Processed, NEW s \in Side
               PROVE  buf[<<"out", s>>].terms = SetToBag(Flat)
    BY DEF SumIsFlat, Flat
  <2>1. buf[<<"out", s>>].block = LastRun /\ LastRun > 0
    BY DEF IInv, Stamps, Processed, LastRun
  <2>2. Carries(buf[<<"out", s>>], Flat)
    BY DEF IInv, Signals
  <2>3. QED
    BY <2>1, <2>2 DEF Carries
<1>2. QED
  BY <1>1, IInvInvariant, PTL

(* All of a band has gone through the high pass of the cut below it and    *)
(* the low pass of the one above.                                          *)
THEOREM BandsInPlace == Spec => []BandsBetweenTheirCuts
<1>1. IInv => BandsBetweenTheirCuts
  <2> SUFFICES ASSUME IInv, Processed, NEW b \in Bands, NEW s \in Side,
                      NEW m \in DOMAIN buf[<<BandOut[b], s>>].terms
               PROVE  /\ b > 1 => m[Cut[b - 1]] = <<"hi">>
                      /\ b < Len(BandOut) => m[Cut[b]] = <<"lo">>
    BY DEF BandsBetweenTheirCuts
  <2>1. b \in 1..6 /\ Len(BandOut) = 6
    BY DEF Bands, BandOut
  <2>2. BandAt[b] \in Call /\ <<BandOut[b], s>> = Out(BandAt[b], s)
    BY <2>1, ChainsLemma DEF Out, BandAt, Call
  <2>3. buf[Out(BandAt[b], s)].block > 0
    <3>1. at = Idle /\ LastRun > 0
      BY DEF Processed, LastRun
    <3>2. ~Done(BandAt[b], s)
      BY <2>2, <3>1, AtEnds
    <3>3. QED
      BY <2>2, <3>1, <3>2 DEF IInv, Stamps
  <2>4. Carries(buf[Out(BandAt[b], s)], Signal(BandAt[b]))
    BY <2>2 DEF IInv, Signals
  <2>5. m \in Signal(BandAt[b])
    BY <2>2, <2>3, <2>4 DEF Carries, SetToBag
  <2>6. /\ BandAt[1] = 5 /\ BandAt[2] = 6 /\ BandAt[3] = 9 /\ BandAt[4] = 10
        /\ BandAt[5] = 15 /\ BandAt[6] = 16
        /\ Cut[1] = 3 /\ Cut[2] = 1 /\ Cut[3] = 4 /\ Cut[4] = 0 /\ Cut[5] = 2
    BY DEF BandAt, Cut
  <2>7. b = 1 \/ b = 2 \/ b = 3 \/ b = 4 \/ b = 5 \/ b = 6
    BY <2>1
  <2>8. QED
    BY <2>1, <2>5, <2>6, <2>7, BandSignals
<1>2. QED
  BY <1>1, IInvInvariant, PTL

(* No sample of the left channel gets into the right one or the other way  *)
(* round, and when do_process() is done all its buffers are of one block,  *)
(* also when blocks have been bypassed.                                    *)
THEOREM ChannelsKeptApart == Spec => []ChannelsApart
<1>1. IInv => ChannelsApart
  <2> SUFFICES ASSUME IInv PROVE ChannelsApart
    OBVIOUS
  <2>1. \A b \in Buffer : buf[b].from \subseteq {b[2]}
    BY DEF IInv, Origins, From
  <2>2. ASSUME Processed, NEW b \in Buffer
        PROVE  buf[b].block = LastRun
    <3>1. at = Idle
      BY <2>2 DEF Processed
    <3>2. \A s \in Side : /\ buf[<<"out", s>>].block = LastRun
                          /\ buf[<<"in", s>>].block = LastRun
      BY <3>1 DEF IInv, Stamps
    <3>3. ASSUME NEW i \in Call, NEW s \in Side
          PROVE  buf[Out(i, s)].block = LastRun
      <4>1. ~Done(i, s)
        BY <3>1, AtEnds
      <4>2. buf[Out(i, s)].block = IF Done(i, s) THEN block ELSE LastRun
        BY DEF IInv, Stamps
      <4>3. QED
        BY <4>1, <4>2
    <3>4. \/ \E s \in Side : b = <<"in", s>> \/ b = <<"out", s>>
          \/ \E i \in Call, s \in Side : b = Out(i, s)
      BY OwnLemma
    <3>5. QED
      BY <3>2, <3>3, <3>4
  <2>3. QED
    BY <2>1, <2>2 DEF ChannelsApart
<1>2. QED
  BY <1>1, IInvInvariant, PTL

(* Garbage in the memory of a new filter is in the sum of its own channel  *)
(* after every block, and in no other.                                     *)
THEOREM GarbageStaysInChannel == Spec => []GarbageKeepsToItsChannel
<1>1. IInv => GarbageKeepsToItsChannel
  BY DEF IInv, Garbage, GarbageKeepsToItsChannel, Processed, LastRun
<1>2. QED
  BY <1>1, IInvInvariant, PTL

(* When do_process() has returned each filter has been called once: none   *)
(* is left out and none called twice, and all of them have come to the     *)
(* block the sum is of.                                                    *)
THEOREM EachCalledOnce == Spec => []CalledOnce
<1>1. IInv => CalledOnce
  <2> SUFFICES ASSUME IInv, Processed, NEW f \in Filter
               PROVE  calls[f] = 1 /\ memory[f].block = buf[<<"out", "L">>].block
    BY DEF CalledOnce
  <2>1. at = Idle /\ LastRun > 0
    BY DEF Processed, LastRun
  <2>2. PICK i \in Call, s \in Side : f = Object(i, s)
    BY OwnLemma
  <2>3. calls[f] = 1
    BY <2>1, <2>2 DEF IInv, Counts
  <2>4. ~Done(i, s)
    BY <2>1, AtEnds
  <2>5. memory[f].block = LastRun
    BY <2>2, <2>4 DEF IInv, Stamps
  <2>6. QED
    BY <2>3, <2>5 DEF LastRun
<1>2. QED
  BY <1>1, IInvInvariant, PTL

(* Each call of a filter goes on with the stream of its first call, for a  *)
(* block it has not seen.                                                  *)
THEOREM OneStream == Spec => OneStreamPerFilter
<1>1. ASSUME IInv, [Next]_vars, NEW f \in Filter,
             calls'[f] > calls[f], memory[f].block > 0
      PROVE  /\ memory'[f].block = block /\ memory[f].block < block
             /\ memory'[f].terms = memory[f].terms
             /\ memory'[f].from = memory[f].from
  <2>1. PICK i \in Call, s \in Side : Process(i, s)
    <3>1. calls[f] \in Nat
      BY <1>1 DEF IInv, Types
    <3>2. ~(calls' = calls)
      BY <1>1, <3>1
    <3>3. ~Begin
      <4>1. ~(0 > calls[f])
        BY <3>1
      <4>2. Begin => calls'[f] = 0
        BY DEF Begin
      <4>3. QED
        BY <1>1, <4>1, <4>2
    <3>4. \E i \in DOMAIN Chains, s \in Side : Process(i, s)
      BY <1>1, <3>2, <3>3 DEF Next, Bypassed, SumBands, vars
    <3>5. QED
      BY <3>4, ChainsLemma DEF Call
  <2> DEFINE x     == buf[In(i, s)]
             dirty == x.dirty \/ memory[Object(i, s)].dirty
  <2>2. /\ at = <<i, s>>
        /\ memory' = [memory EXCEPT ![Object(i, s)] = [x EXCEPT !.dirty = dirty]]
        /\ calls' = [calls EXCEPT ![Object(i, s)] = @ + 1]
    BY <2>1 DEF Process, In
  <2>3. memory = [g \in Filter |-> memory[g]] /\ Content(x)
    BY <1>1, OwnLemma DEF IInv, Types
  <2>4. f = Object(i, s) /\ memory'[f] = [x EXCEPT !.dirty = dirty]
    <3>1. calls \in [Filter -> Nat]
      BY <1>1 DEF IInv, Types
    <3>2. f # Object(i, s) => calls'[f] = calls[f]
      BY <2>2, <3>1
    <3>3. f = Object(i, s)
      BY <1>1, <3>1, <3>2
    <3>4. QED
      BY <2>2, <2>3, <3>3
  <2>5. /\ memory'[f].block = x.block /\ memory'[f].terms = x.terms
        /\ memory'[f].from = x.from
    BY <2>3, <2>4 DEF Content
  <2> HIDE DEF dirty
  <2>6. x.block = block /\ memory[f].block = LastRun /\ LastRun < block /\ block > 0
    BY <1>1, <2>2, <2>4, CallLemma
  <2>7. memory[f].terms = x.terms
    <3>1. x.terms = SetToBag(Signal(Feed[i]))
      BY <1>1, <2>2, CallReads
    <3>2. Carries(memory[f], Signal(Feed[i]))
      BY <1>1, <2>4 DEF IInv, Signals
    <3>3. QED
      BY <1>1, <3>1, <3>2 DEF Carries
  <2>8. memory[f].from = x.from
    <3>1. In(i, s)[2] = s /\ f[2] = s /\ In(i, s) \in Buffer
      BY <2>4, OwnLemma DEF In, Object
    <3>2. From(x, s) /\ From(memory[f], s)
      BY <1>1, <3>1 DEF IInv, Origins
    <3>3. QED
      BY <1>1, <2>6, <3>2 DEF From
  <2>9. QED
    BY <2>5, <2>6, <2>7, <2>8
<1>2. IInv /\ [Next]_vars =>
        [\A f \in Filter : calls'[f] > calls[f] /\ memory[f].block > 0 =>
           /\ memory'[f].block = block /\ memory[f].block < block
           /\ memory'[f].terms = memory[f].terms
           /\ memory'[f].from = memory[f].from]_vars
  BY <1>1
<1>3. QED
  BY <1>2, IInvInvariant, PTL DEF Spec, OneStreamPerFilter

=============================================================================
