------------------------- MODULE ProcessorCoreProofs -------------------------
(***************************************************************************)
(* Proofs about the signal chain, for any number of bands: the buffers are *)
(* wired to the right places, every plugin runs after those it reads from, *)
(* what is played is as old as the delay that is set, and switches thrown  *)
(* in mid-block take effect as a whole or not at all.                      *)
(***************************************************************************)
EXTENDS ProcessorCore, SequenceTheorems, WellFoundedInduction, TLAPS

-----------------------------------------------------------------------------
(* Plugins and buffers.                                                    *)

LEMMA Constants ==
  /\ NBands \in Nat \ {0}
  /\ MaxAge \in Nat \ {0}
  /\ MaxDelay \in Nat
  /\ Folds \subseteq BOOLEAN
  /\ \A b \in Band : b \in Nat /\ b < NBands
BY CoreAssumption DEF Band

LEMMA Outputs ==
  /\ \A p \in Meter : NumOut(p) = 6
  /\ NumOut(AgcFront) = 6
  /\ NumOut(Crossover) = 2 * NBands + 2
  /\ NumOut(CompLim) = 3 * NBands + 2
  /\ NumOut(Jack) = 4
  /\ \A p \in {GainInput, Hpf, PhaseRotator, StereoEnhance, BassEnhancer,
               PrecompEq, Delay} : NumOut(p) = 2
  /\ \A p \in Plugin : NumOut(p) \in Nat /\ NumOut(p) >= 2
<1> USE Constants DEF MeterAux, AgcAux, CrossoverAux, CompLimAux
<1>2. \A p \in Meter : p[1] \in {"METER_MAIN_IN", "METER_POST_INPUT",
        "METER_MAIN_OUT", "METER_POST_CROSSOVER", "METER_POST_COMPLIM"}
  BY DEF Meter, MeterMainIn, MeterPostGain, MeterMainOut, MeterPre, MeterPost
<1>1. \A p \in Meter : NumOut(p) = 6
  BY <1>2 DEF NumOut, AgcFront, Crossover, CompLim, Jack
<1>3. NumOut(AgcFront) = 6 /\ NumOut(Crossover) = 2 * NBands + 2
      /\ NumOut(CompLim) = 3 * NBands + 2 /\ NumOut(Jack) = 4
  BY <1>2 DEF NumOut, AgcFront, Crossover, CompLim, Jack
<1>4. \A p \in {GainInput, Hpf, PhaseRotator, StereoEnhance, BassEnhancer,
               PrecompEq, Delay} : NumOut(p) = 2
  BY <1>2 DEF NumOut, AgcFront, Crossover, CompLim, Jack, GainInput, Hpf,
              PhaseRotator, StereoEnhance, BassEnhancer, PrecompEq, Delay
<1>5. \A p \in Plugin : NumOut(p) \in Nat /\ NumOut(p) >= 2
  BY <1>1, <1>3, <1>4 DEF Plugin
<1>6. QED
  BY <1>1, <1>3, <1>4, <1>5

LEMMA InBuffer ==
  /\ \A p \in Plugin \cup {Jack}, i \in Nat :
       <<p, i>> \in Buffer <=> i < NumOut(p)
  /\ \A b \in Buffer : /\ b = <<b[1], b[2]>>
                       /\ b[1] \in Plugin \cup {Jack}
                       /\ b[2] \in 0..(NumOut(b[1]) - 1)
<1>1. \A p \in Plugin \cup {Jack} : NumOut(p) \in Nat
  BY Outputs
<1>2. QED
  BY <1>1 DEF Buffer

LEMMA GetOutputLemma ==
  ASSUME NEW p \in Plugin \cup {Jack}
  PROVE  /\ GetOutput(p)[1] = <<p, 0>> /\ GetOutput(p)[2] = <<p, 1>>
         /\ \A i \in 1..NumOut(p) : GetOutput(p)[i] = <<p, i - 1>>
<1>1. NumOut(p) \in Nat /\ NumOut(p) >= 2
  BY Outputs
<1>2. QED
  BY <1>1 DEF GetOutput

LEMMA AuxLemma ==
  ASSUME NEW p \in Plugin, NEW start \in Nat, NEW count \in Nat,
         2 + start + count <= NumOut(p)
  PROVE  /\ AuxOutputBufs(p, start, count) \in Seq({p} \X Nat)
         /\ Len(AuxOutputBufs(p, start, count)) = count
         /\ \A i \in 1..count :
              AuxOutputBufs(p, start, count)[i] = <<p, 1 + start + i>>
<1> DEFINE out == GetOutput(p)
           m == 3 + start
           n == 2 + start + count
<1>1. NumOut(p) \in Nat /\ m \in Int /\ n \in Int
  BY Outputs
<1>2. \A i \in m..n : out[i] = <<p, i - 1>> /\ i - 1 \in Nat
  BY <1>1, GetOutputLemma
<1> HIDE DEF out
<1>3. \A i \in m..n : out[i] \in {p} \X Nat
  BY <1>2
<1>4. /\ SubSeq(out, m, n) \in Seq({p} \X Nat)
      /\ Len(SubSeq(out, m, n)) = IF m <= n THEN n - m + 1 ELSE 0
      /\ \A i \in 1..(n - m + 1) : SubSeq(out, m, n)[i] = out[m + i - 1]
  <2> HIDE DEF m, n
  <2>1. QED
    BY <1>1, <1>3, SubSeqProperties
<1>5. n - m + 1 = count /\ (m <= n <=> count # 0)
  BY <1>1
<1>6. \A i \in 1..count : m + i - 1 \in m..n /\ (m + i - 1) - 1 = 1 + start + i
  BY <1>1
<1>7. Len(SubSeq(out, m, n)) = count
  BY <1>4, <1>5
<1>8. \A i \in 1..count : SubSeq(out, m, n)[i] = <<p, 1 + start + i>>
  BY <1>2, <1>4, <1>5, <1>6
<1>9. QED
  BY <1>4, <1>7, <1>8 DEF AuxOutputBufs, out, m, n

LEMMA AuxPairLemma ==
  ASSUME NEW p \in Plugin, NEW start \in Nat, start + 4 <= NumOut(p)
  PROVE  /\ AuxOutputBufs(p, start, 2) \in Seq({p} \X Nat)
         /\ Len(AuxOutputBufs(p, start, 2)) = 2
         /\ AuxOutputBufs(p, start, 2)[1] = <<p, 2 + start>>
         /\ AuxOutputBufs(p, start, 2)[2] = <<p, 3 + start>>
<1> DEFINE n == 2
<1>1. n \in Nat /\ 2 + start + n <= NumOut(p)
  BY Outputs
<1>2. 1 \in 1..n /\ 2 \in 1..n /\ 1 + start + 1 = 2 + start
      /\ 1 + start + 2 = 3 + start
  OBVIOUS
<1> HIDE DEF n
<1>3. /\ AuxOutputBufs(p, start, n) \in Seq({p} \X Nat)
      /\ Len(AuxOutputBufs(p, start, n)) = n
      /\ \A i \in 1..n : AuxOutputBufs(p, start, n)[i] = <<p, 1 + start + i>>
  BY <1>1, AuxLemma
<1>4. /\ AuxOutputBufs(p, start, n)[1] = <<p, 2 + start>>
      /\ AuxOutputBufs(p, start, n)[2] = <<p, 3 + start>>
  BY <1>2, <1>3
<1>5. QED
  BY <1>3, <1>4 DEF n

-----------------------------------------------------------------------------
(* The wiring.                                                             *)

Pair(p, i) == <<<<p, i>>, <<p, i + 1>>>>

Simple == {GainInput, MeterPostGain, Hpf, PhaseRotator, StereoEnhance,
           BassEnhancer, PrecompEq, Crossover, Delay, MeterMainOut}

LEMMA MainWiringLemma ==
  /\ DOMAIN MainWiring = Plugin
  /\ \A p \in Simple \cup {AgcFront, CompLim} :
       MainWiring[p] = Pair(InputOf[p], 0)
  /\ \A b \in Band : /\ MainWiring[MeterPre(b)] = Pair(Crossover, 2 + 2 * b)
                     /\ MainWiring[MeterPost(b)] = Pair(CompLim, 2 + 2 * b)
  /\ MainWiring[MeterMainIn] = Unwired
<1>1. DOMAIN InputOf = Simple \cup {AgcFront, CompLim}
  BY DEF InputOf, Simple
<1>2. Simple \cup {AgcFront, CompLim} \subseteq Plugin
  BY DEF Simple, Plugin, Meter
<1>3. \A p \in DOMAIN InputOf : InputOf[p] \in Plugin
  BY DEF InputOf, Plugin, Meter
<1>4. \A p \in DOMAIN InputOf : MainWiring[p] = Pair(InputOf[p], 0)
  <2>1. ASSUME NEW p \in DOMAIN InputOf
        PROVE  MainWiring[p] = SetInput(GetOutput(InputOf[p]))
    <3>1. p[1] # "METER_POST_CROSSOVER" /\ p[1] # "METER_POST_COMPLIM"
      BY <1>1 DEF Simple, GainInput, MeterPostGain, Hpf, PhaseRotator, AgcFront,
         StereoEnhance, BassEnhancer, PrecompEq, Crossover, CompLim, Delay,
         MeterMainOut
    <3>2. QED
      BY <1>1, <1>2, <3>1 DEF MainWiring
  <2>2. \A p \in DOMAIN InputOf :
          SetInput(GetOutput(InputOf[p])) = Pair(InputOf[p], 0)
    BY <1>3, GetOutputLemma DEF SetInput, Pair
  <2>3. QED
    BY <2>1, <2>2
<1>5. ASSUME NEW b \in Band
      PROVE  /\ MainWiring[MeterPre(b)] = Pair(Crossover, 2 + 2 * b)
             /\ MainWiring[MeterPost(b)] = Pair(CompLim, 2 + 2 * b)
  <2>1. b \in Nat /\ 2 * b \in Nat /\ 2 + 2 * b + 2 <= 2 * NBands + 2
        /\ 2 + 2 * b + 2 <= 3 * NBands + 2
    BY Constants
  <2>2. Crossover \in Plugin /\ CompLim \in Plugin
        /\ MeterPre(b) \in Plugin /\ MeterPost(b) \in Plugin
    BY DEF Plugin, Meter
  <2>3. SetInput(AuxOutputBufs(Crossover, 2 * b, 2)) = Pair(Crossover, 2 + 2 * b)
    <3>1. 2 * b + 4 <= NumOut(Crossover)
      BY <2>1, Outputs, Constants
    <3>2. /\ AuxOutputBufs(Crossover, 2 * b, 2)[1] = <<Crossover, 2 + 2 * b>>
          /\ AuxOutputBufs(Crossover, 2 * b, 2)[2] = <<Crossover, 3 + 2 * b>>
      BY <2>1, <2>2, <3>1, AuxPairLemma
    <3>3. 3 + 2 * b = 2 + 2 * b + 1
      BY <2>1
    <3>4. QED
      BY <3>2, <3>3 DEF SetInput, Pair
  <2>4. SetInput(AuxOutputBufs(CompLim, 2 * b, 2)) = Pair(CompLim, 2 + 2 * b)
    <3>1. 2 * b + 4 <= NumOut(CompLim)
      BY <2>1, Outputs, Constants
    <3>2. /\ AuxOutputBufs(CompLim, 2 * b, 2)[1] = <<CompLim, 2 + 2 * b>>
          /\ AuxOutputBufs(CompLim, 2 * b, 2)[2] = <<CompLim, 3 + 2 * b>>
      BY <2>1, <2>2, <3>1, AuxPairLemma
    <3>3. 3 + 2 * b = 2 + 2 * b + 1
      BY <2>1
    <3>4. QED
      BY <3>2, <3>3 DEF SetInput, Pair
  <2>5. MeterPre(b) \notin DOMAIN InputOf /\ MeterPost(b) \notin DOMAIN InputOf
    BY <1>1 DEF Simple, GainInput, MeterPostGain, Hpf, PhaseRotator, AgcFront,
       StereoEnhance, BassEnhancer, PrecompEq, Crossover, CompLim, Delay,
       MeterMainOut, MeterPre, MeterPost
  <2>6. MainWiring[MeterPre(b)] = SetInput(AuxOutputBufs(Crossover, 2 * b, 2))
    BY <2>2, <2>5 DEF MainWiring, MeterPre
  <2>7. MainWiring[MeterPost(b)] = SetInput(AuxOutputBufs(CompLim, 2 * b, 2))
    BY <2>2, <2>5 DEF MainWiring, MeterPost
  <2>8. QED
    BY <2>3, <2>4, <2>6, <2>7
<1>6. MainWiring[MeterMainIn] = Unwired
  <2>1. MeterMainIn \in Plugin
    BY DEF Plugin, Meter
  <2>2. MeterMainIn \notin DOMAIN InputOf
    BY <1>1 DEF Simple, GainInput, MeterPostGain, Hpf, PhaseRotator, AgcFront,
       StereoEnhance, BassEnhancer, PrecompEq, Crossover, CompLim, Delay,
       MeterMainOut, MeterMainIn
  <2>3. QED
    BY <2>1, <2>2 DEF MainWiring, MeterMainIn
<1>7. QED
  BY <1>1, <1>4, <1>5, <1>6 DEF MainWiring

Source == (Plugin \cup {Jack}) \X Nat

LEMMA BandLevelsLemma ==
  /\ BandLevels \in Seq(Source) /\ Len(BandLevels) = 2 * NBands
  /\ \A b \in Band, s \in 0..1 :
       BandLevels[2 * b + s + 1] = <<MeterPre(b), 4 + s>>
<1>1. ASSUME NEW b \in Band, NEW s \in 0..1
      PROVE  LogLevel(b, s) = <<MeterPre(b), 4 + s>>
             /\ MeterPre(b) \in Plugin
  <2>1. MeterPre(b) \in Meter /\ MeterPre(b) \in Plugin
    BY DEF Meter, Plugin
  <2> DEFINE start == 2
  <2>2. start \in Nat /\ start + 4 <= NumOut(MeterPre(b))
    BY <2>1, Outputs
  <2> HIDE DEF start
  <2>3. /\ AuxOutputBufs(MeterPre(b), start, 2)[1] = <<MeterPre(b), 2 + start>>
        /\ AuxOutputBufs(MeterPre(b), start, 2)[2] = <<MeterPre(b), 3 + start>>
    BY <2>1, <2>2, AuxPairLemma
  <2>4. CASE s = 0
    BY <2>1, <2>3, <2>4 DEF start, LogLevel
  <2>5. CASE s = 1
    BY <2>1, <2>3, <2>5 DEF start, LogLevel
  <2>6. QED
    BY <2>4, <2>5
<1>2. BandLevels = [k \in 1..(2 * NBands) |->
                      LogLevel((k - 1) \div 2, (k - 1) % 2)]
  BY DEF BandLevels
<1>3. ASSUME NEW k \in 1..(2 * NBands)
      PROVE  LogLevel((k - 1) \div 2, (k - 1) % 2) \in Source
  <2> DEFINE b == (k - 1) \div 2
             s == (k - 1) % 2
  <2>1. b \in Band /\ s \in 0..1
    BY Constants DEF Band
  <2> HIDE DEF b, s
  <2>2. LogLevel(b, s) = <<MeterPre(b), 4 + s>> /\ MeterPre(b) \in Plugin
    BY <1>1, <2>1
  <2>3. 4 + s \in Nat
    BY <2>1
  <2>4. LogLevel(b, s) \in Source
    BY <2>2, <2>3 DEF Source
  <2>5. QED
    BY <2>4 DEF b, s
<1>4. ASSUME NEW b \in Band, NEW s \in 0..1
      PROVE  BandLevels[2 * b + s + 1] = <<MeterPre(b), 4 + s>>
  <2> DEFINE k == 2 * b + s + 1
  <2>1. k \in 1..(2 * NBands)
    BY Constants DEF Band
  <2>2. (k - 1) \div 2 = b /\ (k - 1) % 2 = s
    BY Constants
  <2> HIDE DEF k
  <2>3. BandLevels[k] = LogLevel((k - 1) \div 2, (k - 1) % 2)
    BY <1>2, <2>1
  <2>4. BandLevels[k] = <<MeterPre(b), 4 + s>>
    BY <1>1, <2>2, <2>3
  <2>5. QED
    BY <2>4 DEF k
<1>5. 2 * NBands \in Nat
  BY Constants
<1>6. BandLevels \in [1..(2 * NBands) -> Source]
  BY <1>2, <1>3
<1>7. BandLevels \in Seq(Source) /\ Len(BandLevels) = 2 * NBands
  BY <1>5, <1>6, SeqDef
<1>8. QED
  BY <1>4, <1>7

(* What the plugins read, as the constructor leaves it.                    *)
LEMMA WiringLemma ==
  /\ DOMAIN Wiring = Plugin
  /\ \A p \in Plugin \ {AgcFront, CompLim} : Wiring[p] = MainWiring[p]
  /\ Wiring[AgcFront] \in Seq(Source) /\ Len(Wiring[AgcFront]) = 6
  /\ Wiring[CompLim] \in Seq(Source)
  /\ Len(Wiring[CompLim]) = 4 + 4 * NBands
  /\ \A s \in 0..1 : /\ Wiring[AgcFront][1 + s] = <<PhaseRotator, s>>
                     /\ Wiring[CompLim][1 + s] = <<Crossover, s>>
  /\ \A i \in 2..5 : Wiring[AgcFront][i + 1] = <<MeterPostGain, i>>
  /\ \A b \in Band, s \in 0..1 :
       /\ Wiring[CompLim][2 + 2 * b + s + 1] = <<Crossover, 2 + 2 * b + s>>
       /\ Wiring[CompLim][2 + 2 * NBands + 2 * b + s + 1]
            = <<MeterPre(b), 4 + s>>
  /\ \A s \in 0..1 :
       Wiring[CompLim][2 + 4 * NBands + s + 1] = <<AgcFront, 4 + s>>
<1>1. /\ AgcFront \in Plugin /\ CompLim \in Plugin /\ MeterPostGain \in Plugin
      /\ Crossover \in Plugin /\ PhaseRotator \in Plugin
      /\ MeterPostGain \in Meter /\ AgcFront # CompLim
  BY DEF Plugin, Meter, AgcFront, CompLim
<1> DEFINE A == AllAuxOutputBufs(MeterPostGain)
           C == AllAuxOutputBufs(Crossover)
           X == AuxOutputBufs(AgcFront, 2, 2)
           L == BandLevels
<1>2. /\ DOMAIN Wiring = Plugin
      /\ \A p \in Plugin \ {AgcFront, CompLim} : Wiring[p] = MainWiring[p]
      /\ Wiring[AgcFront] = SetAuxInputBufs(MainWiring[AgcFront], A)
      /\ Wiring[CompLim] = AppendAuxInputBufs(AppendAuxInputBufs(
                             SetAuxInputBufs(MainWiring[CompLim], C), L), X)
  BY <1>1, MainWiringLemma DEF Wiring
<1>3. MainWiring[AgcFront] = Pair(PhaseRotator, 0)
      /\ MainWiring[CompLim] = Pair(Crossover, 0)
  <2>1. InputOf[AgcFront] = PhaseRotator /\ InputOf[CompLim] = Crossover
    BY DEF InputOf, GainInput, MeterPostGain, Hpf, PhaseRotator, AgcFront,
         StereoEnhance, BassEnhancer, PrecompEq, Crossover, CompLim, Delay,
         MeterMainOut
  <2>2. QED
    BY <2>1, MainWiringLemma
<1>4. ASSUME NEW p \in Plugin, NEW n \in Nat, NumOut(p) = 2 + n
      PROVE  /\ AllAuxOutputBufs(p) = AuxOutputBufs(p, 0, n)
             /\ AllAuxOutputBufs(p) \in Seq(Source)
             /\ Len(AllAuxOutputBufs(p)) = n
             /\ \A i \in 1..n : AllAuxOutputBufs(p)[i] = <<p, 1 + i>>
  <2>1. AllAuxOutputBufs(p) = AuxOutputBufs(p, 0, n)
    BY <1>4 DEF AllAuxOutputBufs, AuxOutputBufs
  <2>2. /\ AuxOutputBufs(p, 0, n) \in Seq({p} \X Nat)
        /\ Len(AuxOutputBufs(p, 0, n)) = n
        /\ \A i \in 1..n : AuxOutputBufs(p, 0, n)[i] = <<p, 1 + 0 + i>>
    BY <1>4, AuxLemma, SMTT(30)
  <2>3. AuxOutputBufs(p, 0, n) \in Seq(Source)
    <3>1. {p} \X Nat \subseteq Source
      BY DEF Source
    <3>2. QED
      BY <2>2, <3>1, SeqMonotonic
  <2>4. QED
    BY <2>1, <2>2, <2>3
<1>5. /\ A \in Seq(Source) /\ Len(A) = 4
      /\ \A i \in 1..4 : A[i] = <<MeterPostGain, 1 + i>>
  <2>1. NumOut(MeterPostGain) = 2 + 4 /\ 4 \in Nat
    BY <1>1, Outputs
  <2> HIDE DEF A
  <2>2. QED
    BY <1>1, <1>4, <2>1 DEF A
<1>6. /\ C \in Seq(Source) /\ Len(C) = 2 * NBands
      /\ \A i \in 1..(2 * NBands) : C[i] = <<Crossover, 1 + i>>
  <2>1. NumOut(Crossover) = 2 + 2 * NBands /\ 2 * NBands \in Nat
    BY Outputs, Constants
  <2>2. QED
    BY <1>1, <1>4, <2>1
<1>7. /\ X \in Seq(Source) /\ Len(X) = 2
      /\ \A s \in 0..1 : X[s + 1] = <<AgcFront, 4 + s>>
  <2>1. /\ X \in Seq({AgcFront} \X Nat) /\ Len(X) = 2
        /\ X[1] = <<AgcFront, 4>> /\ X[2] = <<AgcFront, 5>>
    <3> DEFINE start == 2
    <3>1. start \in Nat /\ start + 4 <= NumOut(AgcFront)
      BY Outputs
    <3> HIDE DEF start, X
    <3>2. X = AuxOutputBufs(AgcFront, start, 2)
      BY DEF start, X
    <3>3. /\ X \in Seq({AgcFront} \X Nat) /\ Len(X) = 2
          /\ X[1] = <<AgcFront, 2 + start>> /\ X[2] = <<AgcFront, 3 + start>>
      BY <1>1, <3>1, <3>2, AuxPairLemma
    <3>4. QED
      BY <3>3 DEF start
  <2>2. {AgcFront} \X Nat \subseteq Source
    BY <1>1 DEF Source
  <2>3. QED
    BY <2>1, <2>2, SeqMonotonic
<1>8. /\ L \in Seq(Source) /\ Len(L) = 2 * NBands
      /\ \A b \in Band, s \in 0..1 : L[2 * b + s + 1] = <<MeterPre(b), 4 + s>>
  BY BandLevelsLemma
<1> HIDE DEF A, C, X, L
<1>9. ASSUME NEW p \in Plugin, NEW s \in Seq(Source)
      PROVE  /\ SetAuxInputBufs(Pair(p, 0), s) \in Seq(Source)
             /\ Len(SetAuxInputBufs(Pair(p, 0), s)) = 2 + Len(s)
             /\ SetAuxInputBufs(Pair(p, 0), s)[1] = <<p, 0>>
             /\ SetAuxInputBufs(Pair(p, 0), s)[2] = <<p, 1>>
             /\ \A i \in 1..Len(s) :
                  SetAuxInputBufs(Pair(p, 0), s)[2 + i] = s[i]
  <2> DEFINE two == Pair(p, 0)
  <2>1. two \in Seq(Source) /\ Len(two) = 2 /\ two[1] = <<p, 0>> /\ two[2] = <<p, 1>>
    BY DEF Pair, Source
  <2> HIDE DEF two
  <2>2. SubSeq(two, 1, 2) = two
    BY <2>1, SubSeqFull
  <2>3. /\ two \o s \in Seq(Source) /\ Len(two \o s) = Len(two) + Len(s)
        /\ \A i \in 1..(Len(two) + Len(s)) :
             (two \o s)[i] = IF i <= Len(two) THEN two[i] ELSE s[i - Len(two)]
    BY <2>1, ConcatProperties
  <2>4. Len(s) \in Nat
    BY LenProperties
  <2>5. ASSUME NEW i \in 1..Len(s)
        PROVE  (two \o s)[2 + i] = s[i]
    <3>1. 2 + i \in 1..(Len(two) + Len(s)) /\ ~(2 + i <= 2) /\ (2 + i) - 2 = i
      BY <2>1, <2>4
    <3>2. QED
      BY <2>1, <2>3, <3>1
  <2>6. (two \o s)[1] = <<p, 0>> /\ (two \o s)[2] = <<p, 1>>
    BY <2>1, <2>3, <2>4
  <2>7. QED
    BY <2>1, <2>2, <2>3, <2>5, <2>6 DEF two, SetAuxInputBufs
<1>10. /\ Wiring[AgcFront] \in Seq(Source) /\ Len(Wiring[AgcFront]) = 6
       /\ \A s \in 0..1 : Wiring[AgcFront][1 + s] = <<PhaseRotator, s>>
       /\ \A i \in 2..5 : Wiring[AgcFront][i + 1] = <<MeterPostGain, i>>
  <2> DEFINE W == SetAuxInputBufs(Pair(PhaseRotator, 0), A)
  <2>1. /\ W \in Seq(Source) /\ Len(W) = 6
        /\ W[1] = <<PhaseRotator, 0>> /\ W[2] = <<PhaseRotator, 1>>
        /\ \A i \in 1..4 : W[2 + i] = A[i]
    <3>1. A \in Seq(Source) /\ PhaseRotator \in Plugin /\ Len(A) = 4
      BY <1>1, <1>5
    <3> HIDE DEF W
    <3>2. /\ W \in Seq(Source) /\ Len(W) = 2 + Len(A)
          /\ W[1] = <<PhaseRotator, 0>> /\ W[2] = <<PhaseRotator, 1>>
          /\ \A i \in 1..Len(A) : W[2 + i] = A[i]
      BY <1>9, <3>1 DEF W
    <3>3. QED
      BY <3>1, <3>2
  <2> HIDE DEF W
  <2>2. \A i \in 2..5 : W[i + 1] = <<MeterPostGain, i>>
    <3>1. \A i \in 2..5 : i - 1 \in 1..4 /\ 2 + (i - 1) = i + 1 /\ 1 + (i - 1) = i
      OBVIOUS
    <3>2. QED
      BY <1>5, <2>1, <3>1
  <2>3. Wiring[AgcFront] = W
    BY <1>2, <1>3 DEF W
  <2>4. QED
    BY <2>1, <2>2, <2>3
<1> DEFINE V == SetAuxInputBufs(Pair(Crossover, 0), C)
           U == V \o L
           W == U \o X
<1>11. /\ V \in Seq(Source) /\ Len(V) = 2 + 2 * NBands
       /\ V[1] = <<Crossover, 0>> /\ V[2] = <<Crossover, 1>>
       /\ \A i \in 1..(2 * NBands) : V[2 + i] = <<Crossover, 1 + i>>
  <2>1. C \in Seq(Source) /\ Crossover \in Plugin /\ Len(C) = 2 * NBands
    BY <1>1, <1>6
  <2> HIDE DEF V
  <2>2. /\ V \in Seq(Source) /\ Len(V) = 2 + Len(C)
        /\ V[1] = <<Crossover, 0>> /\ V[2] = <<Crossover, 1>>
        /\ \A i \in 1..Len(C) : V[2 + i] = C[i]
    BY <1>9, <2>1 DEF V
  <2>3. QED
    BY <1>6, <2>1, <2>2
<1>12. Wiring[CompLim] = W
  BY <1>2, <1>3 DEF AppendAuxInputBufs
<1> HIDE DEF V
<1>13. /\ U \in Seq(Source) /\ Len(U) = Len(V) + Len(L)
       /\ \A i \in 1..(Len(V) + Len(L)) :
            U[i] = IF i <= Len(V) THEN V[i] ELSE L[i - Len(V)]
  BY <1>8, <1>11, ConcatProperties
<1> HIDE DEF U
<1>14. /\ W \in Seq(Source) /\ Len(W) = Len(U) + Len(X)
       /\ \A i \in 1..(Len(U) + Len(X)) :
            W[i] = IF i <= Len(U) THEN U[i] ELSE X[i - Len(U)]
  <2>1. U \in Seq(Source) /\ X \in Seq(Source)
    BY <1>7, <1>13
  <2>2. QED
    BY <2>1, ConcatProperties
<1> HIDE DEF W
<1>15. Len(V) = 2 + 2 * NBands /\ Len(U) = 2 + 4 * NBands
       /\ Len(W) = 4 + 4 * NBands /\ NBands \in Nat \ {0}
  BY <1>7, <1>8, <1>11, <1>13, <1>14, Constants
<1>16. \A i \in 1..(2 + 2 * NBands) : W[i] = V[i]
  <2>1. ASSUME NEW i \in 1..(2 + 2 * NBands)
        PROVE  W[i] = V[i]
    <3>1. /\ i \in 1..(Len(V) + Len(L)) /\ i <= Len(V)
          /\ i \in 1..(Len(U) + Len(X)) /\ i <= Len(U)
      BY <1>7, <1>8, <1>15
    <3>2. QED
      BY <1>13, <1>14, <3>1
  <2>2. QED
    BY <2>1
<1>17. \A s \in 0..1 : W[1 + s] = <<Crossover, s>>
  BY <1>11, <1>15, <1>16
<1>18. ASSUME NEW b \in Band, NEW s \in 0..1
       PROVE  /\ W[2 + 2 * b + s + 1] = <<Crossover, 2 + 2 * b + s>>
              /\ W[2 + 2 * NBands + 2 * b + s + 1] = <<MeterPre(b), 4 + s>>
  <2>1. /\ b \in Nat /\ b < NBands
        /\ 2 * b + s + 1 \in 1..(2 * NBands)
        /\ 2 + (2 * b + s + 1) \in 1..(2 + 2 * NBands)
        /\ 2 + (2 * b + s + 1) = 2 + 2 * b + s + 1
        /\ 1 + (2 * b + s + 1) = 2 + 2 * b + s
    BY <1>15, Constants
  <2>2. W[2 + 2 * b + s + 1] = <<Crossover, 2 + 2 * b + s>>
    BY <1>11, <1>16, <2>1
  <2> DEFINE i == 2 + 2 * NBands + 2 * b + s + 1
  <2>3. /\ i \in 1..(Len(U) + Len(X)) /\ i <= Len(U)
        /\ i \in 1..(Len(V) + Len(L)) /\ ~(i <= Len(V))
        /\ i - Len(V) = 2 * b + s + 1
    BY <1>7, <1>8, <1>15, <2>1
  <2> HIDE DEF i
  <2>4. W[i] = L[2 * b + s + 1]
    BY <1>13, <1>14, <2>3
  <2>5. W[i] = <<MeterPre(b), 4 + s>>
    BY <1>8, <2>4
  <2>6. QED
    BY <2>2, <2>5 DEF i
<1>19. ASSUME NEW s \in 0..1
       PROVE  W[2 + 4 * NBands + s + 1] = <<AgcFront, 4 + s>>
  <2> DEFINE i == 2 + 4 * NBands + s + 1
  <2>1. /\ i \in 1..(Len(U) + Len(X)) /\ ~(i <= Len(U))
        /\ i - Len(U) = s + 1
    BY <1>7, <1>15
  <2> HIDE DEF i
  <2>2. W[i] = X[s + 1]
    BY <1>14, <2>1
  <2>3. W[i] = <<AgcFront, 4 + s>>
    BY <1>7, <2>2
  <2>4. QED
    BY <2>3 DEF i
<1>20. QED
  BY <1>2, <1>10, <1>12, <1>14, <1>15, <1>17, <1>18, <1>19

-----------------------------------------------------------------------------
(* The chain.                                                              *)

(* The stage at which a plugin of the chain runs.                          *)
Place(p) ==
  CASE p = GainInput                  -> 1
    [] p = MeterPostGain              -> 2
    [] p = Hpf                        -> 3
    [] p = PhaseRotator               -> 4
    [] p = AgcFront                   -> 5
    [] p = StereoEnhance              -> 6
    [] p = BassEnhancer               -> 7
    [] p = PrecompEq                  -> 8
    [] p = Crossover                  -> 9
    [] p[1] = "METER_POST_CROSSOVER"  -> 10 + p[2]
    [] p = CompLim                    -> 10 + NBands
    [] p[1] = "METER_POST_COMPLIM"    -> 11 + NBands + p[2]
    [] p = Delay                      -> 11 + 2 * NBands

LEMMA PlaceLemma ==
  /\ Place(GainInput) = 1 /\ Place(MeterPostGain) = 2 /\ Place(Hpf) = 3
  /\ Place(PhaseRotator) = 4 /\ Place(AgcFront) = 5
  /\ Place(StereoEnhance) = 6 /\ Place(BassEnhancer) = 7
  /\ Place(PrecompEq) = 8 /\ Place(Crossover) = 9
  /\ \A b \in Band : Place(MeterPre(b)) = 10 + b
  /\ Place(CompLim) = 10 + NBands
  /\ \A b \in Band : Place(MeterPost(b)) = 11 + NBands + b
  /\ Place(Delay) = 11 + 2 * NBands
BY DEF Place, Jack, MeterMainIn, GainInput, MeterPostGain, Hpf, PhaseRotator, AgcFront,
       StereoEnhance, BassEnhancer, PrecompEq, Crossover, CompLim, Delay,
       MeterMainOut, MeterPre, MeterPost

LEMMA BandsLemma ==
  /\ Bands(MeterPre) \in Seq(Plugin) /\ Len(Bands(MeterPre)) = NBands
  /\ \A b \in Band : Bands(MeterPre)[b + 1] = MeterPre(b)
  /\ Bands(MeterPost) \in Seq(Plugin) /\ Len(Bands(MeterPost)) = NBands
  /\ \A b \in Band : Bands(MeterPost)[b + 1] = MeterPost(b)
<1>1. \A k \in 1..NBands : k - 1 \in Band
  BY Constants DEF Band
<1>2. \A b \in Band : b + 1 \in 1..NBands /\ (b + 1) - 1 = b
  BY Constants DEF Band
<1>3. \A b \in Band : MeterPre(b) \in Plugin /\ MeterPost(b) \in Plugin
  BY DEF Plugin, Meter
<1>4. /\ Bands(MeterPre) \in [1..NBands -> Plugin]
      /\ Bands(MeterPost) \in [1..NBands -> Plugin]
  BY <1>1, <1>3 DEF Bands
<1>5. \A b \in Band : /\ Bands(MeterPre)[b + 1] = MeterPre(b)
                      /\ Bands(MeterPost)[b + 1] = MeterPost(b)
  BY <1>2 DEF Bands
<1>6. ASSUME NEW s \in [1..NBands -> Plugin]
      PROVE  s \in Seq(Plugin) /\ Len(s) = NBands
  BY Constants, SeqDef
<1>7. QED
  BY <1>4, <1>5, <1>6

LEMMA ChainLemma ==
  /\ Len(Chain) = 11 + 2 * NBands
  /\ DOMAIN Chain = 1..(11 + 2 * NBands)
  /\ Chain[1] = GainInput /\ Chain[2] = MeterPostGain /\ Chain[3] = Hpf
  /\ Chain[4] = PhaseRotator /\ Chain[5] = AgcFront
  /\ Chain[6] = StereoEnhance /\ Chain[7] = BassEnhancer
  /\ Chain[8] = PrecompEq /\ Chain[9] = Crossover
  /\ \A b \in Band : Chain[10 + b] = MeterPre(b)
  /\ Chain[10 + NBands] = CompLim
  /\ \A b \in Band : Chain[11 + NBands + b] = MeterPost(b)
  /\ Chain[11 + 2 * NBands] = Delay
<1> DEFINE F == <<GainInput, MeterPostGain, Hpf, PhaseRotator, AgcFront,
                  StereoEnhance, BassEnhancer, PrecompEq, Crossover>>
           Pre == Bands(MeterPre)
           Post == Bands(MeterPost)
           C == <<CompLim>>
           D == <<Delay>>
           S1 == F \o Pre
           S2 == S1 \o C
           S3 == S2 \o Post
<1>1. Chain = S3 \o D
  BY DEF Chain
<1>2. /\ F \in Seq(Plugin) /\ Len(F) = 9
      /\ F[1] = GainInput /\ F[2] = MeterPostGain /\ F[3] = Hpf
      /\ F[4] = PhaseRotator /\ F[5] = AgcFront /\ F[6] = StereoEnhance
      /\ F[7] = BassEnhancer /\ F[8] = PrecompEq /\ F[9] = Crossover
  BY DEF Plugin, Meter
<1>3. /\ C \in Seq(Plugin) /\ Len(C) = 1 /\ C[1] = CompLim
      /\ D \in Seq(Plugin) /\ Len(D) = 1 /\ D[1] = Delay
  BY DEF Plugin
<1>4. /\ Pre \in Seq(Plugin) /\ Len(Pre) = NBands
      /\ Post \in Seq(Plugin) /\ Len(Post) = NBands
      /\ \A b \in Band : Pre[b + 1] = MeterPre(b) /\ Post[b + 1] = MeterPost(b)
      /\ NBands \in Nat
  BY BandsLemma, Constants
<1> HIDE DEF F, Pre, Post, C, D
<1>5. /\ S1 \in Seq(Plugin) /\ Len(S1) = Len(F) + Len(Pre)
      /\ \A i \in 1..(Len(F) + Len(Pre)) :
           S1[i] = IF i <= Len(F) THEN F[i] ELSE Pre[i - Len(F)]
  BY <1>2, <1>4, ConcatProperties
<1> HIDE DEF S1
<1>6. /\ S2 \in Seq(Plugin) /\ Len(S2) = Len(S1) + Len(C)
      /\ \A i \in 1..(Len(S1) + Len(C)) :
           S2[i] = IF i <= Len(S1) THEN S1[i] ELSE C[i - Len(S1)]
  <2>1. S1 \in Seq(Plugin) /\ C \in Seq(Plugin)
    BY <1>3, <1>5
  <2>2. QED
    BY <2>1, ConcatProperties
<1> HIDE DEF S2
<1>7. /\ S3 \in Seq(Plugin) /\ Len(S3) = Len(S2) + Len(Post)
      /\ \A i \in 1..(Len(S2) + Len(Post)) :
           S3[i] = IF i <= Len(S2) THEN S2[i] ELSE Post[i - Len(S2)]
  <2>1. S2 \in Seq(Plugin) /\ Post \in Seq(Plugin)
    BY <1>4, <1>6
  <2>2. QED
    BY <2>1, ConcatProperties
<1> HIDE DEF S3
<1>8. /\ Chain \in Seq(Plugin) /\ Len(Chain) = Len(S3) + Len(D)
      /\ \A i \in 1..(Len(S3) + Len(D)) :
           Chain[i] = IF i <= Len(S3) THEN S3[i] ELSE D[i - Len(S3)]
  <2>1. S3 \in Seq(Plugin) /\ D \in Seq(Plugin)
    BY <1>3, <1>7
  <2>2. QED
    BY <1>1, <2>1, ConcatProperties
<1>9. /\ Len(F) = 9 /\ Len(S1) = 9 + NBands /\ Len(S2) = 10 + NBands
      /\ Len(S3) = 10 + 2 * NBands /\ Len(Chain) = 11 + 2 * NBands
      /\ Len(C) = 1 /\ Len(D) = 1 /\ Len(Post) = NBands /\ Len(Pre) = NBands
  <2>1. /\ Len(F) = 9 /\ Len(C) = 1 /\ Len(D) = 1
        /\ Len(Post) = NBands /\ Len(Pre) = NBands /\ NBands \in Nat
    BY <1>2, <1>3, <1>4
  <2>2. /\ Len(S1) = Len(F) + Len(Pre) /\ Len(S2) = Len(S1) + Len(C)
        /\ Len(S3) = Len(S2) + Len(Post) /\ Len(Chain) = Len(S3) + Len(D)
    BY <1>5, <1>6, <1>7, <1>8
  <2>3. QED
    BY <2>1, <2>2
<1>10. \A i \in 1..9 : Chain[i] = F[i]
  <2>1. ASSUME NEW i \in 1..9
        PROVE  Chain[i] = F[i]
    <3>1. Chain[i] = S3[i]
      <4>1. i \in 1..(Len(S3) + Len(D)) /\ i <= Len(S3)
        BY <1>4, <1>9
      <4>2. QED
        BY <1>8, <4>1
    <3>2. S3[i] = S2[i]
      BY <1>4, <1>7, <1>9
    <3>3. S2[i] = S1[i]
      BY <1>4, <1>6, <1>9
    <3>4. S1[i] = F[i]
      BY <1>4, <1>5, <1>9
    <3>5. QED
      BY <3>1, <3>2, <3>3, <3>4
  <2>2. QED
    BY <2>1
<1>11. ASSUME NEW b \in Band
       PROVE  Chain[10 + b] = MeterPre(b) /\ Chain[11 + NBands + b] = MeterPost(b)
  <2>1. b \in Nat /\ b < NBands
    BY Constants
  <2>2. Chain[10 + b] = S3[10 + b]
    <3>1. 10 + b \in 1..(Len(S3) + Len(D)) /\ 10 + b <= Len(S3)
      BY <1>4, <1>9, <2>1
    <3>2. QED
      BY <1>8, <3>1
  <2>3. S3[10 + b] = S2[10 + b]
    <3>1. 10 + b \in 1..(Len(S2) + Len(Post)) /\ 10 + b <= Len(S2)
      BY <1>4, <1>9, <2>1
    <3>2. QED
      BY <1>7, <3>1
  <2>4. S2[10 + b] = S1[10 + b]
    BY <1>4, <1>6, <1>9, <2>1
  <2>5. S1[10 + b] = Pre[b + 1]
    <3>1. 10 + b \in 1..(Len(F) + Len(Pre)) /\ ~(10 + b <= Len(F))
          /\ (10 + b) - Len(F) = b + 1
      BY <1>4, <1>9, <2>1
    <3>2. QED
      BY <1>5, <3>1
  <2>6. Chain[11 + NBands + b] = S3[11 + NBands + b]
    BY <1>4, <1>8, <1>9, <2>1
  <2>7. S3[11 + NBands + b] = Post[b + 1]
    <3>1. /\ 11 + NBands + b \in 1..(Len(S2) + Len(Post))
          /\ ~(11 + NBands + b <= Len(S2))
          /\ (11 + NBands + b) - Len(S2) = b + 1
      BY <1>4, <1>9, <2>1
    <3>2. QED
      BY <1>7, <3>1
  <2>8. QED
    BY <1>4, <2>2, <2>3, <2>4, <2>5, <2>6, <2>7
<1>12. Chain[10 + NBands] = CompLim
  <2>1. Chain[10 + NBands] = S3[10 + NBands]
    BY <1>4, <1>8, <1>9
  <2>2. S3[10 + NBands] = S2[10 + NBands]
    BY <1>4, <1>7, <1>9
  <2>3. S2[10 + NBands] = C[1]
    <3>1. /\ 10 + NBands \in 1..(Len(S1) + Len(C)) /\ ~(10 + NBands <= Len(S1))
          /\ (10 + NBands) - Len(S1) = 1
      BY <1>4, <1>9
    <3>2. QED
      BY <1>6, <3>1
  <2>4. QED
    BY <1>3, <2>1, <2>2, <2>3
<1>13. Chain[11 + 2 * NBands] = Delay
  <2>1. /\ 11 + 2 * NBands \in 1..(Len(S3) + Len(D))
        /\ ~(11 + 2 * NBands <= Len(S3)) /\ (11 + 2 * NBands) - Len(S3) = 1
    BY <1>4, <1>9
  <2>2. QED
    BY <1>3, <1>8, <2>1
<1>14. DOMAIN Chain = 1..Len(Chain)
  BY <1>8, LenProperties
<1>15. /\ Chain[1] = GainInput /\ Chain[2] = MeterPostGain
       /\ Chain[3] = Hpf /\ Chain[4] = PhaseRotator /\ Chain[5] = AgcFront
       /\ Chain[6] = StereoEnhance /\ Chain[7] = BassEnhancer
       /\ Chain[8] = PrecompEq /\ Chain[9] = Crossover
  BY <1>2, <1>10
<1>16. QED
  BY <1>9, <1>11, <1>12, <1>13, <1>14, <1>15

(* Each plugin has one place in the chain.                                 *)
LEMMA StagesLemma ==
  ASSUME NEW i \in DOMAIN Chain
  PROVE  /\ i = Place(Chain[i])
         /\ Chain[i] \in
              {GainInput, MeterPostGain, Hpf, PhaseRotator, AgcFront,
               StereoEnhance, BassEnhancer, PrecompEq, Crossover, CompLim, Delay}
              \cup {MeterPre(b) : b \in Band} \cup {MeterPost(b) : b \in Band}
<1>1. i \in 1..(11 + 2 * NBands)
  BY ChainLemma
<1>2. \/ i \in 1..9
      \/ \E b \in Band : i = 10 + b
      \/ i = 10 + NBands
      \/ \E b \in Band : i = 11 + NBands + b
      \/ i = 11 + 2 * NBands
  <2>1. CASE i \in 10..(9 + NBands)
    <3>1. i - 10 \in Band /\ i = 10 + (i - 10)
      BY <1>1, <2>1, Constants DEF Band
    <3>2. QED
      BY <3>1
  <2>2. CASE i \in (11 + NBands)..(10 + 2 * NBands)
    <3>1. i - (11 + NBands) \in Band
          /\ i = 11 + NBands + (i - (11 + NBands))
      BY <1>1, <2>2, Constants DEF Band
    <3>2. QED
      BY <3>1
  <2>3. QED
    BY <1>1, <2>1, <2>2, Constants
<1>3. CASE i \in 1..9
  BY <1>3, ChainLemma, PlaceLemma
<1>4. CASE i \notin 1..9
  BY <1>2, <1>4, ChainLemma, PlaceLemma
<1>5. QED
  BY <1>3, <1>4

LEMMA TurnLemma ==
  ASSUME NEW p, Turn(p)
  PROVE  /\ stage = Place(p) /\ stage \in 1..(11 + 2 * NBands)
         /\ p \in {GainInput, MeterPostGain, Hpf, PhaseRotator, AgcFront,
                   StereoEnhance, BassEnhancer, PrecompEq, Crossover, CompLim,
                   Delay}
              \cup {MeterPre(b) : b \in Band} \cup {MeterPost(b) : b \in Band}
<1>1. stage \in DOMAIN Chain /\ p = Chain[stage]
  BY DEF Turn
<1>2. QED
  BY <1>1, StagesLemma, ChainLemma

-----------------------------------------------------------------------------
(* The invariant.                                                          *)

(* The buffers that two plugins are pointed at anew are the capture        *)
(* buffers or the delay's; no other is ever pointed elsewhere.             *)
Wired ==
  /\ bufsIn = [p \in Plugin |-> bufsIn[p]]
  /\ \A p \in Plugin \ {MeterMainIn, MeterMainOut} : bufsIn[p] = Wiring[p]
  /\ bufsIn[MeterMainIn] \in {Unwired, Pair(Jack, 0)}
  /\ bufsIn[MeterMainOut] \in {Pair(Delay, 0), Pair(Jack, 0)}

Contents == [age : 0..MaxAge, fx : SUBSET Effects]

Types ==
  /\ Wired
  /\ content \in [Buffer -> Contents]
  /\ bypass \in BOOLEAN
  /\ enabled \in [Switch -> BOOLEAN]
  /\ inited \in [NoReturn -> BOOLEAN]
  /\ folded \in BOOLEAN /\ folded \in Folds
  /\ stage \in {Idle, Fork, Output} \cup DOMAIN Chain
  /\ tested \in BOOLEAN
  /\ pld \in [LiveLevel -> 0..MaxAge]
  /\ delay \in 0..(2 * MaxDelay)
  /\ line \in [0..1 -> [0..Reach(delay) -> Contents]]
  /\ filled \in 0..(MaxDelay + 1)
  /\ touched \subseteq Switch \cup {Bypass, Delay}
  /\ process \in {"running", "exited"}

(* The block goes through the chain, and is not bypassed.                  *)
InChain ==
  \/ stage \in DOMAIN Chain
  \/ stage = Output /\ bufsIn[MeterMainOut] = Pair(Delay, 0)

Bypassing == stage = Output /\ bufsIn[MeterMainOut] = Pair(Jack, 0)

(* During a call of process(): the block is in the capture buffers and the *)
(* input meter; the master bypass was as it is, or has been touched.       *)
BlockIn ==
  /\ stage # Idle =>
       /\ bufsIn[MeterMainIn] = Pair(Jack, 0)
       /\ \A i \in 0..1 : /\ content[<<Jack, i>>] = [age |-> 0, fx |-> {}]
                          /\ content[<<MeterMainIn, i>>] = [age |-> 0, fx |-> {}]
  /\ Bypass \notin touched => /\ InChain => ~bypass
                              /\ Bypassing => bypass

(* The bass enhancer has not run yet: its output is older.  Between its    *)
(* two steps it is off, or has been switched on by a command.              *)
BassInv ==
  /\ stage = Fork \/ stage \in 1..7 =>
       \A i \in 0..1 : content[<<BassEnhancer, i>>].age > 0
  /\ tested => stage = 7 /\ (enabled[BassEnhancer] => BassEnhancer \in touched)

(* The plugins whose outputs go on the air, and which of their outputs.    *)
Flow == {GainInput, MeterPostGain, Hpf, PhaseRotator, AgcFront, StereoEnhance,
         BassEnhancer, PrecompEq, Crossover, CompLim, Delay}
          \cup {MeterPre(b) : b \in Band}

Live(p) == IF p \in {AgcFront, CompLim} THEN 0..1 ELSE 0..(NumOut(p) - 1)

(* The switchable effects that the output of a plugin may have.            *)
Passed(p) == {q \in Audible : Place(q) <= Place(p)}

Stale == ~folded /\ BassEnhancer \in touched

(* The effects are those that are on, up to a place in the chain.          *)
Correct(fx, S) ==
  /\ GainInput \in fx
  /\ \A q \in Audible \ touched : q \in fx <=> q \in S /\ enabled[q]

Sound(c, place, S) ==
  /\ c.age = 0 \/ (Stale /\ place >= 7)
  /\ c.age = 0 => Correct(c.fx, S)

(* What has been computed of this block.  The high pass filter's output is *)
(* the phase rotator's scratch.                                            *)
Ran(p) ==
  InChain /\ Place(p) < stage /\ (p = Hpf => stage <= 4)

FlowSound ==
  \A p \in Flow \ {Delay} : Ran(p) =>
    \A i \in Live(p) : Sound(content[<<p, i>>], Place(p), Passed(p))

(* The delay has played: the current block with the effects that are on if *)
(* it is set to nothing, one as old as the delay if its line is full.      *)
Played == InChain /\ stage = Output

Full == folded /\ Delay \notin touched /\ filled > Reach(delay)

DelayedSound(c) ==
  /\ delay = 0 /\ Delay \notin touched => c.age = 0 \/ Stale
  /\ c.age = 0 => Correct(c.fx, Audible)
  /\ Full => c.age = Aged(Reach(delay))

DelaySound ==
  Played => \A i \in 0..1 : DelayedSound(content[<<Delay, i>>])

(* The line has not been fed in this call of process(), or not yet.  Then  *)
(* all it holds is older, and what it has held since it was last filled in *)
(* a row is in its place.                                                  *)
Unfed == stage # Idle /\ ~Played

Late == IF Unfed THEN 1 ELSE 0

LineInv ==
  /\ Unfed => \A s \in 0..1 : \A i \in 0..Reach(delay) : line[s][i].age > 0
  /\ folded => \A s \in 0..1 : \A i \in 0..Reach(delay) :
       i < filled => line[s][i].age = Aged(i + Late)
  /\ Bypassing => filled = 0

OnAirSound ==
  BlockDone => \A b \in OnAir :
    /\ Undelayed => content[b].age = 0 \/ Stale
    /\ content[b].age = 0 =>
         /\ Bypass \notin touched => (bypass <=> content[b].fx = {})
         /\ content[b].fx # {} => Correct(content[b].fx, Audible)
    /\ Full /\ Bypass \notin touched /\ ~bypass =>
         content[b].age = Aged(Reach(delay))

(* The compressor writes all its bands, or none.                           *)
LevelsTogether ==
  folded =>
    /\ \A i, j \in 2..(3 * NBands + 1) :
         content[<<CompLim, i>>].age = content[<<CompLim, j>>].age
    /\ \A b \in Band :
         (InChain => stage > Place(MeterPost(b))) =>
           content[<<MeterPost(b), 4>>].age = content[<<CompLim, 2>>].age
    /\ ~InChain =>
         /\ \A b \in Band : content[<<MeterPre(b), 4>>].age
                              = content[<<AgcFront, 0>>].age
         /\ content[<<AgcFront, 0>>].age <= content[<<CompLim, 2>>].age

IInv ==
  /\ Types /\ BlockIn /\ BassInv /\ FlowSound /\ DelaySound /\ LineInv
  /\ OnAirSound /\ LevelsTogether /\ LevelsConsistent

-----------------------------------------------------------------------------
(* What the plugins read.                                                  *)

LEMMA Names ==
  /\ Flow \subseteq Plugin /\ Meter \subseteq Plugin
  /\ Flow \cup {MeterMainIn, MeterMainOut, CompLim} \subseteq Plugin
  /\ Switch = {PhaseRotator, StereoEnhance, BassEnhancer, CompLim}
  /\ Audible = {PhaseRotator, StereoEnhance, CompLim}
  /\ \A b \in Band : /\ MeterPre(b) \in Meter /\ MeterPost(b) \in Meter
                     /\ MeterPre(b) \in Flow
  /\ Jack \notin Plugin
  /\ MeterMainIn \notin Flow /\ MeterMainOut \notin Flow
  /\ \A b \in Band : MeterPost(b) \notin Flow
<1> USE DEF Jack, MeterMainIn, GainInput, MeterPostGain, Hpf, PhaseRotator,
       AgcFront, StereoEnhance, BassEnhancer, PrecompEq, Crossover, CompLim,
       Delay, MeterMainOut, MeterPre, MeterPost
<1>1. Flow \subseteq Plugin /\ Meter \subseteq Plugin
      /\ MeterMainIn \in Plugin /\ MeterMainOut \in Plugin /\ CompLim \in Plugin
  BY DEF Flow, Plugin, Meter
<1>2. Switch = {PhaseRotator, StereoEnhance, BassEnhancer, CompLim}
      /\ Audible = {PhaseRotator, StereoEnhance, CompLim}
  BY DEF Switch, Audible
<1>3. \A b \in Band : /\ MeterPre(b) \in Meter /\ MeterPost(b) \in Meter
                      /\ MeterPre(b) \in Flow
  BY DEF Meter, Flow
<1>4. Jack \notin Plugin
  BY DEF Plugin, Meter
<1>5. MeterMainIn \notin Flow /\ MeterMainOut \notin Flow
      /\ \A b \in Band : MeterPost(b) \notin Flow
  BY DEF Flow
<1>6. QED
  BY <1>1, <1>2, <1>3, <1>4, <1>5

LEMMA InputOfLemma ==
  /\ InputOf[GainInput] = MeterMainIn /\ InputOf[MeterPostGain] = GainInput
  /\ InputOf[Hpf] = MeterPostGain /\ InputOf[PhaseRotator] = Hpf
  /\ InputOf[StereoEnhance] = AgcFront /\ InputOf[BassEnhancer] = StereoEnhance
  /\ InputOf[PrecompEq] = BassEnhancer /\ InputOf[Crossover] = PrecompEq
  /\ InputOf[Delay] = CompLim /\ InputOf[MeterMainOut] = Delay
BY DEF InputOf, Jack, MeterMainIn, GainInput, MeterPostGain, Hpf, PhaseRotator,
       AgcFront, StereoEnhance, BassEnhancer, PrecompEq, Crossover, CompLim,
       Delay, MeterMainOut, MeterPre, MeterPost

LEMMA Inputs ==
  ASSUME Wired
  PROVE  /\ \A p \in Simple \ {MeterMainOut}, s \in 0..1 :
              In(p, s) = <<InputOf[p], s>>
         /\ \A b \in Band, s \in 0..1 :
              /\ In(MeterPre(b), s) = <<Crossover, 2 + 2 * b + s>>
              /\ In(MeterPost(b), s) = <<CompLim, 2 + 2 * b + s>>
              /\ In(CompLim, 2 + 2 * b + s) = <<Crossover, 2 + 2 * b + s>>
              /\ In(CompLim, 2 + 2 * NBands + 2 * b + s)
                   = <<MeterPre(b), 4 + s>>
         /\ \A s \in 0..1 :
              /\ In(AgcFront, s) = <<PhaseRotator, s>>
              /\ In(AgcFront, 4 + s) = <<MeterPostGain, 4 + s>>
              /\ In(CompLim, s) = <<Crossover, s>>
<1>1. \A p \in Plugin \ {MeterMainIn, MeterMainOut} : bufsIn[p] = Wiring[p]
  BY DEF Wired
<1>2. ASSUME NEW p, NEW i \in Nat, NEW s \in 0..1
      PROVE  Pair(p, i)[s + 1] = <<p, i + s>>
  <2>1. CASE s = 0
    BY <2>1 DEF Pair
  <2>2. CASE s = 1
    BY <2>2 DEF Pair
  <2>3. QED
    BY <2>1, <2>2
<1>3. ASSUME NEW p \in Simple \ {MeterMainOut}, NEW s \in 0..1
      PROVE  In(p, s) = <<InputOf[p], s>>
  <2>1. p \in Plugin \ {MeterMainIn, MeterMainOut, AgcFront, CompLim}
    BY DEF Simple, Plugin, Meter, Jack, MeterMainIn, GainInput, MeterPostGain, Hpf, PhaseRotator,
       AgcFront, StereoEnhance, BassEnhancer, PrecompEq, Crossover, CompLim,
       Delay, MeterMainOut, MeterPre, MeterPost
  <2>2. bufsIn[p] = Pair(InputOf[p], 0)
    BY <1>1, <2>1, WiringLemma, MainWiringLemma
  <2>3. Pair(InputOf[p], 0)[s + 1] = <<InputOf[p], 0 + s>>
    BY <1>2
  <2>4. QED
    BY <2>2, <2>3 DEF In
<1>4. ASSUME NEW b \in Band, NEW s \in 0..1
      PROVE  /\ In(MeterPre(b), s) = <<Crossover, 2 + 2 * b + s>>
             /\ In(MeterPost(b), s) = <<CompLim, 2 + 2 * b + s>>
  <2>1. /\ MeterPre(b) \in Plugin \ {MeterMainIn, MeterMainOut, AgcFront, CompLim}
        /\ MeterPost(b) \in Plugin \ {MeterMainIn, MeterMainOut, AgcFront, CompLim}
    BY DEF Plugin, Meter, Jack, MeterMainIn, GainInput, MeterPostGain, Hpf, PhaseRotator,
       AgcFront, StereoEnhance, BassEnhancer, PrecompEq, Crossover, CompLim,
       Delay, MeterMainOut, MeterPre, MeterPost
  <2>2. /\ bufsIn[MeterPre(b)] = Pair(Crossover, 2 + 2 * b)
        /\ bufsIn[MeterPost(b)] = Pair(CompLim, 2 + 2 * b)
    BY <1>1, <2>1, WiringLemma, MainWiringLemma
  <2>3. 2 + 2 * b \in Nat
    BY Constants
  <2>4. /\ Pair(Crossover, 2 + 2 * b)[s + 1] = <<Crossover, 2 + 2 * b + s>>
        /\ Pair(CompLim, 2 + 2 * b)[s + 1] = <<CompLim, 2 + 2 * b + s>>
    BY <1>2, <2>3
  <2>5. QED
    BY <2>2, <2>4 DEF In
<1>5. bufsIn[AgcFront] = Wiring[AgcFront] /\ bufsIn[CompLim] = Wiring[CompLim]
  <2>1. {AgcFront, CompLim} \subseteq Plugin \ {MeterMainIn, MeterMainOut}
    BY DEF Plugin, Meter, Jack, MeterMainIn, GainInput, MeterPostGain, Hpf, PhaseRotator,
       AgcFront, StereoEnhance, BassEnhancer, PrecompEq, Crossover, CompLim,
       Delay, MeterMainOut, MeterPre, MeterPost
  <2>2. QED
    BY <1>1, <2>1
<1>6. ASSUME NEW b \in Band, NEW s \in 0..1
      PROVE  /\ In(CompLim, 2 + 2 * b + s) = <<Crossover, 2 + 2 * b + s>>
             /\ In(CompLim, 2 + 2 * NBands + 2 * b + s)
                  = <<MeterPre(b), 4 + s>>
  <2>1. /\ In(CompLim, 2 + 2 * b + s) = Wiring[CompLim][2 + 2 * b + s + 1]
        /\ In(CompLim, 2 + 2 * NBands + 2 * b + s)
             = Wiring[CompLim][2 + 2 * NBands + 2 * b + s + 1]
    BY <1>5 DEF In
  <2>2. QED
    BY <2>1, WiringLemma
<1>7. ASSUME NEW s \in 0..1
      PROVE  /\ In(AgcFront, s) = <<PhaseRotator, s>>
             /\ In(AgcFront, 4 + s) = <<MeterPostGain, 4 + s>>
             /\ In(CompLim, s) = <<Crossover, s>>
  <2>1. s + 1 = 1 + s /\ 4 + s \in 2..5
    OBVIOUS
  <2>2. QED
    BY <1>5, <2>1, WiringLemma DEF In
<1>8. QED
  BY <1>3, <1>4, <1>6, <1>7

LEMMA PassedLemma ==
  /\ \A p \in {GainInput, MeterPostGain, Hpf} : Passed(p) = {}
  /\ \A p \in {PhaseRotator, AgcFront} : Passed(p) = {PhaseRotator}
  /\ \A p \in {StereoEnhance, BassEnhancer, PrecompEq, Crossover}
                \cup {MeterPre(b) : b \in Band} :
       Passed(p) = {PhaseRotator, StereoEnhance}
  /\ \A p \in {CompLim, Delay} : Passed(p) = Audible
<1>1. /\ Place(PhaseRotator) = 4 /\ Place(StereoEnhance) = 6
      /\ Place(CompLim) = 10 + NBands /\ NBands \in Nat \ {0}
      /\ \A b \in Band : b \in Nat /\ b < NBands
  BY PlaceLemma, Constants
<1>2. \A p : Passed(p) = {q \in {PhaseRotator, StereoEnhance, CompLim} :
                            Place(q) <= Place(p)}
  BY Names DEF Passed
<1>3. \A p \in {GainInput, MeterPostGain, Hpf} : Passed(p) = {}
  BY <1>1, <1>2, PlaceLemma
<1>4. \A p \in {PhaseRotator, AgcFront} : Passed(p) = {PhaseRotator}
  BY <1>1, <1>2, PlaceLemma
<1>5. \A p \in {StereoEnhance, BassEnhancer, PrecompEq, Crossover} :
        Passed(p) = {PhaseRotator, StereoEnhance}
  BY <1>1, <1>2, PlaceLemma
<1>6. \A b \in Band : Passed(MeterPre(b)) = {PhaseRotator, StereoEnhance}
  <2>1. \A b \in Band : 6 <= Place(MeterPre(b)) /\ 4 <= Place(MeterPre(b))
                        /\ ~(10 + NBands <= Place(MeterPre(b)))
    BY <1>1, PlaceLemma
  <2>2. QED
    BY <1>1, <1>2, <2>1
<1>7. \A p \in {CompLim, Delay} : Passed(p) = Audible
  BY <1>1, <1>2, PlaceLemma, Names
<1>8. QED
  BY <1>3, <1>4, <1>5, <1>6, <1>7

LEMMA LiveLemma ==
  /\ \A p \in Flow : 0..1 \subseteq Live(p) /\ Live(p) \subseteq 0..(NumOut(p) - 1)
                     /\ Live(p) \subseteq Writes(p)
  /\ Live(Crossover) = 0..(2 * NBands + 1)
  /\ \A b \in Band : Live(MeterPre(b)) = 0..5
  /\ Live(MeterPostGain) = 0..5
  /\ Live(CompLim) = 0..1 /\ Live(AgcFront) = 0..1
<1>1. \A p \in Flow : NumOut(p) \in Nat /\ NumOut(p) >= 2
  BY Outputs, Names
<1>2. \A p \in Flow : 0..1 \subseteq Live(p) /\ Live(p) \subseteq 0..(NumOut(p) - 1)
                     /\ Live(p) \subseteq Writes(p)
  BY <1>1 DEF Live, Writes
<1>3. /\ Crossover \notin {AgcFront, CompLim}
      /\ MeterPostGain \notin {AgcFront, CompLim}
      /\ \A b \in Band : MeterPre(b) \notin {AgcFront, CompLim}
      /\ MeterPostGain \in Meter
  BY DEF Meter, Jack, MeterMainIn, GainInput, MeterPostGain, Hpf, PhaseRotator,
       AgcFront, StereoEnhance, BassEnhancer, PrecompEq, Crossover, CompLim,
       Delay, MeterMainOut, MeterPre, MeterPost
<1>4. NumOut(Crossover) - 1 = 2 * NBands + 1
  BY Outputs, Constants
<1>5. QED
  BY <1>2, <1>3, <1>4, Outputs, Names DEF Live

(* What p reads is there, and has not been through more than it should     *)
(* have; what p makes its output from has been through all of it.          *)
FeedOf(b, p) ==
  /\ b = <<b[1], b[2]>> /\ b[1] \in Flow /\ b[2] \in Live(b[1])
  /\ Place(b[1]) < Place(p)
  /\ b[1] = Hpf => p = PhaseRotator
  /\ Passed(b[1]) \subseteq Passed(p) \ {p}

MainFeedOf(b, p) == FeedOf(b, p) /\ Passed(b[1]) = Passed(p) \ {p}

LEMMA FeedsOfBands ==
  /\ \A b \in Band, s \in 0..1 :
       /\ MainFeedOf(<<Crossover, 2 + 2 * b + s>>, CompLim)
       /\ MainFeedOf(<<MeterPre(b), 4 + s>>, CompLim)
       /\ \A c \in Band : MainFeedOf(<<Crossover, 2 + 2 * b + s>>, MeterPre(c))
  /\ \A s \in 0..1 : MainFeedOf(<<Crossover, s>>, CompLim)
<1>1. \A b \in Band : b \in Nat /\ b < NBands
  BY Constants
<1>2. /\ Crossover \in Flow /\ Crossover # Hpf /\ CompLim \notin {PhaseRotator, StereoEnhance}
      /\ CompLim \in Audible
      /\ \A b \in Band : /\ MeterPre(b) # Hpf /\ MeterPre(b) \in Flow
                         /\ MeterPre(b) \notin Audible
  BY DEF Flow, Audible, Switch, Jack, MeterMainIn, GainInput, MeterPostGain, Hpf, PhaseRotator,
       AgcFront, StereoEnhance, BassEnhancer, PrecompEq, Crossover, CompLim,
       Delay, MeterMainOut, MeterPre, MeterPost
<1>3. /\ Passed(CompLim) \ {CompLim} = {PhaseRotator, StereoEnhance}
      /\ Passed(Crossover) = {PhaseRotator, StereoEnhance}
      /\ \A b \in Band :
           /\ Passed(MeterPre(b)) = {PhaseRotator, StereoEnhance}
           /\ Passed(MeterPre(b)) \ {MeterPre(b)} = {PhaseRotator, StereoEnhance}
  BY <1>2, PassedLemma, Names
<1>4. /\ Place(Crossover) < Place(CompLim)
      /\ \A b \in Band : /\ Place(Crossover) < Place(MeterPre(b))
                         /\ Place(MeterPre(b)) < Place(CompLim)
  BY <1>1, PlaceLemma, Constants
<1>5. /\ \A b \in Band, s \in 0..1 : /\ 2 + 2 * b + s \in Live(Crossover)
                                     /\ 4 + s \in Live(MeterPre(b))
      /\ \A s \in 0..1 : s \in Live(Crossover)
  BY <1>1, LiveLemma, Constants
<1>6. QED
  BY <1>2, <1>3, <1>4, <1>5 DEF FeedOf, MainFeedOf

LEMMA FeedsOfSimple ==
  ASSUME NEW p \in Simple \ {GainInput, MeterMainOut}, NEW s \in 0..1
  PROVE  MainFeedOf(<<InputOf[p], s>>, p)
<1>1. InputOf[p] \in Flow
  BY InputOfLemma DEF Simple, Flow
<1>2. Place(InputOf[p]) < Place(p)
  BY InputOfLemma, PlaceLemma, Constants DEF Simple
<1>3. InputOf[p] = Hpf => p = PhaseRotator
  BY InputOfLemma DEF Simple, Jack, MeterMainIn, GainInput, MeterPostGain, Hpf, PhaseRotator,
       AgcFront, StereoEnhance, BassEnhancer, PrecompEq, Crossover, CompLim,
       Delay, MeterMainOut, MeterPre, MeterPost
<1>4. Passed(InputOf[p]) = Passed(p) \ {p}
  <2>1. /\ PhaseRotator # StereoEnhance
        /\ \A q \in Simple \ {PhaseRotator, StereoEnhance} : q \notin Audible
    BY DEF Simple, Audible, Switch, Jack, MeterMainIn, GainInput, MeterPostGain, Hpf, PhaseRotator,
       AgcFront, StereoEnhance, BassEnhancer, PrecompEq, Crossover, CompLim,
       Delay, MeterMainOut, MeterPre, MeterPost
  <2>2. CASE p = PhaseRotator \/ p = StereoEnhance
    BY <2>1, <2>2, InputOfLemma, PassedLemma
  <2>3. CASE p = Delay
    BY <2>1, <2>3, InputOfLemma, PassedLemma, Names DEF Simple, Jack, MeterMainIn, GainInput, MeterPostGain, Hpf, PhaseRotator,
       AgcFront, StereoEnhance, BassEnhancer, PrecompEq, Crossover, CompLim,
       Delay, MeterMainOut, MeterPre, MeterPost
  <2>4. CASE p \in {MeterPostGain, Hpf}
    BY <2>4, InputOfLemma, PassedLemma
  <2>5. CASE p \in {BassEnhancer, PrecompEq, Crossover}
    <3>1. p \notin {PhaseRotator, StereoEnhance}
      BY <2>5 DEF Jack, MeterMainIn, GainInput, MeterPostGain, Hpf, PhaseRotator,
       AgcFront, StereoEnhance, BassEnhancer, PrecompEq, Crossover, CompLim,
       Delay, MeterMainOut, MeterPre, MeterPost
    <3>2. QED
      BY <2>5, <3>1, InputOfLemma, PassedLemma
  <2>6. QED
    BY <2>2, <2>3, <2>4, <2>5 DEF Simple
<1>5. s \in Live(InputOf[p])
  BY <1>1, LiveLemma
<1>6. QED
  BY <1>1, <1>2, <1>3, <1>4, <1>5 DEF FeedOf, MainFeedOf

LEMMA BandSourcesLemma ==
  ASSUME Wired, NEW b \in Band, NEW s \in 0..1
  PROVE  /\ BandLevel(b) = {<<MeterPre(b), 4>>, <<MeterPre(b), 5>>}
         /\ BandSources(b, s) = {<<Crossover, 2 + 2 * b + s>>,
                                 <<MeterPre(b), 4>>, <<MeterPre(b), 5>>}
<1>1. 0..1 = {0, 1}
  OBVIOUS
<1>2. /\ In(CompLim, 2 + 2 * NBands + 2 * b + 0) = <<MeterPre(b), 4 + 0>>
      /\ In(CompLim, 2 + 2 * NBands + 2 * b + 1) = <<MeterPre(b), 4 + 1>>
  BY Inputs
<1>3. BandLevel(b) = {In(CompLim, 2 + 2 * NBands + 2 * b + 0),
                      In(CompLim, 2 + 2 * NBands + 2 * b + 1)}
  BY <1>1 DEF BandLevel
<1>4. BandLevel(b) = {<<MeterPre(b), 4>>, <<MeterPre(b), 5>>}
  BY <1>2, <1>3
<1>5. BandIn(b, s) = <<Crossover, 2 + 2 * b + s>>
  BY Inputs DEF BandIn
<1>6. QED
  BY <1>4, <1>5 DEF BandSources

(* Each plugin of the chain reads what others before it have written, that *)
(* lack nothing but its own effect.                                        *)
LEMMA Feeds ==
  ASSUME Types, NEW p \in Flow \ {GainInput}, NEW i \in Live(p)
  PROVE  /\ \A b \in Sources(p, i) : FeedOf(b, p)
         /\ \E b \in Sources(p, i) : MainFeedOf(b, p)
<1>1. i \in Nat /\ i % 2 \in 0..1
  BY LiveLemma, Outputs, Names
<1>2. Wired
  BY DEF Types
<1>3. CASE p \in Simple /\ ~(p = StereoEnhance /\ enabled[p])
  <2>1. p # AgcFront /\ p # CompLim /\ p # MeterMainOut
    BY <1>3, Names DEF Simple, Jack, MeterMainIn, GainInput, MeterPostGain, Hpf, PhaseRotator,
       AgcFront, StereoEnhance, BassEnhancer, PrecompEq, Crossover, CompLim,
       Delay, MeterMainOut, MeterPre, MeterPost
  <2>2. Sources(p, i) = {In(p, i % 2)}
    BY <1>3, <2>1 DEF Sources
  <2>3. In(p, i % 2) = <<InputOf[p], i % 2>>
    BY <1>1, <1>2, <1>3, <2>1, Inputs
  <2>4. MainFeedOf(<<InputOf[p], i % 2>>, p)
    BY <1>1, <1>3, <2>1, FeedsOfSimple
  <2>5. QED
    BY <2>2, <2>3, <2>4 DEF MainFeedOf
<1>4. CASE p = StereoEnhance /\ enabled[p]
  <2>1. Sources(p, i) = {In(p, 0), In(p, 1)}
    BY <1>4 DEF Sources, StereoSources, Jack, MeterMainIn, GainInput, MeterPostGain, Hpf, PhaseRotator,
       AgcFront, StereoEnhance, BassEnhancer, PrecompEq, Crossover, CompLim,
       Delay, MeterMainOut, MeterPre, MeterPost
  <2>2. p \in Simple \ {GainInput, MeterMainOut}
    BY <1>4, Names DEF Simple
  <2>3. In(p, 0) = <<InputOf[p], 0>> /\ In(p, 1) = <<InputOf[p], 1>>
    BY <1>2, <2>2, Inputs
  <2>4. MainFeedOf(<<InputOf[p], 0>>, p) /\ MainFeedOf(<<InputOf[p], 1>>, p)
    BY <2>2, FeedsOfSimple
  <2>5. QED
    BY <2>1, <2>3, <2>4 DEF MainFeedOf
<1>5. CASE p = AgcFront
  <2>1. Sources(p, i) = {In(p, i), In(p, 4), In(p, 5)}
    <3>1. Sources(p, i) = AgcSources(i)
      BY <1>5 DEF Sources, AgcFront, StereoEnhance, CompLim
    <3>2. QED
      BY <1>5, <3>1 DEF AgcSources
  <2>2. i \in 0..1
    BY <1>5, LiveLemma
  <2>3. In(p, i) = <<PhaseRotator, i>>
    BY <1>2, <1>5, <2>2, Inputs
  <2>4. In(p, 4) = <<MeterPostGain, 4>> /\ In(p, 5) = <<MeterPostGain, 5>>
    <3>1. \A s \in 0..1 : In(p, 4 + s) = <<MeterPostGain, 4 + s>>
      BY <1>2, <1>5, Inputs
    <3>2. QED
      BY <3>1
  <2>5. FeedOf(<<MeterPostGain, 4>>, p) /\ FeedOf(<<MeterPostGain, 5>>, p)
    <3>1. MeterPostGain \in Flow /\ MeterPostGain # Hpf
      BY DEF Flow, Jack, MeterMainIn, GainInput, MeterPostGain, Hpf, PhaseRotator,
       AgcFront, StereoEnhance, BassEnhancer, PrecompEq, Crossover, CompLim,
       Delay, MeterMainOut, MeterPre, MeterPost
    <3>2. Place(MeterPostGain) < Place(p)
      BY <1>5, PlaceLemma
    <3>3. Passed(MeterPostGain) = {}
      BY PassedLemma
    <3>4. QED
      BY <3>1, <3>2, <3>3, LiveLemma DEF FeedOf
  <2>6. MainFeedOf(<<PhaseRotator, i>>, p)
    <3>1. PhaseRotator \in Flow /\ PhaseRotator # Hpf /\ AgcFront # PhaseRotator
      BY DEF Flow, Jack, MeterMainIn, GainInput, MeterPostGain, Hpf, PhaseRotator,
       AgcFront, StereoEnhance, BassEnhancer, PrecompEq, Crossover, CompLim,
       Delay, MeterMainOut, MeterPre, MeterPost
    <3>2. Place(PhaseRotator) < Place(p)
      BY <1>5, PlaceLemma
    <3>3. Passed(PhaseRotator) = Passed(p) \ {p}
      BY <1>5, <3>1, PassedLemma
    <3>4. QED
      BY <2>2, <3>1, <3>2, <3>3, LiveLemma DEF FeedOf, MainFeedOf
  <2>7. QED
    BY <2>1, <2>3, <2>4, <2>5, <2>6 DEF MainFeedOf
<1>6. CASE p \in {MeterPre(b) : b \in Band}
  <2>1. PICK b \in Band : p = MeterPre(b)
    BY <1>6
  <2>2. Sources(p, i) = {In(p, i % 2)}
    BY <2>1 DEF Sources, Jack, MeterMainIn, GainInput, MeterPostGain, Hpf, PhaseRotator,
       AgcFront, StereoEnhance, BassEnhancer, PrecompEq, Crossover, CompLim,
       Delay, MeterMainOut, MeterPre, MeterPost
  <2> DEFINE s == i % 2
  <2>3. s \in 0..1 /\ Sources(p, i) = {In(p, s)}
    BY <1>1, <2>2
  <2> HIDE DEF s
  <2>4. In(p, s) = <<Crossover, 2 + 2 * b + s>>
    BY <1>2, <2>1, <2>3, Inputs
  <2>5. MainFeedOf(<<Crossover, 2 + 2 * b + s>>, p)
    BY <2>1, <2>3, FeedsOfBands
  <2>6. QED
    BY <2>3, <2>4, <2>5 DEF MainFeedOf
<1>7. CASE p = CompLim
  <2>1. i \in 0..1
    BY <1>7, LiveLemma
  <2>2. CASE ~enabled[p]
    <3>1. Sources(p, i) = {In(p, i % 2)}
      BY <1>7, <2>2 DEF Sources, Jack, MeterMainIn, GainInput, MeterPostGain, Hpf, PhaseRotator,
       AgcFront, StereoEnhance, BassEnhancer, PrecompEq, Crossover, CompLim,
       Delay, MeterMainOut, MeterPre, MeterPost
    <3> DEFINE s == i % 2
    <3>2. s \in 0..1 /\ Sources(p, i) = {In(p, s)}
      BY <1>1, <3>1
    <3> HIDE DEF s
    <3>3. In(p, s) = <<Crossover, s>>
      BY <1>2, <1>7, <3>2, Inputs
    <3>4. MainFeedOf(<<Crossover, s>>, p)
      BY <1>7, <3>2, FeedsOfBands
    <3>5. QED
      BY <3>2, <3>3, <3>4 DEF MainFeedOf
  <2>3. CASE enabled[p]
    <3>1. Sources(p, i) = UNION {BandSources(b, i) : b \in Band}
      BY <1>7, <2>1, <2>3 DEF Sources, CompLimSources, Jack, MeterMainIn, GainInput, MeterPostGain, Hpf, PhaseRotator,
       AgcFront, StereoEnhance, BassEnhancer, PrecompEq, Crossover, CompLim,
       Delay, MeterMainOut, MeterPre, MeterPost
    <3>2. \A b \in Band : \A x \in BandSources(b, i) : MainFeedOf(x, p)
      <4>1. ASSUME NEW b \in Band
            PROVE  /\ MainFeedOf(<<Crossover, 2 + 2 * b + i>>, p)
                   /\ MainFeedOf(<<MeterPre(b), 4 + 0>>, p)
                   /\ MainFeedOf(<<MeterPre(b), 4 + 1>>, p)
        <5> DEFINE z == 0
                   u == 1
        <5>1. z \in 0..1 /\ u \in 0..1
          OBVIOUS
        <5> HIDE DEF z, u
        <5>2. /\ MainFeedOf(<<Crossover, 2 + 2 * b + i>>, CompLim)
              /\ MainFeedOf(<<MeterPre(b), 4 + z>>, CompLim)
              /\ MainFeedOf(<<MeterPre(b), 4 + u>>, CompLim)
          BY <2>1, <5>1, FeedsOfBands
        <5>3. QED
          BY <1>7, <5>2 DEF z, u
      <4>2. \A b \in Band : BandSources(b, i) =
              {<<Crossover, 2 + 2 * b + i>>, <<MeterPre(b), 4>>, <<MeterPre(b), 5>>}
        BY <1>2, <2>1, BandSourcesLemma
      <4>3. 4 + 0 = 4 /\ 4 + 1 = 5
        OBVIOUS
      <4>4. ASSUME NEW b \in Band, NEW x \in BandSources(b, i)
            PROVE  MainFeedOf(x, p)
        <5>1. \/ x = <<Crossover, 2 + 2 * b + i>>
              \/ x = <<MeterPre(b), 4 + 0>>
              \/ x = <<MeterPre(b), 4 + 1>>
          BY <4>2, <4>3, <4>4
        <5>2. QED
          BY <4>1, <5>1
      <4>5. QED
        BY <4>4
    <3>3. 0 \in Band /\ BandSources(0, i) # {}
      BY Constants DEF Band, BandSources
    <3>4. QED
      BY <3>1, <3>2, <3>3 DEF MainFeedOf
  <2>4. QED
    BY <2>2, <2>3
<1>8. QED
  BY <1>3, <1>4, <1>5, <1>6, <1>7 DEF Flow, Simple

-----------------------------------------------------------------------------
(* Running a plugin.                                                       *)

(* A set of ages has an oldest one.                                        *)
LEMMA Oldest ==
  ASSUME NEW S \in SUBSET (0..MaxAge), S # {}
  PROVE  \E a \in S : \A x \in S : x <= a
<1> DEFINE T == {MaxAge - a : a \in S}
<1>1. MaxAge \in Nat /\ \A a \in S : a \in Nat /\ a <= MaxAge
  BY Constants
<1>2. T \subseteq Nat /\ T # {}
  <2>1. \A a \in S : MaxAge - a \in Nat
    BY <1>1
  <2>2. QED
    BY <2>1
<1>3. IsWellFoundedOn(OpToRel(<, Nat), Nat)
  BY NatLessThanWellFounded
<1> HIDE DEF T
<1>4. PICK t \in T : \A y \in T : ~(<<y, t>> \in OpToRel(<, Nat))
  BY <1>2, <1>3, WFMin
<1>5. \A y \in T : ~(y < t)
  BY <1>2, <1>4 DEF OpToRel
<1>6. PICK a \in S : t = MaxAge - a
  BY DEF T
<1>7. ASSUME NEW x \in S
      PROVE  x <= a
  <2>1. MaxAge - x \in T
    BY DEF T
  <2>2. ~(MaxAge - x < MaxAge - a)
    BY <1>5, <1>6, <2>1
  <2>3. QED
    BY <1>1, <2>2
<1>8. QED
  BY <1>7

LEMMA EffectLemma ==
  ASSUME Types, NEW p \in Plugin
  PROVE  /\ Effect(p) \subseteq {p} /\ Effect(p) \subseteq Effects
         /\ p \in Audible => Effect(p) = IF enabled[p] THEN {p} ELSE {}
         /\ p \notin Audible \cup {GainInput} => Effect(p) = {}
         /\ p = GainInput => Effect(p) = {p}
<1>1. GainInput \notin Audible
  BY Names DEF Jack, MeterMainIn, GainInput, MeterPostGain, Hpf, PhaseRotator,
       AgcFront, StereoEnhance, BassEnhancer, PrecompEq, Crossover, CompLim,
       Delay, MeterMainOut, MeterPre, MeterPost
<1>2. QED
  BY <1>1 DEF Effect, Effects

LEMMA ComputedFrom ==
  ASSUME Types, NEW p \in Plugin, NEW D, NEW c \in [D -> Contents],
         NEW bs \in SUBSET D, bs # {}
  PROVE  /\ Computed(p, bs, c) \in Contents
         /\ \E b \in bs : Computed(p, bs, c).age = c[b].age
         /\ \A b \in bs : c[b].age <= Computed(p, bs, c).age
         /\ Computed(p, bs, c).fx = (UNION {c[b].fx : b \in bs}) \cup Effect(p)
<1>2. \A b \in bs : c[b].age \in 0..MaxAge /\ c[b].fx \subseteq Effects
  BY DEF Contents
<1> DEFINE S == {c[b].age : b \in bs}
           top == CHOOSE a \in S : \A b \in bs : c[b].age <= a
           fx == (UNION {c[b].fx : b \in bs}) \cup Effect(p)
<1>3. S \in SUBSET (0..MaxAge) /\ S # {}
  BY <1>2
<1>4. \E a \in S : \A x \in S : x <= a
  <2> HIDE DEF S
  <2>1. QED
    BY <1>3, Oldest
<1>5. \E a \in S : \A b \in bs : c[b].age <= a
  BY <1>4
<1>6. top \in S /\ \A b \in bs : c[b].age <= top
  BY <1>5
<1>7. fx \subseteq Effects
  <2>1. Effect(p) \subseteq Effects
    BY EffectLemma
  <2> DEFINE all == UNION {c[b].fx : b \in bs}
  <2>2. all \subseteq Effects
    BY <1>2
  <2>3. all \cup Effect(p) \subseteq Effects
    <3> HIDE DEF all
    <3>1. QED
      BY <2>1, <2>2
  <2>4. QED
    BY <2>3
<1>8. Computed(p, bs, c) = [age |-> top, fx |-> fx]
  BY DEF Computed
<1> HIDE DEF top, fx
<1>9. /\ Computed(p, bs, c).age = top
      /\ Computed(p, bs, c).fx = fx
  BY <1>8
<1>10. Computed(p, bs, c) \in Contents
  BY <1>3, <1>6, <1>7, <1>8 DEF Contents
<1>11. QED
  BY <1>6, <1>9, <1>10 DEF fx

LEMMA ComputedLemma ==
  ASSUME Types, NEW p \in Plugin, NEW bs \in SUBSET Buffer, bs # {}
  PROVE  /\ Computed(p, bs, content) \in Contents
         /\ \E b \in bs : Computed(p, bs, content).age = content[b].age
         /\ \A b \in bs : content[b].age <= Computed(p, bs, content).age
         /\ Computed(p, bs, content).fx
              = (UNION {content[b].fx : b \in bs}) \cup Effect(p)
<1>1. content \in [Buffer -> Contents]
  BY DEF Types
<1>2. QED
  BY <1>1, ComputedFrom

(* Every plugin but the first meter computes each buffer it writes from    *)
(* buffers that exist.                                                     *)
LEMMA SourcesLemma ==
  ASSUME Types, NEW p \in Plugin \ {MeterMainIn}, NEW i \in Writes(p)
  PROVE  /\ Sources(p, i) \subseteq Buffer /\ Sources(p, i) # {}
         /\ <<p, i>> \in Buffer
<1>1. i \in Nat /\ <<p, i>> \in Buffer
  <2>1. NumOut(p) \in Nat /\ NumOut(p) >= 2
    BY Outputs
  <2>2. i \in Nat /\ i < NumOut(p)
    BY <2>1 DEF Writes
  <2>3. QED
    BY <2>2, InBuffer
<1> DEFINE s == i % 2
<1>2. s \in 0..1
  BY <1>1
<1>3. Wired
  BY DEF Types
<1>4. ASSUME NEW q \in Plugin \cup {Jack}, NEW j \in Nat, j < NumOut(q)
      PROVE  <<q, j>> \in Buffer
  BY <1>4, InBuffer
<1>5. ASSUME NEW q \in Plugin \cup {Jack}, NEW j \in 0..1
      PROVE  <<q, j>> \in Buffer
  <2>1. NumOut(q) \in Nat /\ NumOut(q) >= 2
    BY Outputs
  <2>2. QED
    BY <1>4, <2>1
<1>6. ASSUME NEW b \in Band, NEW j \in 0..1
      PROVE  /\ <<Crossover, 2 + 2 * b + j>> \in Buffer
             /\ <<CompLim, 2 + 2 * b + j>> \in Buffer
             /\ <<MeterPre(b), 4>> \in Buffer /\ <<MeterPre(b), 5>> \in Buffer
  <2>1. /\ 2 + 2 * b + j \in Nat /\ 2 + 2 * b + j < NumOut(Crossover)
        /\ 2 + 2 * b + j < NumOut(CompLim)
    BY Constants, Outputs
  <2>2. Crossover \in Plugin /\ CompLim \in Plugin
    BY DEF Plugin
  <2>3. MeterPre(b) \in Meter /\ MeterPre(b) \in Plugin
    BY Names
  <2>4. NumOut(MeterPre(b)) = 6
    BY <2>3, Outputs
  <2>5. QED
    BY <1>4, <2>1, <2>2, <2>3, <2>4
<1>7. ASSUME NEW q \in Simple \ {MeterMainOut}, NEW j \in 0..1
      PROVE  In(q, j) \in Buffer
  <2>1. In(q, j) = <<InputOf[q], j>>
    BY <1>3, Inputs
  <2>2. InputOf[q] \in Plugin
    BY <1>7, InputOfLemma DEF Simple, Plugin, Meter
  <2>3. QED
    BY <1>5, <2>1, <2>2
<1>8. CASE p \in Simple \ {MeterMainOut} /\ ~(p = StereoEnhance /\ enabled[p])
  <2>1. p # AgcFront /\ p # CompLim
    BY <1>8 DEF Simple, Jack, MeterMainIn, GainInput, MeterPostGain, Hpf, PhaseRotator,
       AgcFront, StereoEnhance, BassEnhancer, PrecompEq, Crossover, CompLim,
       Delay, MeterMainOut, MeterPre, MeterPost
  <2>2. Sources(p, i) = {In(p, s)}
    BY <1>8, <2>1 DEF Sources
  <2> HIDE DEF s
  <2>3. QED
    BY <1>1, <1>2, <1>7, <1>8, <2>2
<1>9. CASE p = StereoEnhance /\ enabled[p]
  <2>1. Sources(p, i) = {In(p, 0), In(p, 1)}
    BY <1>9 DEF Sources, StereoSources, Jack, MeterMainIn, GainInput, MeterPostGain, Hpf, PhaseRotator,
       AgcFront, StereoEnhance, BassEnhancer, PrecompEq, Crossover, CompLim,
       Delay, MeterMainOut, MeterPre, MeterPost
  <2>2. p \in Simple \ {MeterMainOut}
    BY <1>9 DEF Simple, StereoEnhance, MeterMainOut
  <2>3. QED
    BY <1>1, <1>7, <2>1, <2>2
<1>10. CASE p = MeterMainOut
  <2>1. Sources(p, i) = {In(p, s)}
    BY <1>10 DEF Sources, Jack, MeterMainIn, GainInput, MeterPostGain, Hpf, PhaseRotator,
       AgcFront, StereoEnhance, BassEnhancer, PrecompEq, Crossover, CompLim,
       Delay, MeterMainOut, MeterPre, MeterPost
  <2> HIDE DEF s
  <2>2. In(p, s) \in {<<Delay, s>>, <<Jack, s>>}
    <3>1. bufsIn[p] \in {Pair(Delay, 0), Pair(Jack, 0)}
      BY <1>3, <1>10 DEF Wired
    <3>2. CASE s = 0
      BY <3>1, <3>2 DEF In, Pair
    <3>3. CASE s = 1
      BY <3>1, <3>3 DEF In, Pair
    <3>4. QED
      BY <1>2, <3>2, <3>3
  <2>3. Delay \in Plugin
    BY DEF Plugin
  <2>4. <<Delay, s>> \in Buffer /\ <<Jack, s>> \in Buffer
    BY <1>2, <1>5, <2>3
  <2>5. QED
    BY <1>1, <2>1, <2>2, <2>4
<1>11. CASE p = AgcFront
  <2>1. i \in 0..1
    BY <1>11 DEF Writes
  <2>2. /\ \A b \in Sources(p, i) : FeedOf(b, p)
        /\ \E b \in Sources(p, i) : MainFeedOf(b, p)
    <3>1. AgcFront \in Flow \ {GainInput} /\ Live(AgcFront) = 0..1
      BY LiveLemma DEF Flow, AgcFront, GainInput
    <3>2. QED
      BY <1>11, <2>1, <3>1, Feeds
  <2>3. ASSUME NEW b \in Sources(p, i)
        PROVE  b \in Buffer
    <3>1. b = <<b[1], b[2]>> /\ b[1] \in Flow /\ b[2] \in Live(b[1])
      BY <2>2 DEF FeedOf
    <3>2. b[1] \in Plugin /\ NumOut(b[1]) \in Nat
      BY <3>1, Names, Outputs
    <3>3. b[2] \in Nat /\ b[2] < NumOut(b[1])
      BY <3>1, <3>2, LiveLemma
    <3>4. QED
      BY <1>4, <3>1, <3>2, <3>3
  <2>4. QED
    BY <1>1, <2>2, <2>3
<1>12. CASE p \in {MeterPre(b) : b \in Band} \cup {MeterPost(b) : b \in Band}
  <2>1. PICK b \in Band : p = MeterPre(b) \/ p = MeterPost(b)
    BY <1>12
  <2>2. Sources(p, i) = {In(p, s)}
    BY <2>1 DEF Sources, Jack, MeterMainIn, GainInput, MeterPostGain, Hpf, PhaseRotator,
       AgcFront, StereoEnhance, BassEnhancer, PrecompEq, Crossover, CompLim,
       Delay, MeterMainOut, MeterPre, MeterPost
  <2> HIDE DEF s
  <2>3. /\ In(MeterPre(b), s) = <<Crossover, 2 + 2 * b + s>>
        /\ In(MeterPost(b), s) = <<CompLim, 2 + 2 * b + s>>
    BY <1>2, <1>3, Inputs
  <2>4. QED
    BY <1>1, <1>2, <1>6, <2>1, <2>2, <2>3
<1>13. CASE p = CompLim /\ ~enabled[p]
  <2>1. Sources(p, i) = {In(p, s)}
    BY <1>13 DEF Sources, Jack, MeterMainIn, GainInput, MeterPostGain, Hpf, PhaseRotator,
       AgcFront, StereoEnhance, BassEnhancer, PrecompEq, Crossover, CompLim,
       Delay, MeterMainOut, MeterPre, MeterPost
  <2> HIDE DEF s
  <2>2. In(p, s) = <<Crossover, s>> /\ Crossover \in Plugin
    BY <1>2, <1>3, <1>13, Inputs DEF Plugin
  <2>3. QED
    BY <1>1, <1>2, <1>5, <2>1, <2>2
<1>14. CASE p = CompLim /\ enabled[p]
  <2>1. Sources(p, i) = CompLimSources(i)
    BY <1>14 DEF Sources, Jack, MeterMainIn, GainInput, MeterPostGain, Hpf, PhaseRotator,
       AgcFront, StereoEnhance, BassEnhancer, PrecompEq, Crossover, CompLim,
       Delay, MeterMainOut, MeterPre, MeterPost
  <2>2. ASSUME NEW b \in Band, NEW j \in 0..1
        PROVE  /\ BandSources(b, j) \subseteq Buffer /\ BandSources(b, j) # {}
               /\ BandLevel(b) \subseteq Buffer /\ BandLevel(b) # {}
    <3>1. /\ BandLevel(b) = {<<MeterPre(b), 4>>, <<MeterPre(b), 5>>}
          /\ BandSources(b, j) = {<<Crossover, 2 + 2 * b + j>>,
                                  <<MeterPre(b), 4>>, <<MeterPre(b), 5>>}
      BY <1>3, BandSourcesLemma
    <3>2. QED
      BY <1>6, <3>1
  <2>3. CompLimSources(i) \subseteq Buffer /\ CompLimSources(i) # {}
    <3>1. CASE i \in 0..1
      <4>1. CompLimSources(i) = UNION {BandSources(b, i) : b \in Band}
        BY <3>1 DEF CompLimSources
      <4>2. \A b \in Band : BandSources(b, i) \subseteq Buffer
                            /\ BandSources(b, i) # {}
        BY <2>2, <3>1
      <4>3. 0 \in Band
        BY Constants DEF Band
      <4>4. QED
        BY <4>1, <4>2, <4>3
    <3>2. CASE i \in 2..(2 * NBands + 1)
      <4>1. CompLimSources(i) = BandSources((i - 2) \div 2, i % 2)
        BY <3>2 DEF CompLimSources
      <4>2. (i - 2) \div 2 \in Band /\ i % 2 \in 0..1
        BY <1>1, <3>2, Constants DEF Band
      <4>3. QED
        BY <2>2, <4>1, <4>2
    <3>3. CASE i > 2 * NBands + 1
      <4>1. CompLimSources(i) = BandLevel(i - 2 - 2 * NBands)
        BY <1>1, <3>3, Constants DEF CompLimSources
      <4>2. i - 2 - 2 * NBands \in Band
        <5>1. i < 3 * NBands + 2
          BY <1>1, <1>14, Constants, Outputs, InBuffer DEF Plugin
        <5>2. QED
          BY <1>1, <3>3, <5>1, Constants DEF Band
      <4>3. QED
        BY <2>2, <4>1, <4>2
    <3>4. QED
      BY <1>1, <3>1, <3>2, <3>3, Constants
  <2>4. QED
    BY <1>1, <2>1, <2>3
<1>15. p \in (Simple \ {MeterMainOut}) \cup {MeterMainOut, AgcFront, CompLim}
        \cup {MeterPre(b) : b \in Band} \cup {MeterPost(b) : b \in Band}
  BY DEF Plugin, Meter, Simple
<1>16. QED
  BY <1>8, <1>9, <1>10, <1>11, <1>12, <1>13, <1>14, <1>15

(* What do_process() leaves alone, and what it writes.                     *)
LEMMA RunLemma ==
  ASSUME Types, NEW p \in Plugin \ {MeterMainIn}
  PROVE  /\ Run(p, content) \in [Buffer -> Contents]
         /\ \A b \in Buffer :
              (b[1] # p /\ (b[1] = Hpf => p # PhaseRotator)) =>
                Run(p, content)[b] = content[b]
         /\ \A i \in Writes(p) :
              Run(p, content)[<<p, i>>] = Computed(p, Sources(p, i), content)
         /\ \A i \in Nat : (<<p, i>> \in Buffer /\ i \notin Writes(p)
                              /\ p # PhaseRotator) =>
              Run(p, content)[<<p, i>>] = content[<<p, i>>]
<1>1. content \in [Buffer -> Contents]
  BY DEF Types
<1>2. ASSUME NEW b \in Scratch(p)
      PROVE  b[1] = Hpf /\ p = PhaseRotator
  <2>1. p = PhaseRotator /\ b \in {In(p, 0), In(p, 1)}
    BY DEF Scratch
  <2>2. PhaseRotator \in Simple \ {MeterMainOut}
    BY DEF Simple, PhaseRotator, MeterMainOut
  <2>3. In(p, 0) = <<Hpf, 0>> /\ In(p, 1) = <<Hpf, 1>>
    BY <2>1, <2>2, Inputs, InputOfLemma DEF Types
  <2>4. QED
    BY <2>1, <2>3
<1>3. ASSUME NEW b \in Buffer
      PROVE  /\ Run(p, content)[b] \in Contents
             /\ (b[1] # p /\ (b[1] = Hpf => p # PhaseRotator)) =>
                  Run(p, content)[b] = content[b]
             /\ (b[1] = p /\ b[2] \in Writes(p)) =>
                  Run(p, content)[b] = Computed(p, Sources(p, b[2]), content)
             /\ (b[1] = p /\ b[2] \notin Writes(p) /\ p # PhaseRotator) =>
                  Run(p, content)[b] = content[b]
  <2>1. CASE b[1] = p /\ b[2] \in Writes(p)
    <3>1. Run(p, content)[b] = Computed(p, Sources(p, b[2]), content)
      BY <2>1 DEF Run
    <3>2. Sources(p, b[2]) \subseteq Buffer /\ Sources(p, b[2]) # {}
      BY <2>1, SourcesLemma
    <3>3. Computed(p, Sources(p, b[2]), content) \in Contents
      BY <3>2, ComputedLemma
    <3>4. QED
      BY <2>1, <3>1, <3>3
  <2>2. CASE ~(b[1] = p /\ b[2] \in Writes(p)) /\ b \in Scratch(p)
    <3>1. Run(p, content)[b] = Computed(p, {b}, content)
      BY <2>2 DEF Run
    <3>2. {b} \subseteq Buffer /\ {b} # {}
      OBVIOUS
    <3>3. Computed(p, {b}, content) \in Contents
      BY <3>2, ComputedLemma
    <3>4. QED
      BY <1>2, <2>2, <3>1, <3>3
  <2>3. CASE ~(b[1] = p /\ b[2] \in Writes(p)) /\ b \notin Scratch(p)
    <3>1. Run(p, content)[b] = content[b]
      BY <2>3 DEF Run
    <3>2. QED
      BY <1>1, <2>3, <3>1
  <2>4. QED
    BY <2>1, <2>2, <2>3
<1>4. \A i \in Writes(p) : <<p, i>> \in Buffer
  BY SourcesLemma
<1>5. Run(p, content) = [b \in Buffer |-> Run(p, content)[b]]
  BY DEF Run
<1>6. Run(p, content) \in [Buffer -> Contents]
  BY <1>3, <1>5
<1>7. QED
  BY <1>3, <1>4, <1>6

(* A plugin whose turn it is has the block at its inputs, and hands on     *)
(* what is right as far as its own place in the chain.                     *)
LEMMA HandsOn ==
  ASSUME Types, BlockIn, FlowSound, NEW p \in Flow, Turn(p), NEW i \in Live(p)
  PROVE  Sound(Run(p, content)[<<p, i>>], Place(p), Passed(p))
<1>1. stage = Place(p) /\ stage \in DOMAIN Chain /\ stage \in 1..(11 + 2 * NBands)
  BY TurnLemma DEF Turn
<1>2. p \in Plugin \ {MeterMainIn} /\ i \in Writes(p)
  BY Names, LiveLemma
<1> DEFINE bs == Sources(p, i)
           c == Run(p, content)[<<p, i>>]
<1>3. /\ bs \subseteq Buffer /\ bs # {}
      /\ c = Computed(p, bs, content)
  BY <1>2, SourcesLemma, RunLemma
<1> HIDE DEF bs
<1>4. c \in Contents
  BY <1>2, <1>3, ComputedLemma
<1>5. /\ \E b \in bs : c.age = content[b].age
      /\ \A b \in bs : content[b].age <= c.age
      /\ c.fx = (UNION {content[b].fx : b \in bs}) \cup Effect(p)
  BY <1>2, <1>3, ComputedLemma
<1> HIDE DEF c
<1>6. c.age \in Nat /\ \A b \in bs : content[b].age \in Nat
  BY <1>3, <1>4, Constants DEF Types, Contents
<1>7. CASE p = GainInput
  <2>1. \A b \in bs : content[b] = [age |-> 0, fx |-> {}]
    <3> DEFINE s == i % 2
    <3>1. i \in Nat /\ s \in 0..1
      BY LiveLemma, Outputs, Names
    <3>2. bs = {In(p, s)}
      BY <1>7 DEF bs, Sources, Jack, MeterMainIn, GainInput, MeterPostGain, Hpf, PhaseRotator,
       AgcFront, StereoEnhance, BassEnhancer, PrecompEq, Crossover, CompLim,
       Delay, MeterMainOut, MeterPre, MeterPost
    <3> HIDE DEF s
    <3>3. In(p, s) = <<MeterMainIn, s>>
      <4>1. GainInput \in Simple \ {MeterMainOut}
        BY DEF Simple, GainInput, MeterMainOut
      <4>2. QED
        BY <1>7, <3>1, <4>1, Inputs, InputOfLemma DEF Types
    <3>4. stage # Idle
      BY <1>1 DEF Idle
    <3>5. content[<<MeterMainIn, s>>] = [age |-> 0, fx |-> {}]
      BY <3>1, <3>4 DEF BlockIn
    <3>6. QED
      BY <3>2, <3>3, <3>5
  <2>2. c.age = 0
    BY <1>5, <2>1
  <2>3. c.fx = {GainInput}
    <3>1. Effect(p) = {GainInput}
      BY <1>2, <1>7, EffectLemma
    <3>2. UNION {content[b].fx : b \in bs} = {}
      BY <2>1
    <3>3. QED
      BY <1>5, <3>1, <3>2
  <2>4. Passed(p) = {} /\ GainInput \notin Audible
    BY <1>7, PassedLemma, Names DEF Jack, MeterMainIn, GainInput, MeterPostGain, Hpf, PhaseRotator,
       AgcFront, StereoEnhance, BassEnhancer, PrecompEq, Crossover, CompLim,
       Delay, MeterMainOut, MeterPre, MeterPost
  <2>5. QED
    BY <2>2, <2>3, <2>4 DEF Sound, Correct, c
<1>8. CASE p # GainInput
  <2>1. /\ \A b \in bs : FeedOf(b, p)
        /\ \E b \in bs : MainFeedOf(b, p)
    BY <1>8, Feeds DEF bs
  <2>2. ASSUME NEW b \in bs
        PROVE  Sound(content[b], Place(b[1]), Passed(b[1]))
    <3>1. /\ b = <<b[1], b[2]>> /\ b[1] \in Flow /\ b[2] \in Live(b[1])
          /\ Place(b[1]) < Place(p) /\ (b[1] = Hpf => p = PhaseRotator)
      BY <2>1 DEF FeedOf
    <3>2. Ran(b[1]) /\ b[1] # Delay
      BY <1>1, <3>1, PlaceLemma, Constants DEF Ran, InChain
    <3>3. QED
      BY <3>1, <3>2 DEF FlowSound
  <2>3. c.age = 0 \/ (Stale /\ Place(p) >= 7)
    <3>1. PICK b \in bs : c.age = content[b].age
      BY <1>5
    <3>2. CASE content[b].age # 0
      <4>1. Stale /\ Place(b[1]) >= 7
        BY <2>2, <3>2 DEF Sound
      <4>2. Place(b[1]) < Place(p) /\ b[1] \in Flow
        BY <2>1 DEF FeedOf
      <4>3. Place(b[1]) \in Int /\ Place(p) \in Int
        BY <4>2, PlaceLemma, Constants DEF Flow
      <4>4. QED
        BY <4>1, <4>2, <4>3
    <3>3. QED
      BY <3>1, <3>2
  <2>4. ASSUME c.age = 0
        PROVE  Correct(c.fx, Passed(p))
    <3>1. \A b \in bs : Correct(content[b].fx, Passed(b[1]))
      <4>1. \A b \in bs : content[b].age = 0
        BY <1>5, <1>6, <2>4
      <4>2. QED
        BY <2>2, <4>1 DEF Sound
    <3>2. GainInput \in c.fx
      BY <1>3, <1>5, <3>1 DEF Correct
    <3>3. ASSUME NEW q \in Audible \ touched
          PROVE  q \in c.fx <=> q \in Passed(p) /\ enabled[q]
      <4>1. \A b \in bs : q \in content[b].fx <=> q \in Passed(b[1]) /\ enabled[q]
        BY <3>1 DEF Correct
      <4>2. \A b \in bs : Passed(b[1]) \subseteq Passed(p) \ {p}
        BY <2>1 DEF FeedOf
      <4>3. \E b \in bs : Passed(b[1]) = Passed(p) \ {p}
        BY <2>1 DEF MainFeedOf
      <4>4. q \in c.fx <=> (\E b \in bs : q \in content[b].fx) \/ q \in Effect(p)
        BY <1>5
      <4>5. CASE q = p
        <5>1. q \in Effect(p) <=> enabled[q]
          BY <1>2, <4>5, EffectLemma
        <5>2. q \in Passed(p)
          <6>1. Place(p) \in Int
            BY PlaceLemma, Constants DEF Flow
          <6>2. QED
            BY <4>5, <6>1 DEF Passed
        <5>3. ~ \E b \in bs : q \in content[b].fx
          BY <4>1, <4>2, <4>5
        <5>4. QED
          BY <4>4, <5>1, <5>2, <5>3
      <4>6. CASE q # p
        <5>1. q \notin Effect(p)
          BY <1>2, <4>6, EffectLemma
        <5>2. (\E b \in bs : q \in content[b].fx) <=> q \in Passed(p) /\ enabled[q]
          BY <4>1, <4>2, <4>3, <4>6
        <5>3. QED
          BY <4>4, <5>1, <5>2
      <4>7. QED
        BY <4>5, <4>6
    <3>4. QED
      BY <3>2, <3>3 DEF Correct
  <2>5. QED
    BY <2>3, <2>4 DEF Sound, c
<1>9. QED
  BY <1>7, <1>8

LEMMA ChainPlace ==
  /\ \A p \in Flow \cup {MeterPost(b) : b \in Band} :
       Place(p) \in DOMAIN Chain /\ Chain[Place(p)] = p
  /\ \A i \in DOMAIN Chain : i # 7 => Chain[i] # BassEnhancer
  /\ \A i \in DOMAIN Chain : i # 4 => Chain[i] # PhaseRotator
<1>1. NBands \in Nat \ {0} /\ \A b \in Band : b \in Nat /\ b < NBands
  BY Constants
<1>2. ASSUME NEW p \in Flow \cup {MeterPost(b) : b \in Band}
      PROVE  Place(p) \in DOMAIN Chain /\ Chain[Place(p)] = p
  <2>1. CASE p \in {GainInput, MeterPostGain, Hpf, PhaseRotator, AgcFront,
                    StereoEnhance, BassEnhancer, PrecompEq, Crossover,
                    CompLim, Delay}
    BY <1>1, <2>1, PlaceLemma, ChainLemma
  <2>2. CASE p \in {MeterPre(b) : b \in Band} \cup {MeterPost(b) : b \in Band}
    <3>1. PICK b \in Band : p = MeterPre(b) \/ p = MeterPost(b)
      BY <2>2
    <3>2. /\ 10 + b \in 1..(11 + 2 * NBands)
          /\ 11 + NBands + b \in 1..(11 + 2 * NBands)
      BY <1>1
    <3>3. QED
      BY <3>1, <3>2, PlaceLemma, ChainLemma
  <2>3. QED
    BY <2>1, <2>2 DEF Flow
<1>3. QED
  BY <1>2, StagesLemma, PlaceLemma

LEMMA Existing ==
  /\ \A p \in Plugin \cup {Jack}, i \in 0..1 : <<p, i>> \in Buffer
  /\ \A q \in Flow : \A i \in Live(q) : <<q, i>> \in Buffer
  /\ \A i \in 0..(3 * NBands + 1) : <<CompLim, i>> \in Buffer
  /\ \A p \in Meter : <<p, 4>> \in Buffer
  /\ LiveLevel \subseteq Buffer
  /\ OnAir \subseteq Buffer
<1>1. ASSUME NEW p \in Plugin \cup {Jack}, NEW i \in 0..1
      PROVE  <<p, i>> \in Buffer
  <2>1. NumOut(p) \in Nat /\ NumOut(p) >= 2
    BY Outputs
  <2>2. QED
    BY <2>1, InBuffer
<1>2. ASSUME NEW q \in Flow, NEW i \in Live(q)
      PROVE  <<q, i>> \in Buffer
  <2>1. q \in Plugin /\ NumOut(q) \in Nat /\ i \in 0..(NumOut(q) - 1)
    BY Outputs, Names, LiveLemma
  <2>2. QED
    BY <2>1, InBuffer
<1>3. CompLim \in Plugin /\ NumOut(CompLim) = 3 * NBands + 2 /\ NBands \in Nat
  BY Outputs, Constants DEF Plugin
<1>4. ASSUME NEW i \in 0..(3 * NBands + 1)
      PROVE  <<CompLim, i>> \in Buffer
  BY <1>3, InBuffer
<1>5. ASSUME NEW p \in Meter
      PROVE  <<p, 4>> \in Buffer
  <2>1. p \in Plugin /\ NumOut(p) = 6
    BY Names, Outputs
  <2>2. QED
    BY <2>1, InBuffer
<1>6. LiveLevel \subseteq Buffer
  <2>1. /\ MeterMainIn \in Meter /\ MeterMainOut \in Meter
        /\ AgcFront \in Plugin
        /\ \A b \in Band : MeterPre(b) \in Meter /\ MeterPost(b) \in Meter
    BY DEF Meter, Plugin
  <2>2. \A b \in Band : 2 + 2 * NBands + b \in 0..(3 * NBands + 1)
    BY Constants
  <2>3. LevelsIn \cup LevelsOut \cup LevelsPre \cup LevelsPost \subseteq Buffer
    BY <1>5, <2>1 DEF LevelsIn, LevelsOut, LevelsPre, LevelsPost
  <2>4. LevelsAgc \subseteq Buffer
    <3>1. 0 \in 0..1
      OBVIOUS
    <3>2. <<AgcFront, 0>> \in Buffer
      BY <1>1, <2>1, <3>1
    <3>3. QED
      BY <3>2 DEF LevelsAgc
  <2>5. LevelsComp \subseteq Buffer
    BY <1>4, <2>2 DEF LevelsComp
  <2>6. QED
    BY <2>3, <2>4, <2>5 DEF LiveLevel
<1>7. OnAir \subseteq Buffer
  <2>1. NumOut(Jack) = 4
    BY Outputs
  <2>2. QED
    BY <2>1, InBuffer DEF OnAir
<1>8. QED
  BY <1>1, <1>2, <1>4, <1>5, <1>6, <1>7

(* What was right stays right while switches are thrown.                   *)
LEMMA SoundKept ==
  ASSUME NEW c, NEW k, NEW S, Sound(c, k, S),
         folded' = folded, touched \subseteq touched',
         \A q \in Audible \ touched' : enabled'[q] = enabled[q]
  PROVE  /\ c.age = 0 \/ (Stale' /\ k >= 7)
         /\ c.age = 0 =>
              /\ GainInput \in c.fx
              /\ \A q \in Audible \ touched' :
                   q \in c.fx <=> q \in S /\ enabled'[q]
<1>1. Stale => Stale'
  BY DEF Stale
<1>2. c.age = 0 \/ (Stale' /\ k >= 7)
  BY <1>1 DEF Sound
<1>3. ASSUME c.age = 0
      PROVE  /\ GainInput \in c.fx
             /\ \A q \in Audible \ touched' :
                  q \in c.fx <=> q \in S /\ enabled'[q]
  <2>1. Correct(c.fx, S)
    BY <1>3 DEF Sound
  <2>2. QED
    BY <2>1 DEF Correct
<1>4. QED
  BY <1>2, <1>3

(* In a build that folds the test, what the compressor writes for its      *)
(* bands is of the current block.                                          *)
LEMMA BandsCurrent ==
  ASSUME Types, FlowSound, folded, Turn(CompLim), enabled[CompLim],
         NEW i \in 2..(3 * NBands + 1)
  PROVE  Run(CompLim, content)[<<CompLim, i>>].age = 0
<1>1. stage = 10 + NBands /\ stage \in DOMAIN Chain
  BY TurnLemma, PlaceLemma DEF Turn
<1>2. NBands \in Nat /\ \A b \in Band : b \in Nat /\ b < NBands
  BY Constants
<1>3. CompLim \in Plugin \ {MeterMainIn} /\ i \in Writes(CompLim)
  <2>1. CompLim \in Plugin /\ CompLim # MeterMainIn /\ CompLim # AgcFront
    BY DEF Plugin, Jack, MeterMainIn, GainInput, MeterPostGain, Hpf, PhaseRotator,
       AgcFront, StereoEnhance, BassEnhancer, PrecompEq, Crossover, CompLim,
       Delay, MeterMainOut, MeterPre, MeterPost
  <2>2. Writes(CompLim) = 0..(3 * NBands + 1)
    <3>1. NumOut(CompLim) - 1 = 3 * NBands + 1
      BY <1>2, Outputs
    <3>2. QED
      BY <2>1, <3>1 DEF Writes
  <2>3. QED
    BY <1>2, <2>1, <2>2
<1>4. ASSUME NEW b \in Band, NEW s \in 0..1
      PROVE  /\ content[<<Crossover, 2 + 2 * b + s>>].age = 0
             /\ content[<<MeterPre(b), 4>>].age = 0
             /\ content[<<MeterPre(b), 5>>].age = 0
  <2>1. /\ Crossover \in Flow \ {Delay} /\ Crossover # Hpf
        /\ MeterPre(b) \in Flow \ {Delay} /\ MeterPre(b) # Hpf
    BY DEF Flow, Jack, MeterMainIn, GainInput, MeterPostGain, Hpf, PhaseRotator,
       AgcFront, StereoEnhance, BassEnhancer, PrecompEq, Crossover, CompLim,
       Delay, MeterMainOut, MeterPre, MeterPost
  <2>2. Ran(Crossover) /\ Ran(MeterPre(b))
    BY <1>1, <1>2, <2>1, PlaceLemma DEF Ran, InChain
  <2>3. /\ 2 + 2 * b + s \in Live(Crossover)
        /\ 4 \in Live(MeterPre(b)) /\ 5 \in Live(MeterPre(b))
    BY <1>2, LiveLemma
  <2>4. /\ Sound(content[<<Crossover, 2 + 2 * b + s>>], Place(Crossover),
                 Passed(Crossover))
        /\ Sound(content[<<MeterPre(b), 4>>], Place(MeterPre(b)),
                 Passed(MeterPre(b)))
        /\ Sound(content[<<MeterPre(b), 5>>], Place(MeterPre(b)),
                 Passed(MeterPre(b)))
    BY <2>1, <2>2, <2>3 DEF FlowSound
  <2>5. QED
    BY <2>4 DEF Sound, Stale
<1>5. ASSUME NEW b \in Band, NEW s \in 0..1
      PROVE  /\ \A x \in BandSources(b, s) : content[x].age = 0
             /\ \A x \in BandLevel(b) : content[x].age = 0
  <2>1. /\ BandLevel(b) = {<<MeterPre(b), 4>>, <<MeterPre(b), 5>>}
        /\ BandSources(b, s) = {<<Crossover, 2 + 2 * b + s>>,
                                <<MeterPre(b), 4>>, <<MeterPre(b), 5>>}
    BY BandSourcesLemma DEF Types
  <2>2. /\ content[<<Crossover, 2 + 2 * b + s>>].age = 0
        /\ content[<<MeterPre(b), 4>>].age = 0
        /\ content[<<MeterPre(b), 5>>].age = 0
    BY <1>4
  <2>3. QED
    BY <2>1, <2>2
<1>6. \A x \in Sources(CompLim, i) : content[x].age = 0
  <2>1. Sources(CompLim, i) = CompLimSources(i)
    BY DEF Sources, Jack, MeterMainIn, GainInput, MeterPostGain, Hpf, PhaseRotator,
       AgcFront, StereoEnhance, BassEnhancer, PrecompEq, Crossover, CompLim,
       Delay, MeterMainOut, MeterPre, MeterPost
  <2>2. CASE i \in 2..(2 * NBands + 1)
    <3>1. CompLimSources(i) = BandSources((i - 2) \div 2, i % 2)
      BY <2>2 DEF CompLimSources
    <3>2. (i - 2) \div 2 \in Band /\ i % 2 \in 0..1
      BY <1>2, <2>2 DEF Band
    <3>3. QED
      BY <1>5, <2>1, <3>1, <3>2
  <2>3. CASE i > 2 * NBands + 1
    <3>1. CompLimSources(i) = BandLevel(i - 2 - 2 * NBands)
      BY <1>2, <2>3 DEF CompLimSources
    <3>2. i - 2 - 2 * NBands \in Band /\ 0 \in 0..1
      BY <1>2, <2>3 DEF Band
    <3>3. QED
      BY <1>5, <2>1, <3>1, <3>2
  <2>4. QED
    BY <1>2, <2>2, <2>3
<1>7. /\ Sources(CompLim, i) \subseteq Buffer /\ Sources(CompLim, i) # {}
      /\ Run(CompLim, content)[<<CompLim, i>>]
           = Computed(CompLim, Sources(CompLim, i), content)
  BY <1>3, SourcesLemma, RunLemma
<1>8. \E b \in Sources(CompLim, i) :
        Computed(CompLim, Sources(CompLim, i), content).age = content[b].age
  BY <1>3, <1>7, ComputedLemma
<1>9. QED
  BY <1>6, <1>7, <1>8

-----------------------------------------------------------------------------
(* The steps.                                                              *)

LEMMA Stages ==
  /\ Output = 12 + 2 * NBands /\ NBands \in Nat /\ Idle = 0 /\ Fork = -1
  /\ DOMAIN Chain = 1..(11 + 2 * NBands)
  /\ Pair(Delay, 0) # Pair(Jack, 0) /\ Pair(Jack, 0) # Unwired
BY ChainLemma, Constants DEF Output, Idle, Fork, Pair, Delay, Jack, Unwired, NullBuf

(* The line reaches back as far as the delay asks for.                     *)
LEMMA ReachLemma ==
  ASSUME Types
  PROVE  /\ Reach(delay) \in Nat /\ Reach(delay) <= MaxDelay
         /\ 0 \in 0..Reach(delay)
         /\ delay \div 2 \in 0..Reach(delay)
         /\ Taps \subseteq 0..Reach(delay) /\ Reach(delay) \in Taps
         /\ delay = 0 => Taps = {0}
         /\ delay # 0 => Reach(delay) >= 1
<1>1. delay \in 0..(2 * MaxDelay) /\ MaxDelay \in Nat
  BY Constants DEF Types
<1>2. /\ Reach(delay) \in Nat /\ Reach(delay) <= MaxDelay
      /\ delay \div 2 \in Nat /\ delay \div 2 <= Reach(delay)
      /\ delay = 0 => Reach(delay) = 0 /\ delay \div 2 = 0
      /\ delay # 0 => Reach(delay) >= 1
  BY <1>1 DEF Reach
<1>3. QED
  BY <1>2 DEF Taps

LEMMA FedLemma ==
  ASSUME Types, NEW s \in 0..1
  PROVE  /\ Fed(s) \in [0..Reach(delay) -> Contents]
         /\ Fed(s)[0] = content[<<CompLim, s>>]
         /\ \A i \in 1..Reach(delay) :
              /\ i - 1 \in 0..Reach(delay)
              /\ Fed(s)[i] = line[s][i - 1]
<1>1. Reach(delay) \in Nat /\ 0 \in 0..Reach(delay)
  BY ReachLemma
<1>2. In(Delay, s) = <<CompLim, s>> /\ <<CompLim, s>> \in Buffer
  <2>1. Delay \in Simple \ {MeterMainOut} /\ CompLim \in Plugin
    BY DEF Simple, Delay, MeterMainOut, Plugin
  <2>2. In(Delay, s) = <<CompLim, s>>
    BY <2>1, Inputs, InputOfLemma DEF Types
  <2>3. QED
    BY <2>1, <2>2, Existing
<1>3. content[<<CompLim, s>>] \in Contents
  BY <1>2 DEF Types
<1>4. line[s] \in [0..Reach(delay) -> Contents]
  BY DEF Types
<1>5. \A i \in 1..Reach(delay) : i - 1 \in 0..Reach(delay)
  BY <1>1
<1>6. \A i \in 0..Reach(delay) : i = 0 \/ i \in 1..Reach(delay)
  BY <1>1
<1> DEFINE F == [i \in 0..Reach(delay) |->
                   IF i = 0 THEN content[<<CompLim, s>>] ELSE line[s][i - 1]]
<1>7. Fed(s) = F
  BY <1>2 DEF Fed
<1>8. F \in [0..Reach(delay) -> Contents]
  BY <1>3, <1>4, <1>5, <1>6
<1>9. F[0] = content[<<CompLim, s>>]
  BY <1>1
<1>10. \A i \in 1..Reach(delay) : F[i] = line[s][i - 1]
  BY <1>1
<1>11. QED
  BY <1>5, <1>7, <1>8, <1>9, <1>10

(* Of the line of a channel just fed, what has been fed in a row is as old *)
(* as its place.                                                           *)
LEMMA FedInPlace ==
  ASSUME Types, FlowSound, LineInv, Turn(Delay), folded, NEW s \in 0..1,
         NEW i \in 0..Reach(delay), i <= filled
  PROVE  Fed(s)[i].age = Aged(i)
<1>1. Reach(delay) \in Nat /\ filled \in Nat /\ MaxAge \in Nat \ {0}
  <2>1. filled \in 0..(MaxDelay + 1)
    BY DEF Types
  <2>2. filled \in Nat
    BY <2>1
  <2>3. QED
    BY <2>2, ReachLemma, Constants
<1>2. stage = 11 + 2 * NBands /\ stage \in DOMAIN Chain
  BY TurnLemma, PlaceLemma DEF Turn
<1>3. CASE i = 0
  <2>1. /\ CompLim \in Flow \ {Delay} /\ CompLim # Hpf
    BY DEF Flow, CompLim, Delay, Hpf
  <2>2. Ran(CompLim)
    BY <1>2, <2>1, PlaceLemma, Constants DEF Ran, InChain
  <2>3. s \in Live(CompLim)
    BY LiveLemma
  <2>4. Sound(content[<<CompLim, s>>], Place(CompLim), Passed(CompLim))
    BY <2>1, <2>2, <2>3 DEF FlowSound
  <2>5. content[<<CompLim, s>>].age = 0
    BY <2>4 DEF Sound, Stale
  <2>6. Aged(0) = 0
    BY <1>1 DEF Aged
  <2>7. QED
    BY <1>3, <2>5, <2>6, FedLemma
<1>4. CASE i # 0
  <2>1. i \in 1..Reach(delay) /\ i - 1 \in 0..Reach(delay) /\ i - 1 < filled
        /\ (i - 1) + 1 = i
    BY <1>1, <1>4
  <2>2. Late = 1
    BY <1>2, Stages DEF Late, Unfed, Played
  <2>3. line[s][i - 1].age = Aged((i - 1) + Late)
    BY <2>1 DEF LineInv
  <2>4. Fed(s)[i] = line[s][i - 1]
    BY <2>1, FedLemma
  <2>5. QED
    BY <2>1, <2>2, <2>3, <2>4
<1>5. QED
  BY <1>3, <1>4

(* What the delay plays.                                                   *)
LEMMA Plays ==
  ASSUME Types, FlowSound, LineInv, Turn(Delay), NEW s \in 0..1,
         NEW c, c = Computed(Delay, Taps, Fed(s))
  PROVE  /\ c \in Contents
         /\ delay = 0 => c.age = 0 \/ Stale
         /\ c.age = 0 => Correct(c.fx, Audible)
         /\ (folded /\ Reach(delay) <= filled) => c.age = Aged(Reach(delay))
<1>1. /\ Taps \subseteq 0..Reach(delay) /\ Taps # {} /\ Reach(delay) \in Taps
      /\ Reach(delay) \in Nat
  BY ReachLemma
<1>2. Fed(s) \in [0..Reach(delay) -> Contents] /\ Delay \in Plugin
  BY FedLemma DEF Plugin
<1>3. /\ c \in Contents
      /\ \E i \in Taps : c.age = Fed(s)[i].age
      /\ \A i \in Taps : Fed(s)[i].age <= c.age
      /\ c.fx = (UNION {Fed(s)[i].fx : i \in Taps}) \cup Effect(Delay)
  <2> DEFINE f == Fed(s)
             D == 0..Reach(delay)
  <2>1. f \in [D -> Contents] /\ Delay \in Plugin
    BY <1>2
  <2>2. Taps \in SUBSET D /\ Taps # {}
    BY <1>1
  <2>3. c = Computed(Delay, Taps, f)
    OBVIOUS
  <2> HIDE DEF f, D
  <2>4. /\ c \in Contents
        /\ \E i \in Taps : c.age = f[i].age
        /\ \A i \in Taps : f[i].age <= c.age
        /\ c.fx = (UNION {f[i].fx : i \in Taps}) \cup Effect(Delay)
    BY <2>1, <2>2, <2>3, ComputedFrom
  <2>5. QED
    BY <2>4 DEF f
<1>4. stage = 11 + 2 * NBands /\ stage \in DOMAIN Chain
  BY TurnLemma, PlaceLemma DEF Turn
<1>5. Sound(content[<<CompLim, s>>], Place(CompLim), Audible)
  <2>1. /\ CompLim \in Flow \ {Delay} /\ CompLim # Hpf
    BY DEF Flow, CompLim, Delay, Hpf
  <2>2. Ran(CompLim)
    BY <1>4, <2>1, PlaceLemma, Constants DEF Ran, InChain
  <2>3. s \in Live(CompLim) /\ Passed(CompLim) = Audible
    BY LiveLemma, PassedLemma
  <2>4. QED
    BY <2>1, <2>2, <2>3 DEF FlowSound
<1>6. delay = 0 => c.age = content[<<CompLim, s>>].age
                   /\ c.fx = content[<<CompLim, s>>].fx
  <2>1. Effect(Delay) = {}
    <3>1. Delay \notin Audible \cup {GainInput}
      BY Names DEF Delay, GainInput, PhaseRotator, StereoEnhance, CompLim
    <3>2. QED
      BY <1>2, <3>1, EffectLemma
  <2>2. delay = 0 => Taps = {0}
    BY ReachLemma
  <2>3. Fed(s)[0] = content[<<CompLim, s>>]
    BY FedLemma
  <2>4. QED
    BY <1>3, <2>1, <2>2, <2>3
<1>7. delay = 0 => c.age = 0 \/ Stale
  BY <1>5, <1>6 DEF Sound
<1>8. delay # 0 => c.age # 0
  <2> SUFFICES ASSUME delay # 0
               PROVE  c.age # 0
    OBVIOUS
  <2>1. Reach(delay) \in 1..Reach(delay)
    BY <1>1, ReachLemma
  <2>2. /\ Reach(delay) - 1 \in 0..Reach(delay)
        /\ Fed(s)[Reach(delay)] = line[s][Reach(delay) - 1]
    BY <2>1, FedLemma
  <2>3. Unfed
    BY <1>4, Stages DEF Unfed, Played
  <2>4. line[s][Reach(delay) - 1].age > 0
    BY <2>2, <2>3 DEF LineInv
  <2>5. Fed(s)[Reach(delay)].age <= c.age
    BY <1>1, <1>3
  <2>6. line[s][Reach(delay) - 1].age \in Nat /\ c.age \in Nat
    <3>1. line[s] \in [0..Reach(delay) -> Contents]
      BY DEF Types
    <3>2. line[s][Reach(delay) - 1] \in Contents
      BY <2>2, <3>1
    <3>3. \A d \in Contents : d.age \in Nat
      BY Constants DEF Contents
    <3>4. QED
      BY <1>3, <3>2, <3>3
  <2>7. QED
    BY <2>2, <2>4, <2>5, <2>6
<1>9. c.age = 0 => Correct(c.fx, Audible)
  BY <1>5, <1>6, <1>8 DEF Sound
<1>10. ASSUME folded, Reach(delay) <= filled
       PROVE  c.age = Aged(Reach(delay))
  <2>1. filled \in Nat /\ MaxAge \in Nat
    BY Constants DEF Types
  <2>2. \A i \in 0..Reach(delay) : Fed(s)[i].age = Aged(i)
    <3>1. \A i \in 0..Reach(delay) : i <= filled
      BY <1>1, <1>10, <2>1
    <3>2. QED
      BY <1>10, <3>1, FedInPlace
  <2>3. \A i \in 0..Reach(delay) : Aged(i) \in Nat /\ Aged(i) <= Aged(Reach(delay))
    BY <1>1, <2>1 DEF Aged
  <2>4. PICK i \in Taps : c.age = Fed(s)[i].age
    BY <1>3
  <2>5. c.age = Aged(i) /\ c.age \in Nat /\ Aged(i) <= Aged(Reach(delay))
    BY <1>1, <2>2, <2>3, <2>4
  <2>6. Aged(Reach(delay)) <= c.age
    <3>1. Fed(s)[Reach(delay)].age <= c.age
      BY <1>1, <1>3
    <3>2. Fed(s)[Reach(delay)].age = Aged(Reach(delay))
      BY <1>1, <2>2
    <3>3. QED
      BY <3>1, <3>2
  <2>7. QED
    BY <1>1, <2>3, <2>5, <2>6
<1>11. QED
  BY <1>3, <1>7, <1>9, <1>10

(* A plugin of the chain runs, and the next one's turn comes.              *)
LEMMA RunStep ==
  ASSUME IInv, NEW p \in Plugin, Turn(p),
         p # Delay => content' = Run(p, content),
         p = Delay => /\ content' \in [Buffer -> Contents]
                      /\ \A b \in Buffer : b[1] # Delay =>
                           content'[b] = content[b],
         stage' = stage + 1, InChain', ~Bypassing', tested' = FALSE,
         bufsIn'[MeterMainIn] = bufsIn[MeterMainIn],
         UNCHANGED <<bypass, enabled, folded, touched, pld>>
  PROVE  /\ content' \in [Buffer -> Contents]
         /\ BlockIn' /\ BassInv' /\ FlowSound' /\ OnAirSound'
         /\ LevelsTogether' /\ LevelsConsistent'
<1> USE DEF IInv
<1>1. /\ stage = Place(p) /\ stage \in DOMAIN Chain
      /\ stage \in 1..(11 + 2 * NBands) /\ stage \in Int
  BY TurnLemma DEF Turn
<1>2. p \in Plugin \ {MeterMainIn} /\ p # Jack /\ Jack # Hpf /\ MeterMainIn # Hpf
  BY TurnLemma, Names DEF Jack, MeterMainIn, GainInput, MeterPostGain, Hpf, PhaseRotator,
       AgcFront, StereoEnhance, BassEnhancer, PrecompEq, Crossover, CompLim,
       Delay, MeterMainOut, MeterPre, MeterPost
<1>3. stage # Idle /\ stage' # Idle /\ stage' # Fork /\ stage' = stage + 1
  BY <1>1 DEF Idle, Fork
<1>4. InChain
  BY <1>1 DEF InChain
<1>5. /\ content' \in [Buffer -> Contents]
      /\ \A b \in Buffer : (b[1] # p /\ (b[1] = Hpf => p # PhaseRotator)) =>
           content'[b] = content[b]
  <2>1. CASE p = Delay
    BY <2>1
  <2>2. CASE p # Delay
    BY <1>2, <2>2, RunLemma
  <2>3. QED
    BY <2>1, <2>2
<1>6. BlockIn'
  <2>1. bufsIn'[MeterMainIn] = Pair(Jack, 0)
    BY <1>3 DEF BlockIn
  <2>2. ASSUME NEW i \in 0..1
        PROVE  /\ content'[<<Jack, i>>] = [age |-> 0, fx |-> {}]
               /\ content'[<<MeterMainIn, i>>] = [age |-> 0, fx |-> {}]
    <3>1. <<Jack, i>> \in Buffer /\ <<MeterMainIn, i>> \in Buffer
      BY Existing, Names
    <3>2. /\ content'[<<Jack, i>>] = content[<<Jack, i>>]
          /\ content'[<<MeterMainIn, i>>] = content[<<MeterMainIn, i>>]
      BY <1>2, <1>5, <3>1
    <3>3. QED
      BY <1>3, <3>2 DEF BlockIn
  <2>3. Bypass \notin touched' => ~bypass'
    BY <1>4 DEF BlockIn
  <2>4. QED
    BY <2>1, <2>2, <2>3 DEF BlockIn
<1>7. BassInv'
  <2>1. ASSUME stage' \in 1..7, NEW i \in 0..1
        PROVE  content'[<<BassEnhancer, i>>].age > 0
    <3>1. stage \in 1..6
      BY <1>1, <1>3, <2>1
    <3>2. p # BassEnhancer /\ BassEnhancer # Hpf
      BY <1>1, <3>1, PlaceLemma DEF BassEnhancer, Hpf
    <3>3. <<BassEnhancer, i>> \in Buffer
      BY Existing DEF Plugin
    <3>4. content'[<<BassEnhancer, i>>] = content[<<BassEnhancer, i>>]
      BY <1>5, <3>2, <3>3
    <3>5. QED
      BY <3>1, <3>4 DEF BassInv
  <2>2. QED
    BY <1>3, <2>1 DEF BassInv
<1>8. FlowSound'
  <2>1. ASSUME NEW q \in Flow \ {Delay}, Ran(q)', NEW i \in Live(q)
        PROVE  Sound(content[<<q, i>>], Place(q), Passed(q))'
    <3>1. Sound(content'[<<q, i>>], Place(q), Passed(q))
      <4>1. Place(q) < stage + 1 /\ (q = Hpf => stage + 1 <= 4)
        BY <1>3, <2>1 DEF Ran
      <4>2. CASE q = p
        BY <4>2, HandsOn
      <4>3. CASE q # p
        <5>1. Place(q) \in DOMAIN Chain /\ Chain[Place(q)] = q
          BY ChainPlace
        <5>2. Place(q) # stage /\ Place(q) \in Int
          BY <1>1, <4>3, <5>1, ChainLemma DEF Turn
        <5>3. Ran(q)
          BY <1>1, <1>4, <4>1, <5>2 DEF Ran
        <5>4. q = Hpf => p # PhaseRotator
          BY <1>1, <4>1, PlaceLemma
        <5>5. content'[<<q, i>>] = content[<<q, i>>]
          BY <1>5, <4>3, <5>4, Existing
        <5>6. QED
          BY <2>1, <5>3, <5>5 DEF FlowSound
      <4>4. QED
        BY <4>2, <4>3
    <3>2. QED
      BY <3>1 DEF Sound, Stale, Correct
  <2>2. QED
    BY <2>1 DEF FlowSound
<1>9. OnAirSound'
  BY <1>3 DEF OnAirSound, BlockDone
<1>10. LevelsTogether'
  <2> SUFFICES ASSUME folded'
               PROVE  LevelsTogether'
    BY DEF LevelsTogether
  <2>1. /\ \A i, j \in 2..(3 * NBands + 1) :
             content[<<CompLim, i>>].age = content[<<CompLim, j>>].age
        /\ \A b \in Band : stage > Place(MeterPost(b)) =>
             content[<<MeterPost(b), 4>>].age = content[<<CompLim, 2>>].age
    BY <1>4 DEF LevelsTogether
  <2>2. CompLim \in Plugin /\ CompLim # Hpf /\ CompLim # PhaseRotator
        /\ CompLim # Delay /\ (\A b \in Band : MeterPost(b) # Delay)
        /\ NBands \in Nat \ {0} /\ CompLim # AgcFront
    BY Constants DEF Plugin, Jack, MeterMainIn, GainInput, MeterPostGain, Hpf, PhaseRotator,
       AgcFront, StereoEnhance, BassEnhancer, PrecompEq, Crossover, CompLim,
       Delay, MeterMainOut, MeterPre, MeterPost
  <2>3. \A i \in 2..(3 * NBands + 1) : <<CompLim, i>> \in Buffer /\ i \notin 0..1
    BY <2>2, Existing
  <2>4. (p # CompLim \/ ~enabled[CompLim]) =>
          \A i \in 2..(3 * NBands + 1) :
            content'[<<CompLim, i>>] = content[<<CompLim, i>>]
    <3>1. CASE p # CompLim
      BY <1>5, <2>2, <2>3, <3>1
    <3>2. CASE p = CompLim /\ ~enabled[CompLim]
      <4>1. Writes(p) = 0..1
        BY <3>2 DEF Writes
      <4>2. \A i \in 2..(3 * NBands + 1) : i \in Nat
        BY <2>2
      <4>3. QED
        BY <1>2, <2>2, <2>3, <3>2, <4>1, <4>2, RunLemma
    <3>3. QED
      BY <3>1, <3>2
  <2>5. \A i, j \in 2..(3 * NBands + 1) :
          content'[<<CompLim, i>>].age = content'[<<CompLim, j>>].age
    <3>1. CASE p = CompLim /\ enabled[CompLim]
      BY <2>2, <3>1, BandsCurrent
    <3>2. CASE p # CompLim \/ ~enabled[CompLim]
      BY <2>1, <2>4, <3>2
    <3>3. QED
      BY <3>1, <3>2
  <2>6. ASSUME NEW b \in Band, stage' > Place(MeterPost(b))
        PROVE  content'[<<MeterPost(b), 4>>].age = content'[<<CompLim, 2>>].age
    <3>1. /\ Place(MeterPost(b)) = 11 + NBands + b /\ Place(CompLim) = 10 + NBands
          /\ b \in Nat
      BY PlaceLemma, Constants
    <3>2. p # CompLim
      BY <1>1, <1>3, <2>2, <2>6, <3>1
    <3>3. 2 \in 2..(3 * NBands + 1)
      BY <2>2
    <3>4. content'[<<CompLim, 2>>] = content[<<CompLim, 2>>]
      BY <2>4, <3>2, <3>3
    <3>5. MeterPost(b) \in Meter /\ <<MeterPost(b), 4>> \in Buffer
      BY Existing, Names
    <3>6. CASE p = MeterPost(b)
      <4>1. 4 \in Writes(p) /\ 4 % 2 = 0
        <5>1. NumOut(p) = 6
          BY <3>5, <3>6, Outputs
        <5>2. p # AgcFront
          BY <3>6 DEF MeterPost, AgcFront
        <5>3. QED
          BY <3>2, <5>1, <5>2 DEF Writes
      <4>2. content'[<<p, 4>>] = Computed(p, Sources(p, 4), content)
        BY <1>2, <2>2, <3>6, <4>1, RunLemma
      <4>3. Sources(p, 4) = {In(p, 0)}
        BY <3>6, <4>1 DEF Sources, Jack, MeterMainIn, GainInput, MeterPostGain, Hpf, PhaseRotator,
       AgcFront, StereoEnhance, BassEnhancer, PrecompEq, Crossover, CompLim,
       Delay, MeterMainOut, MeterPre, MeterPost
      <4>4. In(p, 0) = <<CompLim, 2 + 2 * b>>
        <5> DEFINE s == 0
        <5>1. s \in 0..1
          OBVIOUS
        <5> HIDE DEF s
        <5>2. In(MeterPost(b), s) = <<CompLim, 2 + 2 * b + s>>
          BY <5>1, Inputs DEF Types
        <5>3. QED
          BY <3>1, <3>6, <5>2 DEF s
      <4>5. 2 + 2 * b \in 2..(3 * NBands + 1)
        BY <2>2, <3>1, Constants
      <4>6. Computed(p, Sources(p, 4), content).age
              = content[<<CompLim, 2 + 2 * b>>].age
        <5>1. Sources(p, 4) \subseteq Buffer /\ Sources(p, 4) # {}
          BY <2>3, <4>3, <4>4, <4>5
        <5>2. \E x \in Sources(p, 4) :
                Computed(p, Sources(p, 4), content).age = content[x].age
          BY <5>1, ComputedLemma
        <5>3. QED
          BY <4>3, <4>4, <5>2
      <4>7. QED
        BY <2>1, <3>3, <3>4, <3>6, <4>2, <4>5, <4>6
    <3>7. CASE p # MeterPost(b)
      <4>1. stage # Place(MeterPost(b))
        BY <3>7, ChainPlace DEF Turn
      <4>2. stage > Place(MeterPost(b))
        BY <1>1, <1>3, <2>2, <2>6, <3>1, <4>1
      <4>3. MeterPost(b) # Hpf
        BY DEF MeterPost, Hpf
      <4>4. content'[<<MeterPost(b), 4>>] = content[<<MeterPost(b), 4>>]
        BY <1>5, <3>5, <3>7, <4>3
      <4>5. QED
        BY <2>1, <3>4, <4>2, <4>4
    <3>8. QED
      BY <3>6, <3>7
  <2>7. QED
    BY <2>5, <2>6 DEF LevelsTogether
<1>11. LevelsConsistent'
  BY DEF LevelsConsistent
<1>12. QED
  BY <1>5, <1>6, <1>7, <1>8, <1>9, <1>10, <1>11

(* A refreshed input is wired to the other plugin.                         *)
LEMMA Refreshed ==
  ASSUME Wired, NEW p \in {MeterMainIn, MeterMainOut}, NEW q \in {Jack, Delay},
         RefreshInputs(p, GetOutput(q)),
         p = MeterMainIn => q = Jack
  PROVE  /\ Wired'
         /\ bufsIn'[p] = Pair(q, 0)
         /\ \A r \in Plugin \ {p} : bufsIn'[r] = bufsIn[r]
<1>1. p \in Plugin /\ MeterMainIn # MeterMainOut
  BY DEF Plugin, Meter, MeterMainIn, MeterMainOut
<1>2. GetOutput(q)[1] = <<q, 0>> /\ GetOutput(q)[2] = <<q, 1>>
  BY GetOutputLemma DEF Plugin
<1> DEFINE two == <<<<q, 0>>, <<q, 1>>>>
           rest == SubSeq(bufsIn[p], 3, Len(bufsIn[p]))
<1>3. rest = <<>>
  <2>1. Len(bufsIn[p]) = 2
    BY DEF Wired, Unwired, Pair
  <2> DEFINE m == 3
             n == Len(bufsIn[p])
  <2>2. m \in Int /\ n \in Int /\ n < m
    BY <2>1
  <2> HIDE DEF m, n
  <2>3. SubSeq(bufsIn[p], m, n) = <<>>
    BY <2>2, SubSeqEmpty
  <2>4. QED
    BY <2>3 DEF m, n
<1>4. two \o rest = two
  <2>1. two \in Seq({q} \X Nat)
    OBVIOUS
  <2> HIDE DEF two
  <2>2. two \o <<>> = two
    BY <2>1, ConcatEmptySeq
  <2>3. QED
    BY <1>3, <2>2
<1>5. two = Pair(q, 0)
  BY DEF Pair
<1>6. bufsIn' = [bufsIn EXCEPT ![p] = two \o rest]
  BY <1>2 DEF RefreshInputs
<1> HIDE DEF two, rest
<1>7. bufsIn' = [bufsIn EXCEPT ![p] = Pair(q, 0)]
  BY <1>4, <1>5, <1>6
<1>8. bufsIn = [r \in Plugin |-> bufsIn[r]]
  BY DEF Wired
<1>9. /\ bufsIn'[p] = Pair(q, 0)
      /\ \A r \in Plugin \ {p} : bufsIn'[r] = bufsIn[r]
      /\ bufsIn' = [r \in Plugin |-> bufsIn'[r]]
  BY <1>1, <1>7, <1>8
<1>10. Wired'
  <2>1. MeterMainOut \in Plugin /\ MeterMainIn \in Plugin
    BY DEF Plugin, Meter
  <2>2. \A r \in Plugin \ {MeterMainIn, MeterMainOut} : bufsIn'[r] = Wiring[r]
    BY <1>9 DEF Wired
  <2>3. bufsIn'[MeterMainIn] \in {Unwired, Pair(Jack, 0)}
    BY <1>1, <1>9, <2>1 DEF Wired
  <2>4. bufsIn'[MeterMainOut] \in {Pair(Delay, 0), Pair(Jack, 0)}
    BY <1>1, <1>9, <2>1 DEF Wired
  <2>5. QED
    BY <1>9, <2>2, <2>3, <2>4 DEF Wired
<1>11. QED
  BY <1>9, <1>10

LEMMA OlderLemma ==
  ASSUME NEW c \in Contents
  PROVE  /\ Older(c) \in Contents /\ Older(c).age > 0
         /\ \A n \in Nat : c.age = Aged(n) => Older(c).age = Aged(n + 1)
<1>1. MaxAge \in Nat \ {0} /\ c.age \in 0..MaxAge
  BY Constants DEF Contents
<1>2. /\ Older(c) = [age |-> Older(c).age, fx |-> {}]
      /\ Older(c).age = IF c.age < MaxAge THEN c.age + 1 ELSE MaxAge
  BY DEF Older
<1>3. Older(c).age \in 0..MaxAge /\ Older(c).age > 0
  BY <1>1, <1>2
<1>4. Older(c) \in Contents
  BY <1>2, <1>3 DEF Contents
<1>5. \A n \in Nat : c.age = Aged(n) => Older(c).age = Aged(n + 1)
  BY <1>1, <1>2 DEF Aged
<1>6. QED
  BY <1>3, <1>4, <1>5

(* Begin: all that was computed before is a block older.                   *)
LEMMA BeginStep ==
  ASSUME IInv, Begin
  PROVE  IInv'
<1> USE DEF IInv
<1>1. /\ stage = Idle /\ stage' = Fork /\ touched' = {}
      /\ RefreshInputs(MeterMainIn, GetOutput(Jack))
      /\ UNCHANGED <<bypass, enabled, inited, folded, tested, pld, delay, filled,
                     process>>
      /\ line' = [s \in 0..1 |-> [i \in 0..Reach(delay) |-> Older(line[s][i])]]
      /\ content' = [b \in Buffer |->
           CASE b[1] = MeterMainIn -> [age |-> 0, fx |-> {}]
             [] OTHER              -> BlockArrives[b]]
  BY DEF Begin, build
<1>2. /\ Wired' /\ bufsIn'[MeterMainIn] = Pair(Jack, 0)
  BY <1>1, Refreshed DEF Types
<1>3. /\ stage' # Idle /\ stage' # Output /\ stage' \notin DOMAIN Chain
      /\ stage' # 7 /\ stage # 7
      /\ stage \notin DOMAIN Chain /\ stage # Output
  BY <1>1, Stages
<1>4. ASSUME NEW b \in Buffer
      PROVE  /\ b[1] = MeterMainIn => content'[b] = [age |-> 0, fx |-> {}]
             /\ b \in {<<Jack, 0>>, <<Jack, 1>>} =>
                  content'[b] = [age |-> 0, fx |-> {}]
             /\ b[1] \notin {MeterMainIn, Jack} =>
                  content'[b] = Older(content[b])
             /\ content'[b] \in {[age |-> 0, fx |-> {}], Older(content[b])}
  <2>1. content'[b] = IF b[1] = MeterMainIn THEN [age |-> 0, fx |-> {}]
                      ELSE IF b \in {<<Jack, 0>>, <<Jack, 1>>}
                      THEN [age |-> 0, fx |-> {}] ELSE Older(content[b])
    BY <1>1 DEF BlockArrives
  <2>2. b = <<b[1], b[2]>>
    BY InBuffer
  <2>3. QED
    BY <2>1, <2>2
<1>5. \A b \in Buffer : /\ Older(content[b]) \in Contents
                        /\ Older(content[b]).age > 0
  <2>1. content \in [Buffer -> Contents]
    BY DEF Types
  <2>2. QED
    BY <2>1, OlderLemma
<1>14. /\ line' \in [0..1 -> [0..Reach(delay) -> Contents]]
       /\ \A s \in 0..1 : \A i \in 0..Reach(delay) :
            /\ line[s][i] \in Contents /\ line'[s][i] = Older(line[s][i])
            /\ line'[s][i].age > 0
  <2>1. \A s \in 0..1 : \A i \in 0..Reach(delay) : line[s][i] \in Contents
    BY DEF Types
  <2>2. \A s \in 0..1 : \A i \in 0..Reach(delay) :
          /\ Older(line[s][i]) \in Contents /\ Older(line[s][i]).age > 0
    BY <2>1, OlderLemma
  <2>3. QED
    BY <1>1, <2>1, <2>2
<1>6. Types'
  <2>1. content' \in [Buffer -> Contents]
    <3>1. [age |-> 0, fx |-> {}] \in Contents
      BY Constants DEF Contents
    <3>2. \A b \in Buffer : content'[b] \in Contents
      BY <1>4, <1>5, <3>1
    <3>3. content' = [b \in Buffer |-> content'[b]]
      BY <1>1
    <3>4. QED
      BY <3>2, <3>3
  <2>2. line' \in [0..1 -> [0..Reach(delay') -> Contents]]
    BY <1>1, <1>14
  <2>3. QED
    BY <1>1, <1>2, <2>1, <2>2 DEF Types
<1>7. BlockIn'
  <2>1. ASSUME NEW i \in 0..1
        PROVE  /\ content'[<<Jack, i>>] = [age |-> 0, fx |-> {}]
               /\ content'[<<MeterMainIn, i>>] = [age |-> 0, fx |-> {}]
    <3>1. <<Jack, i>> \in Buffer /\ <<MeterMainIn, i>> \in Buffer
      BY Existing, Names
    <3>2. i = 0 \/ i = 1
      OBVIOUS
    <3>3. <<Jack, i>> \in {<<Jack, 0>>, <<Jack, 1>>}
      BY <3>2
    <3>4. QED
      BY <1>4, <3>1, <3>3
  <2>2. QED
    BY <1>2, <1>3, <2>1 DEF BlockIn, InChain, Bypassing
<1>8. BassInv'
  <2>1. BassEnhancer \in Plugin /\ BassEnhancer \notin {MeterMainIn, Jack}
    BY DEF Plugin, Jack, MeterMainIn, GainInput, MeterPostGain, Hpf, PhaseRotator,
       AgcFront, StereoEnhance, BassEnhancer, PrecompEq, Crossover, CompLim,
       Delay, MeterMainOut, MeterPre, MeterPost
  <2>2. ASSUME NEW i \in 0..1
        PROVE  content'[<<BassEnhancer, i>>].age > 0
    BY <1>4, <1>5, <2>1, Existing
  <2>3. ~tested'
    BY <1>1, <1>3 DEF BassInv
  <2>4. QED
    BY <2>2, <2>3 DEF BassInv
<1>9. FlowSound'
  BY <1>3 DEF FlowSound, Ran, InChain
<1>10. OnAirSound'
  BY <1>3 DEF OnAirSound, BlockDone
<1>11. LevelsTogether'
  <2> SUFFICES ASSUME folded'
               PROVE  LevelsTogether'
    BY DEF LevelsTogether
  <2>1. folded /\ ~InChain
    BY <1>1, <1>3 DEF InChain
  <2>2. /\ \A i \in 2..(3 * NBands + 1) : <<CompLim, i>> \in Buffer
        /\ \A b \in Band : /\ <<MeterPost(b), 4>> \in Buffer
                           /\ <<MeterPre(b), 4>> \in Buffer
        /\ <<AgcFront, 0>> \in Buffer
        /\ 2 \in 2..(3 * NBands + 1)
    <3>1. \A i \in 2..(3 * NBands + 1) : i \in 0..(3 * NBands + 1)
      BY Constants
    <3>2. AgcFront \in Plugin /\ 0 \in 0..1 /\ 2 \in 2..(3 * NBands + 1)
      BY Constants DEF Plugin
    <3>3. QED
      BY <3>1, <3>2, Existing, Names
  <2>3. /\ CompLim \notin {MeterMainIn, Jack} /\ AgcFront \notin {MeterMainIn, Jack}
        /\ \A b \in Band : /\ MeterPost(b) \notin {MeterMainIn, Jack}
                           /\ MeterPre(b) \notin {MeterMainIn, Jack}
    BY DEF Jack, MeterMainIn, GainInput, MeterPostGain, Hpf, PhaseRotator,
       AgcFront, StereoEnhance, BassEnhancer, PrecompEq, Crossover, CompLim,
       Delay, MeterMainOut, MeterPre, MeterPost
  <2>4. /\ \A i \in 2..(3 * NBands + 1) :
             content'[<<CompLim, i>>] = Older(content[<<CompLim, i>>])
        /\ \A b \in Band :
             /\ content'[<<MeterPost(b), 4>>] = Older(content[<<MeterPost(b), 4>>])
             /\ content'[<<MeterPre(b), 4>>] = Older(content[<<MeterPre(b), 4>>])
        /\ content'[<<AgcFront, 0>>] = Older(content[<<AgcFront, 0>>])
    BY <1>4, <2>2, <2>3
  <2>5. \A c, d : c.age = d.age => Older(c).age = Older(d).age
    BY DEF Older
  <2>6. Older(content[<<AgcFront, 0>>]).age <= Older(content[<<CompLim, 2>>]).age
    <3>1. /\ content[<<AgcFront, 0>>].age \in 0..MaxAge
          /\ content[<<CompLim, 2>>].age \in 0..MaxAge
      BY <2>2 DEF Types, Contents
    <3>2. content[<<AgcFront, 0>>].age <= content[<<CompLim, 2>>].age
      BY <2>1 DEF LevelsTogether
    <3>3. QED
      BY <3>1, <3>2, Constants DEF Older
  <2>7. \A i, j \in 2..(3 * NBands + 1) :
          content'[<<CompLim, i>>].age = content'[<<CompLim, j>>].age
    BY <2>1, <2>4, <2>5 DEF LevelsTogether
  <2>8. ASSUME NEW b \in Band
        PROVE  /\ content'[<<MeterPost(b), 4>>].age = content'[<<CompLim, 2>>].age
               /\ content'[<<MeterPre(b), 4>>].age = content'[<<AgcFront, 0>>].age
    <3>1. /\ content[<<MeterPost(b), 4>>].age = content[<<CompLim, 2>>].age
          /\ content[<<MeterPre(b), 4>>].age = content[<<AgcFront, 0>>].age
      BY <2>1 DEF LevelsTogether
    <3>2. /\ Older(content[<<MeterPost(b), 4>>]).age
               = Older(content[<<CompLim, 2>>]).age
          /\ Older(content[<<MeterPre(b), 4>>]).age
               = Older(content[<<AgcFront, 0>>]).age
      BY <2>5, <3>1
    <3>3. QED
      BY <2>2, <2>4, <3>2
  <2>10. content'[<<AgcFront, 0>>].age <= content'[<<CompLim, 2>>].age
    BY <2>2, <2>4, <2>6
  <2>11. QED
    BY <2>7, <2>8, <2>10 DEF LevelsTogether
<1>12. LevelsConsistent'
  BY <1>1 DEF LevelsConsistent
<1>15. DelaySound' /\ LineInv'
  <2>1. ~Played' /\ Unfed' /\ ~Bypassing' /\ Late' = 1
    BY <1>3 DEF Played, Unfed, Bypassing, Late
  <2>2. ~Unfed /\ Late = 0
    BY <1>1, <1>3 DEF Unfed, Late
  <2>3. ASSUME folded, NEW s \in 0..1, NEW i \in 0..Reach(delay), i < filled
        PROVE  line'[s][i].age = Aged(i + 1)
    <3>1. line[s][i].age = Aged(i + Late)
      BY <2>3 DEF LineInv
    <3>2. i + Late = i /\ i \in Nat
      BY <2>2, ReachLemma
    <3>3. QED
      BY <1>14, <3>1, <3>2, OlderLemma
  <2>4. /\ \A s \in 0..1 : \A i \in 0..Reach(delay) : line'[s][i].age > 0
        /\ folded => \A s \in 0..1 : \A i \in 0..Reach(delay) :
             i < filled => line'[s][i].age = Aged(i + 1)
    BY <1>14, <2>3
  <2>5. delay' = delay /\ filled' = filled /\ folded' = folded
    BY <1>1
  <2>6. LineInv'
    BY <2>1, <2>4, <2>5 DEF LineInv
  <2>7. QED
    BY <2>1, <2>6 DEF DelaySound
<1>13. QED
  BY <1>6, <1>7, <1>8, <1>9, <1>10, <1>11, <1>12, <1>15

(* BypassChain and EnterChain: the way through the chain is chosen.        *)
LEMMA ChooseStep ==
  ASSUME IInv, BypassChain \/ EnterChain
  PROVE  IInv'
<1> USE DEF IInv
<1>1. /\ stage = Fork
      /\ UNCHANGED <<content, bypass, enabled, inited, folded, tested, pld,
                     delay, line, touched, process>>
      /\ filled' = filled \/ filled' = 0
  BY DEF BypassChain, EnterChain, build, delayLine
<1>2. /\ stage # Idle /\ stage \notin DOMAIN Chain /\ stage # Output
      /\ stage # 7 /\ ~tested
  BY <1>1, Stages DEF BassInv
<1>3. /\ Wired' /\ bufsIn'[MeterMainIn] = bufsIn[MeterMainIn]
      /\ \/ /\ bypass /\ stage' = Output /\ filled' = 0
            /\ bufsIn'[MeterMainOut] = Pair(Jack, 0)
         \/ /\ ~bypass /\ stage' = 1
  <2>1. CASE BypassChain
    <3>1. Wired' /\ bufsIn'[MeterMainOut] = Pair(Jack, 0)
          /\ \A r \in Plugin \ {MeterMainOut} : bufsIn'[r] = bufsIn[r]
      <4>1. /\ RefreshInputs(MeterMainOut, GetOutput(Jack)) /\ Wired
            /\ MeterMainOut # MeterMainIn
        BY <2>1 DEF BypassChain, Types, MeterMainIn, MeterMainOut
      <4>2. QED
        BY <4>1, Refreshed
    <3>2. MeterMainIn \in Plugin \ {MeterMainOut}
      BY DEF Plugin, Meter, MeterMainIn, MeterMainOut
    <3>3. QED
      BY <2>1, <3>1, <3>2 DEF BypassChain
  <2>2. CASE EnterChain
    BY <2>2 DEF EnterChain, Types, Wired
  <2>3. QED
    BY <2>1, <2>2
<1>4. /\ stage' # Idle /\ stage' # Fork
      /\ stage' \in 1..7 \/ stage' = Output
      /\ stage' \in {Output} \cup DOMAIN Chain
  BY <1>3, Stages
<1>5. InChain' => ~bypass /\ stage' = 1
  BY <1>3, Stages DEF InChain
<1>6. Types'
  <2>1. stage' \in {Idle, Fork, Output} \cup DOMAIN Chain
    BY <1>4
  <2>2. filled' \in 0..(MaxDelay + 1)
    BY <1>1, Constants DEF Types
  <2>3. QED
    BY <1>1, <1>3, <2>1, <2>2 DEF Types
<1>7. BlockIn'
  <2>1. Bypassing' => bypass
    BY <1>3, Stages DEF Bypassing
  <2>2. QED
    BY <1>1, <1>2, <1>3, <1>5, <2>1 DEF BlockIn
<1>8. BassInv'
  BY <1>1, <1>2 DEF BassInv
<1>9. FlowSound'
  <2>1. ASSUME NEW q \in Flow
        PROVE  ~Ran(q)'
    <3>1. Place(q) \in DOMAIN Chain
      BY ChainPlace
    <3>2. Place(q) \in Int /\ Place(q) >= 1
      BY <3>1, Stages
    <3>3. QED
      BY <1>5, <3>2 DEF Ran
  <2>2. QED
    BY <2>1 DEF FlowSound
<1>10. OnAirSound'
  BY <1>4 DEF OnAirSound, BlockDone
<1>11. LevelsTogether'
  <2> SUFFICES ASSUME folded'
               PROVE  LevelsTogether'
    BY DEF LevelsTogether
  <2>1. folded /\ ~InChain
    BY <1>1, <1>2 DEF InChain
  <2>2. UNCHANGED content
    BY <1>1
  <2>3. QED
    BY <2>1, <2>2 DEF LevelsTogether
<1>12. LevelsConsistent'
  BY <1>1 DEF LevelsConsistent
<1>13. DelaySound' /\ LineInv'
  <2>1. ~Played' /\ Unfed' /\ Unfed /\ Late' = Late
    BY <1>2, <1>4, <1>5, Stages DEF Played, Unfed, Late
  <2>2. Bypassing' => filled' = 0
    BY <1>3, Stages DEF Bypassing
  <2>3. ASSUME folded, NEW s \in 0..1, NEW i \in 0..Reach(delay), i < filled'
        PROVE  line[s][i].age = Aged(i + Late)
    <3>1. i < filled
      BY <1>1, <2>3, ReachLemma
    <3>2. QED
      BY <2>3, <3>1 DEF LineInv
  <2>4. \A s \in 0..1 : \A i \in 0..Reach(delay) : line[s][i].age > 0
    BY <2>1 DEF LineInv
  <2>5. line' = line /\ delay' = delay /\ folded' = folded
    BY <1>1
  <2>6. LineInv'
    BY <2>1, <2>2, <2>3, <2>4, <2>5 DEF LineInv
  <2>7. QED
    BY <2>1, <2>6 DEF DelaySound
<1>14. QED
  BY <1>6, <1>7, <1>8, <1>9, <1>10, <1>11, <1>12, <1>13

(* Before the delay's turn its line is left alone.                         *)
LEMMA LineKept ==
  ASSUME LineInv, UNCHANGED <<folded, delay, line, filled>>,
         stage # Idle, stage' # Idle, stage # Output, stage' # Output
  PROVE  DelaySound' /\ LineInv'
<1>1. ~Played' /\ Unfed' /\ Unfed /\ Late' = Late /\ ~Bypassing'
  BY DEF Played, Unfed, Late, Bypassing
<1>2. QED
  BY <1>1 DEF DelaySound, LineInv

LEMMA RunPluginStep ==
  ASSUME IInv, RunPlugin
  PROVE  IInv'
<1> USE DEF IInv
<1>1. PICK p \in Plugin \ {BassEnhancer, Delay} :
        /\ Turn(p) /\ content' = Run(p, content) /\ stage' = stage + 1
        /\ UNCHANGED <<bufsIn, bypass, enabled, inited, folded, tested, pld,
                       delay, line, filled, touched, process>>
  BY DEF RunPlugin, build, delayLine
<1>2. /\ stage \in 1..(11 + 2 * NBands) /\ stage \in DOMAIN Chain
      /\ p = Chain[stage] /\ stage = Place(p)
  BY <1>1, TurnLemma DEF Turn
<1>3. stage # 11 + 2 * NBands /\ stage # 7
  BY <1>1, <1>2, ChainLemma
<1>4. stage' \in DOMAIN Chain /\ stage' # Output
  BY <1>1, <1>2, <1>3, Stages
<1>5. InChain' /\ ~Bypassing'
  BY <1>4 DEF InChain, Bypassing
<1>6. tested' = FALSE
  BY <1>1, <1>3 DEF BassInv, Types
<1>7. /\ content' \in [Buffer -> Contents]
      /\ BlockIn' /\ BassInv' /\ FlowSound' /\ OnAirSound'
      /\ LevelsTogether' /\ LevelsConsistent'
  BY <1>1, <1>5, <1>6, RunStep
<1>8. Types'
  BY <1>1, <1>4, <1>7 DEF Types, Wired
<1>9. DelaySound' /\ LineInv'
  <2>1. stage # Idle /\ stage # Output /\ stage' # Idle
    BY <1>2, <1>4, Stages
  <2>2. QED
    BY <1>1, <1>4, <2>1, LineKept
<1>10. QED
  BY <1>7, <1>8, <1>9

LEMMA LeaveChainStep ==
  ASSUME IInv, LeaveChain
  PROVE  IInv'
<1> USE DEF IInv
<1>1. /\ Turn(Delay) /\ content' = RunDelay /\ stage' = Output
      /\ line' = [s \in 0..1 |-> Fed(s)]
      /\ filled' = IF filled <= MaxDelay THEN filled + 1 ELSE filled
      /\ RefreshInputs(MeterMainOut, GetOutput(Delay))
      /\ UNCHANGED <<bypass, enabled, inited, folded, tested, pld, delay, touched,
                     process>>
  BY DEF LeaveChain, build
<1>2. stage = 11 + 2 * NBands /\ Delay \in Plugin
  BY <1>1, TurnLemma, PlaceLemma DEF Plugin
<1>3. stage' = stage + 1 /\ stage # 7
  BY <1>1, <1>2, Stages
<1>4. /\ Wired' /\ bufsIn'[MeterMainIn] = bufsIn[MeterMainIn]
      /\ bufsIn'[MeterMainOut] = Pair(Delay, 0)
  <2>1. MeterMainOut # MeterMainIn /\ MeterMainIn \in Plugin
    BY DEF Plugin, Meter, MeterMainIn, MeterMainOut
  <2>2. Wired
    BY DEF Types
  <2>3. QED
    BY <1>1, <2>1, <2>2, Refreshed
<1>5. InChain' /\ ~Bypassing'
  BY <1>1, <1>4, Stages DEF InChain, Bypassing
<1>6. tested' = FALSE
  BY <1>1, <1>3 DEF BassInv, Types
<1>7. ASSUME NEW s \in 0..1
      PROVE  /\ <<Delay, s>> \in Buffer
             /\ content'[<<Delay, s>>] = Computed(Delay, Taps, Fed(s))
  <2>1. <<Delay, s>> \in Buffer
    BY <1>2, Existing
  <2>2. QED
    BY <1>1, <2>1 DEF RunDelay
<1>8. /\ content' \in [Buffer -> Contents]
      /\ \A b \in Buffer : b[1] # Delay => content'[b] = content[b]
  <2>1. ASSUME NEW b \in Buffer, b[1] = Delay
        PROVE  RunDelay[b] \in Contents
    <3>1. b[2] \in 0..1
      <4>1. NumOut(Delay) = 2
        BY Outputs
      <4>2. QED
        BY <2>1, <4>1, InBuffer
    <3>2. Computed(Delay, Taps, Fed(b[2])) \in Contents
      BY <1>1, <3>1, Plays
    <3>3. QED
      BY <2>1, <3>2 DEF RunDelay
  <2>2. \A b \in Buffer : b[1] # Delay => RunDelay[b] = content[b]
    BY DEF RunDelay
  <2>3. content \in [Buffer -> Contents]
    BY DEF Types
  <2>4. RunDelay = [b \in Buffer |-> RunDelay[b]]
    BY DEF RunDelay
  <2>5. QED
    BY <1>1, <2>1, <2>2, <2>3, <2>4
<1>9. /\ BlockIn' /\ BassInv' /\ FlowSound' /\ OnAirSound'
      /\ LevelsTogether' /\ LevelsConsistent'
  BY <1>1, <1>2, <1>3, <1>4, <1>5, <1>6, <1>8, RunStep
<1>10. filled \in 0..(MaxDelay + 1) /\ filled' \in 0..(MaxDelay + 1)
       /\ Reach(delay) \in Nat /\ Reach(delay) <= MaxDelay
       /\ \A i \in 0..Reach(delay) : i < filled' => i <= filled
  <2>1. filled \in 0..(MaxDelay + 1) /\ MaxDelay \in Nat
    BY Constants DEF Types
  <2>2. Reach(delay) \in Nat /\ Reach(delay) <= MaxDelay
    BY ReachLemma
  <2>3. QED
    BY <1>1, <2>1, <2>2
<1>11. Types'
  <2>1. line' \in [0..1 -> [0..Reach(delay') -> Contents]]
    BY <1>1, FedLemma
  <2>2. QED
    BY <1>1, <1>4, <1>8, <1>10, <2>1 DEF Types
<1>12. LineInv'
  <2>1. Played' /\ ~Unfed' /\ Late' = 0
    BY <1>1, <1>5 DEF Played, Unfed, Late
  <2>2. ASSUME folded, NEW s \in 0..1, NEW i \in 0..Reach(delay), i < filled'
        PROVE  line'[s][i].age = Aged(i)
    <3>1. Fed(s)[i].age = Aged(i)
      BY <1>1, <1>10, <2>2, FedInPlace
    <3>2. QED
      BY <1>1, <3>1
  <2>3. \A i \in 0..Reach(delay) : i + 0 = i
    BY <1>10
  <2>4. delay' = delay /\ folded' = folded
    BY <1>1
  <2>5. QED
    BY <1>5, <2>1, <2>2, <2>3, <2>4 DEF LineInv
<1>13. DelaySound'
  <2>1. ASSUME NEW s \in 0..1, NEW c, c = content'[<<Delay, s>>]
        PROVE  /\ (delay = 0 /\ Delay \notin touched) => c.age = 0 \/ Stale
               /\ c.age = 0 => Correct(c.fx, Audible)
               /\ (folded /\ Reach(delay) < filled') =>
                    c.age = Aged(Reach(delay))
    <3>1. c = Computed(Delay, Taps, Fed(s))
      BY <1>7, <2>1
    <3>2. /\ delay = 0 => c.age = 0 \/ Stale
          /\ c.age = 0 => Correct(c.fx, Audible)
          /\ (folded /\ Reach(delay) <= filled) => c.age = Aged(Reach(delay))
      BY <1>1, <3>1, Plays
    <3>3. Reach(delay) < filled' => Reach(delay) <= filled
      BY <1>10
    <3>4. QED
      BY <3>2, <3>3
  <2>2. /\ delay' = delay /\ folded' = folded /\ touched' = touched
        /\ enabled' = enabled
    BY <1>1
  <2>3. Stale' = Stale /\ \A fx : Correct(fx, Audible)' = Correct(fx, Audible)
    BY <2>2 DEF Stale, Correct
  <2>4. Full' => folded /\ Reach(delay) < filled'
    BY <1>10, <2>2 DEF Full
  <2>5. ASSUME NEW s \in 0..1
        PROVE  DelayedSound(content[<<Delay, s>>])'
    BY <2>1, <2>2, <2>3, <2>4 DEF DelayedSound, Stale, Correct
  <2>6. QED
    BY <2>5 DEF DelaySound
<1>14. QED
  BY <1>9, <1>11, <1>12, <1>13

LEMMA DisableBassStep ==
  ASSUME IInv, DisableBass
  PROVE  IInv'
<1> USE DEF IInv
<1>1. /\ Turn(BassEnhancer) /\ tested' = TRUE
      /\ enabled' = [enabled EXCEPT ![BassEnhancer] = FALSE]
      /\ UNCHANGED <<bufsIn, content, bypass, inited, folded, stage, pld,
                     delay, line, filled, touched, process>>
  BY DEF DisableBass, build, delayLine
<1>2. stage = 7 /\ BassEnhancer \in Switch
  BY <1>1, TurnLemma, PlaceLemma DEF Switch
<1>3. /\ enabled' \in [Switch -> BOOLEAN] /\ ~enabled'[BassEnhancer]
      /\ \A q \in Audible : enabled'[q] = enabled[q]
  BY <1>1, <1>2 DEF Types, Audible
<1>4. Types'
  BY <1>1, <1>3 DEF Types, Wired
<1>5. BlockIn' /\ OnAirSound'
  <2>1. stage' # Idle
    BY <1>1, <1>2 DEF Idle
  <2>2. QED
    BY <1>1, <2>1 DEF BlockIn, InChain, Bypassing, OnAirSound, BlockDone
<1>6. BassInv'
  BY <1>1, <1>2, <1>3 DEF BassInv
<1>7. FlowSound'
  <2>1. ASSUME NEW q \in Flow \ {Delay}, Ran(q)', NEW i \in Live(q)
        PROVE  Sound(content[<<q, i>>], Place(q), Passed(q))'
    <3>1. Ran(q)
      BY <1>1, <2>1 DEF Ran, InChain
    <3>2. Sound(content[<<q, i>>], Place(q), Passed(q))
      BY <3>1 DEF FlowSound
    <3>3. QED
      BY <1>1, <1>3, <3>2 DEF Sound, Stale, Correct
  <2>2. QED
    BY <2>1 DEF FlowSound
<1>8. LevelsTogether' /\ LevelsConsistent'
  BY <1>1 DEF LevelsTogether, LevelsConsistent, InChain
<1>9. DelaySound' /\ LineInv'
  <2>1. stage # Idle /\ stage # Output
    BY <1>2, Stages
  <2>2. QED
    BY <1>1, <2>1, LineKept
<1>10. QED
  BY <1>4, <1>5, <1>6, <1>7, <1>8, <1>9

LEMMA RunBassStep ==
  ASSUME IInv, RunBass
  PROVE  IInv'
<1> USE DEF IInv
<1>1. /\ Turn(BassEnhancer) /\ tested /\ tested' = FALSE /\ stage' = stage + 1
      /\ content' = IF enabled[BassEnhancer] /\ ~folded
                    THEN content ELSE Run(BassEnhancer, content)
      /\ UNCHANGED <<bufsIn, bypass, enabled, inited, folded, pld, delay, line,
                     filled, touched, process>>
  BY DEF RunBass, build, delayLine
<1>2. stage = 7 /\ stage' = 8 /\ BassEnhancer \in Plugin
  BY <1>1, TurnLemma, PlaceLemma DEF Plugin
<1>3. /\ stage' \in DOMAIN Chain /\ stage' # Output /\ stage' # Idle
      /\ stage \in DOMAIN Chain /\ stage # Output /\ stage' # Fork
  BY <1>2, Stages
<1>4. InChain' /\ ~Bypassing' /\ InChain
  BY <1>3 DEF InChain, Bypassing
<1>8. DelaySound' /\ LineInv'
  <2>1. stage # Idle
    BY <1>2, Stages
  <2>2. QED
    BY <1>1, <1>3, <2>1, LineKept
<1>5. CASE ~(enabled[BassEnhancer] /\ ~folded)
  <2>1. /\ content' \in [Buffer -> Contents]
        /\ BlockIn' /\ BassInv' /\ FlowSound' /\ OnAirSound'
        /\ LevelsTogether' /\ LevelsConsistent'
    <3>1. BassEnhancer # Delay /\ content' = Run(BassEnhancer, content)
      BY <1>1, <1>5 DEF BassEnhancer, Delay
    <3>2. QED
      BY <1>1, <1>2, <1>4, <3>1, RunStep
  <2>2. Types'
    BY <1>1, <1>3, <2>1 DEF Types, Wired
  <2>3. QED
    BY <1>8, <2>1, <2>2
<1>6. CASE enabled[BassEnhancer] /\ ~folded
  <2>1. content' = content /\ Stale
    BY <1>1, <1>6 DEF BassInv, Stale
  <2>2. Types'
    BY <1>1, <1>3, <2>1 DEF Types, Wired
  <2>3. BlockIn'
    BY <1>1, <1>2, <1>3, <1>4, <2>1 DEF BlockIn, Idle
  <2>4. BassInv'
    BY <1>1, <1>2, <1>3 DEF BassInv
  <2>5. FlowSound'
    <3>1. ASSUME NEW q \in Flow \ {Delay}, Ran(q)', NEW i \in Live(q)
          PROVE  Sound(content[<<q, i>>], Place(q), Passed(q))'
      <4>1. Sound(content[<<q, i>>], Place(q), Passed(q))
        <5>1. CASE q = BassEnhancer
          <6>1. Place(q) = 7 /\ i \in 0..1
            <7>1. NumOut(BassEnhancer) = 2 /\ BassEnhancer \notin {AgcFront, CompLim}
              BY Outputs DEF BassEnhancer, AgcFront, CompLim
            <7>2. QED
              BY <5>1, <7>1, PlaceLemma DEF Live
          <6>2. content[<<q, i>>].age > 0
            BY <1>2, <5>1, <6>1 DEF BassInv
          <6>3. QED
            BY <2>1, <6>1, <6>2 DEF Sound
        <5>2. CASE q # BassEnhancer
          <6>1. Place(q) \in DOMAIN Chain /\ Chain[Place(q)] = q
            BY ChainPlace
          <6>2. Place(q) # 7 /\ Place(q) \in Int
            BY <5>2, <6>1, ChainLemma
          <6>3. Place(q) < 8 /\ (q = Hpf => FALSE)
            BY <1>2, <3>1 DEF Ran
          <6>4. Ran(q)
            BY <1>2, <1>4, <6>2, <6>3 DEF Ran
          <6>5. QED
            BY <6>4 DEF FlowSound
        <5>3. QED
          BY <5>1, <5>2
      <4>2. QED
        BY <1>1, <2>1, <4>1 DEF Sound, Stale, Correct
    <3>2. QED
      BY <3>1 DEF FlowSound
  <2>6. OnAirSound' /\ LevelsTogether' /\ LevelsConsistent'
    BY <1>1, <1>3, <1>6 DEF OnAirSound, BlockDone, LevelsTogether, LevelsConsistent
  <2>7. QED
    BY <1>8, <2>2, <2>3, <2>4, <2>5, <2>6
<1>7. QED
  BY <1>5, <1>6

(* Finish: the block goes on the air, and the levels are published.        *)
LEMMA FinishStep ==
  ASSUME IInv, Finish
  PROVE  IInv'
<1> USE DEF IInv
<1> DEFINE c == Run(MeterMainOut, content)
<1>1. /\ stage = Output /\ stage' = Idle
      /\ content' = [c EXCEPT ![<<Jack, 2>>] = c[<<MeterMainOut, 0>>],
                              ![<<Jack, 3>>] = c[<<MeterMainOut, 1>>]]
      /\ pld' = [l \in LiveLevel |-> c[l].age]
      /\ UNCHANGED <<bufsIn, bypass, enabled, inited, folded, tested, delay, line,
                     filled, touched, process>>
  BY DEF Finish, build, delayLine
<1>2. MeterMainOut \in Plugin \ {MeterMainIn} /\ MeterMainOut # Jack
      /\ MeterMainOut # PhaseRotator /\ MeterMainOut \in Meter
      /\ MeterMainOut \notin Audible \cup {GainInput}
  BY Names DEF Meter, Plugin, Jack, MeterMainIn, GainInput, MeterPostGain, Hpf, PhaseRotator,
       AgcFront, StereoEnhance, BassEnhancer, PrecompEq, Crossover, CompLim,
       Delay, MeterMainOut, MeterPre, MeterPost
<1>3. /\ c \in [Buffer -> Contents]
      /\ \A b \in Buffer : b[1] # MeterMainOut => c[b] = content[b]
      /\ \A i \in Writes(MeterMainOut) :
           c[<<MeterMainOut, i>>]
             = Computed(MeterMainOut, Sources(MeterMainOut, i), content)
  BY <1>2, RunLemma
<1>4. /\ stage' # Fork /\ stage' \notin DOMAIN Chain /\ stage' # Output
      /\ stage # 7 /\ stage' \notin 1..7 /\ stage # Idle
      /\ stage \notin DOMAIN Chain
  BY <1>1, Stages
<1>5. /\ <<Jack, 2>> \in Buffer /\ <<Jack, 3>> \in Buffer
      /\ \A i \in 0..1 : <<MeterMainOut, i>> \in Buffer
  BY <1>2, Existing DEF OnAir
<1> HIDE DEF c
<1>6. /\ content' \in [Buffer -> Contents]
      /\ content'[<<Jack, 2>>] = c[<<MeterMainOut, 0>>]
      /\ content'[<<Jack, 3>>] = c[<<MeterMainOut, 1>>]
      /\ \A b \in Buffer \ OnAir : content'[b] = c[b]
  BY <1>1, <1>3, <1>5 DEF OnAir
<1>7. \A b \in Buffer : b[1] \notin {MeterMainOut, Jack} => content'[b] = content[b]
  BY <1>3, <1>6 DEF OnAir
<1>8. Types'
  <2>1. pld' \in [LiveLevel -> 0..MaxAge]
    <3>1. \A l \in LiveLevel : c[l].age \in 0..MaxAge
      BY <1>3, Existing DEF Contents
    <3>2. QED
      BY <1>1, <3>1
  <2>2. QED
    BY <1>1, <1>6, <2>1 DEF Types, Wired
<1>9. BlockIn'
  BY <1>1, <1>4 DEF BlockIn, InChain, Bypassing
<1>10. BassInv'
  BY <1>1, <1>4 DEF BassInv
<1>11. FlowSound'
  BY <1>4 DEF FlowSound, Ran, InChain
<1>12. \/ InChain /\ bufsIn[MeterMainOut] = Pair(Delay, 0)
       \/ Bypassing /\ bufsIn[MeterMainOut] = Pair(Jack, 0)
  BY <1>1 DEF InChain, Bypassing, Types, Wired
<1>18. DelaySound' /\ LineInv'
  <2>1. ~Played' /\ ~Unfed' /\ Late' = 0 /\ ~Bypassing'
    BY <1>1, <1>4 DEF Played, Unfed, Late, Bypassing
  <2>2. ASSUME folded, NEW s \in 0..1, NEW i \in 0..Reach(delay), i < filled
        PROVE  line[s][i].age = Aged(i + 0)
    <3>1. CASE Bypassing
      <4>1. filled = 0
        BY <3>1 DEF LineInv
      <4>2. QED
        BY <2>2, <4>1, ReachLemma
    <3>2. CASE InChain
      <4>1. Late = 0
        BY <1>1, <3>2 DEF Late, Unfed, Played
      <4>2. line[s][i].age = Aged(i + Late)
        BY <2>2 DEF LineInv
      <4>3. QED
        BY <4>1, <4>2
    <3>3. QED
      BY <1>12, <3>1, <3>2
  <2>3. UNCHANGED <<folded, delay, line, filled>>
    BY <1>1
  <2>4. QED
    BY <2>1, <2>2, <2>3 DEF DelaySound, LineInv
<1>13. ASSUME InChain, NEW q \in Flow \ {Delay}, q # Hpf, NEW i \in Live(q)
       PROVE  Sound(content[<<q, i>>], Place(q), Passed(q))
  <2>1. Place(q) \in DOMAIN Chain
    BY ChainPlace
  <2>2. Ran(q)
    BY <1>1, <1>13, <2>1, Stages DEF Ran
  <2>3. QED
    BY <2>2 DEF FlowSound
<1>14. OnAirSound'
  <2>1. ASSUME NEW s \in 0..1, NEW d, d = c[<<MeterMainOut, s>>]
        PROVE  /\ Undelayed => d.age = 0 \/ Stale
               /\ d.age = 0 =>
                    /\ Bypass \notin touched => (bypass <=> d.fx = {})
                    /\ d.fx # {} => Correct(d.fx, Audible)
               /\ Full /\ Bypass \notin touched /\ ~bypass =>
                    d.age = Aged(Reach(delay))
    <3>1. s \in Writes(MeterMainOut) /\ s % 2 = s
      <4>1. NumOut(MeterMainOut) = 6 /\ MeterMainOut # AgcFront
            /\ MeterMainOut # CompLim
        BY <1>2, Outputs DEF MeterMainOut, AgcFront, CompLim
      <4>2. QED
        BY <4>1 DEF Writes
    <3> DEFINE bs == Sources(MeterMainOut, s)
               x == In(MeterMainOut, s)
    <3>2. bs = {x}
      <4>1. bs = {In(MeterMainOut, s % 2)}
        BY DEF Sources, Jack, MeterMainIn, GainInput, MeterPostGain, Hpf, PhaseRotator,
       AgcFront, StereoEnhance, BassEnhancer, PrecompEq, Crossover, CompLim,
       Delay, MeterMainOut, MeterPre, MeterPost
      <4>2. QED
        BY <3>1, <4>1
    <3>3. bs \subseteq Buffer /\ bs # {}
      BY <1>2, <3>1, SourcesLemma
    <3>4. d = Computed(MeterMainOut, bs, content)
      BY <1>3, <2>1, <3>1
    <3> HIDE DEF bs
    <3>5. /\ \E b \in bs : d.age = content[b].age
          /\ d.fx = (UNION {content[b].fx : b \in bs}) \cup Effect(MeterMainOut)
      BY <1>2, <3>3, <3>4, ComputedLemma
    <3> HIDE DEF x
    <3>6. Effect(MeterMainOut) = {}
      BY <1>2, EffectLemma
    <3>7. d.age = content[x].age /\ d.fx = content[x].fx
      BY <3>2, <3>5, <3>6
    <3>8. CASE InChain /\ bufsIn[MeterMainOut] = Pair(Delay, 0)
      <4>1. x = <<Delay, s>>
        <5>1. CASE s = 0
          BY <3>8, <5>1 DEF x, In, Pair
        <5>2. CASE s = 1
          BY <3>8, <5>2 DEF x, In, Pair
        <5>3. QED
          BY <5>1, <5>2
      <4>2. Played
        BY <1>1, <3>8 DEF Played
      <4>3. DelayedSound(content[x])
        BY <4>1, <4>2 DEF DelaySound
      <4>4. Bypass \notin touched => ~bypass
        BY <3>8 DEF BlockIn
      <4>5. Undelayed => delay = 0 /\ Delay \notin touched
        BY <4>4 DEF Undelayed
      <4>6. QED
        BY <3>7, <4>3, <4>4, <4>5 DEF DelayedSound, Correct
    <3>9. CASE Bypassing /\ bufsIn[MeterMainOut] = Pair(Jack, 0)
      <4>1. x = <<Jack, s>>
        <5>1. CASE s = 0
          BY <3>9, <5>1 DEF x, In, Pair
        <5>2. CASE s = 1
          BY <3>9, <5>2 DEF x, In, Pair
        <5>3. QED
          BY <5>1, <5>2
      <4>2. content[x] = [age |-> 0, fx |-> {}]
        BY <1>4, <4>1 DEF BlockIn
      <4>3. Bypass \notin touched => bypass
        BY <3>9 DEF BlockIn
      <4>4. QED
        BY <3>7, <4>2, <4>3
    <3>10. QED
      BY <1>12, <3>8, <3>9
  <2>2. ASSUME NEW b \in OnAir
        PROVE  /\ Undelayed => content'[b].age = 0 \/ Stale
               /\ content'[b].age = 0 =>
                    /\ Bypass \notin touched => (bypass <=> content'[b].fx = {})
                    /\ content'[b].fx # {} => Correct(content'[b].fx, Audible)
               /\ Full /\ Bypass \notin touched /\ ~bypass =>
                    content'[b].age = Aged(Reach(delay))
    <3>1. \E s \in 0..1 : content'[b] = c[<<MeterMainOut, s>>]
      BY <1>6 DEF OnAir
    <3>2. QED
      BY <2>1, <3>1
  <2>3. UNCHANGED <<folded, touched, bypass, enabled, delay, filled>>
    BY <1>1
  <2>5. QED
    BY <2>2, <2>3 DEF OnAirSound, Stale, Correct, Undelayed, Full
<1>15. ASSUME folded'
       PROVE  /\ LevelsTogether' /\ LevelsConsistent'
  <2>1. /\ folded /\ ~Stale
    BY <1>1, <1>15 DEF Stale
  <2>2. /\ \A i \in 2..(3 * NBands + 1) :
             /\ <<CompLim, i>> \in Buffer
             /\ content'[<<CompLim, i>>] = content[<<CompLim, i>>]
        /\ \A b \in Band :
             /\ content'[<<MeterPost(b), 4>>] = content[<<MeterPost(b), 4>>]
             /\ content'[<<MeterPre(b), 4>>] = content[<<MeterPre(b), 4>>]
        /\ content'[<<AgcFront, 0>>] = content[<<AgcFront, 0>>]
        /\ 2 \in 2..(3 * NBands + 1)
    <3>1. \A i \in 2..(3 * NBands + 1) : i \in 0..(3 * NBands + 1)
      BY Constants
    <3>2. AgcFront \in Plugin /\ 0 \in 0..1 /\ 2 \in 2..(3 * NBands + 1)
      BY Constants DEF Plugin
    <3>3. /\ \A i \in 2..(3 * NBands + 1) : <<CompLim, i>> \in Buffer
          /\ \A b \in Band : /\ <<MeterPost(b), 4>> \in Buffer
                             /\ <<MeterPre(b), 4>> \in Buffer
          /\ <<AgcFront, 0>> \in Buffer
      BY <3>1, <3>2, Existing, Names
    <3>4. /\ CompLim \notin {MeterMainOut, Jack} /\ AgcFront \notin {MeterMainOut, Jack}
          /\ \A b \in Band : /\ MeterPost(b) \notin {MeterMainOut, Jack}
                             /\ MeterPre(b) \notin {MeterMainOut, Jack}
      BY DEF Jack, MeterMainIn, GainInput, MeterPostGain, Hpf, PhaseRotator,
       AgcFront, StereoEnhance, BassEnhancer, PrecompEq, Crossover, CompLim,
       Delay, MeterMainOut, MeterPre, MeterPost
    <3>5. QED
      BY <1>7, <3>2, <3>3, <3>4
  <2>3. /\ \A i, j \in 2..(3 * NBands + 1) :
             content[<<CompLim, i>>].age = content[<<CompLim, j>>].age
        /\ \A b \in Band :
             content[<<MeterPost(b), 4>>].age = content[<<CompLim, 2>>].age
    <3>1. \A b \in Band : stage > Place(MeterPost(b))
      <4>1. \A b \in Band : b \in Nat /\ b < NBands /\ NBands \in Nat
        BY Constants
      <4>2. stage = 12 + 2 * NBands
        BY <1>1, Stages
      <4>3. \A b \in Band : Place(MeterPost(b)) = 11 + NBands + b
        BY PlaceLemma
      <4>4. QED
        BY <4>1, <4>2, <4>3
    <3>2. QED
      BY <2>1, <3>1 DEF LevelsTogether
  <2>4. /\ \A b \in Band :
             content[<<MeterPre(b), 4>>].age = content[<<AgcFront, 0>>].age
        /\ content[<<AgcFront, 0>>].age <= content[<<CompLim, 2>>].age
    <3>1. CASE InChain
      <4>1. AgcFront \in Flow \ {Delay} /\ AgcFront # Hpf
            /\ 0 \in Live(AgcFront)
        BY LiveLemma DEF Flow, AgcFront, Hpf, Delay
      <4>2. \A b \in Band : /\ MeterPre(b) \in Flow \ {Delay}
                            /\ MeterPre(b) # Hpf /\ 4 \in Live(MeterPre(b))
        BY LiveLemma DEF Flow, MeterPre, Hpf, Delay
      <4>3. content[<<AgcFront, 0>>].age = 0
        BY <1>13, <2>1, <3>1, <4>1 DEF Sound
      <4>4. \A b \in Band : content[<<MeterPre(b), 4>>].age = 0
        BY <1>13, <2>1, <3>1, <4>2 DEF Sound
      <4>5. content[<<CompLim, 2>>].age \in 0..MaxAge
        BY <2>2 DEF Types, Contents
      <4>6. QED
        BY <4>3, <4>4, <4>5, Constants
    <3>2. CASE ~InChain
      BY <2>1, <3>2 DEF LevelsTogether
    <3>3. QED
      BY <3>1, <3>2
  <2>5. LevelsTogether'
    <3>1. ~InChain'
      BY <1>4 DEF InChain
    <3>2. \A i, j \in 2..(3 * NBands + 1) :
            content'[<<CompLim, i>>].age = content'[<<CompLim, j>>].age
      BY <2>2, <2>3
    <3>3. \A b \in Band :
            /\ content'[<<MeterPost(b), 4>>].age = content'[<<CompLim, 2>>].age
            /\ content'[<<MeterPre(b), 4>>].age = content'[<<AgcFront, 0>>].age
      BY <2>2, <2>3, <2>4
    <3>4. content'[<<AgcFront, 0>>].age <= content'[<<CompLim, 2>>].age
      BY <2>2, <2>4
    <3>5. QED
      BY <3>1, <3>2, <3>3, <3>4 DEF LevelsTogether
  <2>6. LevelsConsistent'
    <3>1. \A l \in LevelsAgc \cup LevelsPre :
            l \in LiveLevel /\ pld'[l] = content[<<AgcFront, 0>>].age
      <4>1. \A l \in LevelsAgc \cup LevelsPre :
              /\ l \in LiveLevel /\ l \in Buffer
              /\ content[l].age = content[<<AgcFront, 0>>].age
        BY <2>4, Existing DEF LevelsAgc, LevelsPre, LiveLevel
      <4>2. \A l \in LevelsAgc \cup LevelsPre : l[1] # MeterMainOut
        BY DEF LevelsAgc, LevelsPre, Jack, MeterMainIn, GainInput, MeterPostGain, Hpf, PhaseRotator,
       AgcFront, StereoEnhance, BassEnhancer, PrecompEq, Crossover, CompLim,
       Delay, MeterMainOut, MeterPre, MeterPost
      <4>3. QED
        BY <1>1, <1>3, <4>1, <4>2
    <3>2. \A l \in LevelsComp \cup LevelsPost :
            l \in LiveLevel /\ pld'[l] = content[<<CompLim, 2>>].age
      <4>1. \A b \in Band : 2 + 2 * NBands + b \in 2..(3 * NBands + 1)
        BY Constants
      <4>2. \A l \in LevelsComp : content[l].age = content[<<CompLim, 2>>].age
        BY <2>2, <2>3, <4>1 DEF LevelsComp
      <4>3. \A l \in LevelsPost : content[l].age = content[<<CompLim, 2>>].age
        BY <2>3 DEF LevelsPost
      <4>4. \A l \in LevelsComp \cup LevelsPost :
              l \in LiveLevel /\ l \in Buffer /\ l[1] # MeterMainOut
        <5>1. \A l \in LevelsComp \cup LevelsPost : l[1] # MeterMainOut
          BY DEF LevelsComp, LevelsPost, Jack, MeterMainIn, GainInput, MeterPostGain, Hpf, PhaseRotator,
       AgcFront, StereoEnhance, BassEnhancer, PrecompEq, Crossover, CompLim,
       Delay, MeterMainOut, MeterPre, MeterPost
        <5>2. QED
          BY <5>1, Existing DEF LiveLevel
      <4>5. QED
        BY <1>1, <1>3, <4>2, <4>3, <4>4
    <3>3. LevelsPre \subseteq LevelsAgc \cup LevelsPre
          /\ LevelsPost \subseteq LevelsComp \cup LevelsPost
      OBVIOUS
    <3>4. QED
      BY <2>4, <3>1, <3>2, <3>3 DEF LevelsConsistent
  <2>7. QED
    BY <2>5, <2>6
<1>16. LevelsTogether' /\ LevelsConsistent'
  BY <1>15 DEF LevelsTogether, LevelsConsistent
<1>17. QED
  BY <1>8, <1>9, <1>10, <1>11, <1>14, <1>16, <1>18

LEMMA SilenceLemma ==
  ASSUME NEW h \in 0..(2 * MaxDelay)
  PROVE  /\ Silence(h) \in [0..1 -> [0..Reach(h) -> Contents]]
         /\ \A s \in 0..1 : \A i \in 0..Reach(h) :
              /\ Silence(h)[s][i].age > 0
              /\ i \in Nat
<1>1. Never \in Contents /\ Never.age > 0
  BY Constants DEF Never, Contents
<1>2. QED
  BY <1>1 DEF Silence

(* Commands: what is thrown in mid-block is in touched.                    *)
LEMMA CommandStep ==
  ASSUME IInv, Command
  PROVE  IInv'
<1> USE DEF IInv
<1>1. /\ UNCHANGED <<bufsIn, content, inited, folded, stage, tested, pld, process>>
      /\ touched \subseteq touched' /\ touched' \subseteq Switch \cup {Bypass, Delay}
      /\ bypass' \in BOOLEAN /\ (Bypass \notin touched' => bypass' = bypass)
      /\ enabled' \in [Switch -> BOOLEAN]
      /\ \A q \in Switch \ touched' : enabled'[q] = enabled[q]
      /\ \/ UNCHANGED <<delay, line, filled>>
         \/ /\ delay' \in 0..(2 * MaxDelay) /\ line' = Silence(delay')
            /\ filled' = 0 /\ Delay \in touched'
  <2>1. CASE \E on \in BOOLEAN : SetMasterBypass(on)
    <3>1. PICK on \in BOOLEAN : SetMasterBypass(on)
      BY <2>1
    <3>2. /\ bypass' = on /\ touched' = touched \cup {Bypass}
          /\ UNCHANGED <<bufsIn, content, enabled, inited, folded, stage, tested,
                         pld, delay, line, filled, process>>
      BY <3>1 DEF SetMasterBypass, Throw, build, delayLine
    <3>3. QED
      BY <3>2 DEF Types
  <2>2. CASE \E on \in BOOLEAN : \E p \in Switch : SetEnable(p, on)
    <3>1. PICK on \in BOOLEAN, p \in Switch : SetEnable(p, on)
      BY <2>2
    <3>2. /\ enabled' = [enabled EXCEPT ![p] = on] /\ touched' = touched \cup {p}
          /\ UNCHANGED <<bufsIn, content, bypass, inited, folded, stage, tested,
                         pld, delay, line, filled, process>>
      BY <3>1 DEF SetEnable, Throw, build, delayLine
    <3>3. QED
      BY <3>2 DEF Types
  <2>3. CASE \E h \in 0..(2 * MaxDelay) : SetDelay(h)
    <3>1. PICK h \in 0..(2 * MaxDelay) : SetDelay(h)
      BY <2>3
    <3>2. /\ delay' = h /\ line' = Silence(h) /\ filled' = 0
          /\ touched' = touched \cup {Delay}
          /\ UNCHANGED <<bufsIn, content, bypass, enabled, inited, folded, stage,
                         tested, pld, process>>
      BY <3>1 DEF SetDelay, Throw, build
    <3>3. QED
      BY <3>2 DEF Types
  <2>4. QED
    BY <2>1, <2>2, <2>3 DEF Command
<1>2. /\ \A q \in Audible \ touched' : enabled'[q] = enabled[q]
      /\ BassEnhancer \in Switch
  BY <1>1 DEF Audible, Switch
<1>3. Types'
  <2>1. CASE UNCHANGED <<delay, line, filled>>
    BY <1>1, <2>1 DEF Types, Wired
  <2>2. CASE /\ delay' \in 0..(2 * MaxDelay) /\ line' = Silence(delay')
             /\ filled' = 0
    <3>1. /\ line' \in [0..1 -> [0..Reach(delay') -> Contents]]
          /\ filled' \in 0..(MaxDelay + 1)
      BY <2>2, SilenceLemma, Constants
    <3>2. QED
      BY <1>1, <2>2, <3>1 DEF Types, Wired
  <2>3. QED
    BY <1>1, <2>1, <2>2
<1>10. /\ Delay \notin touched' => /\ Delay \notin touched
                                   /\ UNCHANGED <<delay, line, filled>>
       /\ Full' => Full /\ delay' = delay
  BY <1>1 DEF Full
<1>4. BlockIn'
  BY <1>1 DEF BlockIn, InChain, Bypassing
<1>5. BassInv'
  BY <1>1, <1>2 DEF BassInv
<1>6. FlowSound'
  <2>1. ASSUME NEW q \in Flow \ {Delay}, Ran(q)', NEW i \in Live(q)
        PROVE  Sound(content[<<q, i>>], Place(q), Passed(q))'
    <3>1. Ran(q)
      BY <1>1, <2>1 DEF Ran, InChain
    <3>2. Sound(content[<<q, i>>], Place(q), Passed(q))
      BY <3>1 DEF FlowSound
    <3>3. QED
      BY <1>1, <1>2, <3>2, SoundKept DEF Sound, Correct
  <2>2. QED
    BY <2>1 DEF FlowSound
<1>7. OnAirSound'
  <2>1. ASSUME BlockDone', NEW b \in OnAir
        PROVE  /\ Undelayed' => content[b].age = 0 \/ Stale'
               /\ content[b].age = 0 =>
                    /\ Bypass \notin touched' => (bypass' <=> content[b].fx = {})
                    /\ content[b].fx # {} => Correct(content[b].fx, Audible)'
               /\ Full' /\ Bypass \notin touched' /\ ~bypass' =>
                    content[b].age = Aged(Reach(delay'))
    <3>1. BlockDone
      BY <1>1, <2>1 DEF BlockDone
    <3>2. /\ Undelayed => content[b].age = 0 \/ Stale
          /\ content[b].age = 0 =>
               /\ Bypass \notin touched => (bypass <=> content[b].fx = {})
               /\ content[b].fx # {} => Correct(content[b].fx, Audible)
          /\ Full /\ Bypass \notin touched /\ ~bypass =>
               content[b].age = Aged(Reach(delay))
      BY <3>1 DEF OnAirSound
    <3>3. Stale => Stale'
      BY <1>1 DEF Stale
    <3>4. ASSUME Correct(content[b].fx, Audible)
          PROVE  Correct(content[b].fx, Audible)'
      BY <1>1, <1>2, <3>4 DEF Correct
    <3>5. Bypass \notin touched' => Bypass \notin touched
      BY <1>1
    <3>6. Undelayed' => Undelayed
      BY <1>1, <1>10, <3>5 DEF Undelayed
    <3>7. QED
      BY <1>1, <1>10, <3>2, <3>3, <3>4, <3>5, <3>6
  <2>2. QED
    BY <1>1, <2>1 DEF OnAirSound
<1>8. LevelsTogether' /\ LevelsConsistent'
  BY <1>1 DEF LevelsTogether, LevelsConsistent, InChain
<1>11. DelaySound'
  <2>1. ASSUME Played, NEW i \in 0..1
        PROVE  DelayedSound(content[<<Delay, i>>])'
    <3> DEFINE c == content[<<Delay, i>>]
    <3>1. /\ (delay = 0 /\ Delay \notin touched) => c.age = 0 \/ Stale
          /\ c.age = 0 => Correct(c.fx, Audible)
          /\ Full => c.age = Aged(Reach(delay))
      BY <2>1 DEF DelaySound, DelayedSound
    <3> HIDE DEF c
    <3>2. Stale => Stale'
      BY <1>1 DEF Stale
    <3>3. Correct(c.fx, Audible) => Correct(c.fx, Audible)'
      <4>1. c' = c
        BY <1>1 DEF c
      <4>2. QED
        BY <1>1, <1>2, <4>1 DEF Correct
    <3>4. content' = content
      BY <1>1
    <3>5. /\ (delay' = 0 /\ Delay \notin touched') => c.age = 0 \/ Stale'
          /\ c.age = 0 => Correct(c.fx, Audible)'
          /\ Full' => c.age = Aged(Reach(delay'))
      BY <1>10, <3>1, <3>2, <3>3
    <3>6. c' = c
      BY <3>4 DEF c
    <3>7. QED
      BY <3>5, <3>6 DEF DelayedSound, c
  <2>2. Played' <=> Played
    BY <1>1 DEF Played, InChain
  <2>3. QED
    BY <2>1, <2>2 DEF DelaySound
<1>12. LineInv'
  <2>1. /\ Unfed' <=> Unfed
        /\ Late' = Late /\ folded' = folded
        /\ Bypassing' <=> Bypassing
    BY <1>1 DEF Played, InChain, Unfed, Late, Bypassing
  <2>2. CASE UNCHANGED <<delay, line, filled>>
    BY <2>1, <2>2 DEF LineInv
  <2>3. CASE /\ delay' \in 0..(2 * MaxDelay) /\ line' = Silence(delay')
             /\ filled' = 0
    <3>1. \A s \in 0..1 : \A i \in 0..Reach(delay') :
            line'[s][i].age > 0 /\ ~(i < filled')
      BY <2>3, SilenceLemma
    <3>2. QED
      BY <2>1, <2>3, <3>1 DEF LineInv
  <2>4. QED
    BY <1>1, <2>2, <2>3
<1>9. QED
  BY <1>3, <1>4, <1>5, <1>6, <1>7, <1>8, <1>11, <1>12

(* The program exits, or is left alone.                                    *)
LEMMA KeepStep ==
  ASSUME IInv, process' \in {"running", "exited"},
         UNCHANGED <<bufsIn, content, bypass, enabled, build, stage, tested,
                     pld, delayLine, touched>>
  PROVE  IInv'
<1> USE DEF IInv
<1>1. UNCHANGED <<bufsIn, content, bypass, enabled, inited, folded, stage,
                  tested, pld, delay, line, filled, touched>>
  BY DEF build, delayLine
<1>2. Types'
  BY <1>1 DEF Types, Wired
<1>3. BlockIn' /\ BassInv'
  BY <1>1 DEF BlockIn, BassInv, InChain, Bypassing
<1>4. FlowSound'
  BY <1>1 DEF FlowSound, Ran, InChain, Sound, Stale, Correct
<1>5. OnAirSound'
  BY <1>1 DEF OnAirSound, BlockDone, Stale, Correct, Undelayed, Full
<1>6. LevelsTogether' /\ LevelsConsistent'
  BY <1>1 DEF LevelsTogether, LevelsConsistent, InChain
<1>7. DelaySound' /\ LineInv'
  <2>1. DelaySound'
    BY <1>1 DEF DelaySound, DelayedSound, Played, InChain, Full, Stale, Correct
  <2>2. LineInv'
    BY <1>1 DEF LineInv, Played, InChain, Unfed, Late, Bypassing
  <2>3. QED
    BY <2>1, <2>2
<1>8. QED
  BY <1>2, <1>3, <1>4, <1>5, <1>6, <1>7

(* No plugin has more or fewer inputs than it takes by number, and each of *)
(* them is a buffer that exists.                                           *)
LEMMA InputsExist ==
  ASSUME Wired, NEW p \in Plugin
  PROVE  /\ \A i \in DOMAIN bufsIn[p] : bufsIn[p][i] \in Buffer \cup {NullBuf}
         /\ Len(bufsIn[p]) = CASE p = AgcFront -> 6
                               [] p = CompLim  -> 4 + 4 * NBands
                               [] OTHER        -> 2
<1>1. AgcFront # CompLim /\ NBands \in Nat \ {0}
  BY Constants DEF AgcFront, CompLim
<1>2. ASSUME NEW q \in Plugin \cup {Jack}, NEW j \in Nat, j + 1 < NumOut(q)
      PROVE  /\ \A i \in DOMAIN Pair(q, j) : Pair(q, j)[i] \in Buffer
             /\ Len(Pair(q, j)) = 2
  <2>1. NumOut(q) \in Nat
    BY Outputs
  <2>2. <<q, j>> \in Buffer /\ <<q, j + 1>> \in Buffer
    BY <1>2, <2>1, InBuffer
  <2>3. DOMAIN Pair(q, j) = {1, 2} /\ Len(Pair(q, j)) = 2
    BY DEF Pair
  <2>4. Pair(q, j)[1] = <<q, j>> /\ Pair(q, j)[2] = <<q, j + 1>>
    BY DEF Pair
  <2>5. QED
    BY <2>2, <2>3, <2>4
<1>3. ASSUME NEW q \in Plugin \cup {Jack}
      PROVE  /\ \A i \in DOMAIN Pair(q, 0) : Pair(q, 0)[i] \in Buffer
             /\ Len(Pair(q, 0)) = 2
  <2> DEFINE j == 0
  <2>1. NumOut(q) \in Nat /\ NumOut(q) >= 2
    BY Outputs
  <2>2. j \in Nat /\ j + 1 < NumOut(q)
    BY <2>1
  <2> HIDE DEF j
  <2>3. /\ \A i \in DOMAIN Pair(q, j) : Pair(q, j)[i] \in Buffer
        /\ Len(Pair(q, j)) = 2
    BY <1>2, <2>2
  <2>4. QED
    BY <2>3 DEF j
<1>4. CASE p \notin {AgcFront, CompLim}
  <2>1. /\ \A i \in DOMAIN bufsIn[p] : bufsIn[p][i] \in Buffer \cup {NullBuf}
        /\ Len(bufsIn[p]) = 2
    <3>1. CASE p = MeterMainIn /\ bufsIn[p] = Unwired
      BY <3>1 DEF Unwired
    <3>2. CASE p = MeterMainIn /\ bufsIn[p] = Pair(Jack, 0)
      BY <1>3, <3>2
    <3>3. CASE p = MeterMainOut
      <4>1. bufsIn[p] \in {Pair(Delay, 0), Pair(Jack, 0)} /\ Delay \in Plugin
        BY <3>3 DEF Wired, Plugin
      <4>2. QED
        BY <1>3, <4>1
    <3>4. CASE p \in Simple \ {MeterMainOut}
      <4>1. bufsIn[p] = Pair(InputOf[p], 0)
        <5>1. p # MeterMainIn
          BY <3>4 DEF Simple, Jack, MeterMainIn, GainInput, MeterPostGain, Hpf, PhaseRotator,
       AgcFront, StereoEnhance, BassEnhancer, PrecompEq, Crossover, CompLim,
       Delay, MeterMainOut, MeterPre, MeterPost
        <5>2. QED
          BY <1>4, <3>4, <5>1, WiringLemma, MainWiringLemma DEF Wired
      <4>2. InputOf[p] \in Plugin
        BY <3>4, InputOfLemma DEF Simple, Plugin, Meter
      <4>3. QED
        BY <1>3, <4>1, <4>2
    <3>5. CASE p \in {MeterPre(b) : b \in Band} \cup {MeterPost(b) : b \in Band}
      <4>1. PICK b \in Band : p = MeterPre(b) \/ p = MeterPost(b)
        BY <3>5
      <4>2. p # MeterMainIn /\ p # MeterMainOut
        BY <4>1 DEF Jack, MeterMainIn, GainInput, MeterPostGain, Hpf, PhaseRotator,
       AgcFront, StereoEnhance, BassEnhancer, PrecompEq, Crossover, CompLim,
       Delay, MeterMainOut, MeterPre, MeterPost
      <4>3. \/ bufsIn[p] = Pair(Crossover, 2 + 2 * b)
            \/ bufsIn[p] = Pair(CompLim, 2 + 2 * b)
        BY <1>4, <4>1, <4>2, WiringLemma, MainWiringLemma DEF Wired
      <4>4. /\ Crossover \in Plugin /\ CompLim \in Plugin /\ 2 + 2 * b \in Nat
            /\ 2 + 2 * b + 1 < NumOut(Crossover)
            /\ 2 + 2 * b + 1 < NumOut(CompLim)
        BY Constants, Outputs DEF Plugin
      <4>5. QED
        BY <1>2, <4>3, <4>4
    <3>6. p = MeterMainIn => bufsIn[p] \in {Unwired, Pair(Jack, 0)}
      BY DEF Wired
    <3>7. QED
      BY <1>4, <3>1, <3>2, <3>3, <3>4, <3>5, <3>6 DEF Plugin, Meter, Simple
  <2>2. QED
    BY <1>4, <2>1
<1>5. CASE p = AgcFront
  <2>1. bufsIn[p] = Wiring[AgcFront]
    BY <1>5 DEF Wired, Jack, MeterMainIn, GainInput, MeterPostGain, Hpf, PhaseRotator,
       AgcFront, StereoEnhance, BassEnhancer, PrecompEq, Crossover, CompLim,
       Delay, MeterMainOut, MeterPre, MeterPost
  <2>2. /\ Wiring[AgcFront] \in Seq(Source) /\ Len(Wiring[AgcFront]) = 6
    BY WiringLemma
  <2>3. DOMAIN Wiring[AgcFront] = 1..6
    BY <2>2, LenProperties
  <2>4. ASSUME NEW i \in 1..6
        PROVE  Wiring[AgcFront][i] \in Buffer
    <3>1. /\ PhaseRotator \in Plugin /\ MeterPostGain \in Plugin
          /\ MeterPostGain \in Meter
      BY DEF Plugin, Meter
    <3>2. CASE i \in 1..2
      <4>1. i - 1 \in 0..1 /\ 1 + (i - 1) = i
        BY <3>2
      <4>2. Wiring[AgcFront][1 + (i - 1)] = <<PhaseRotator, i - 1>>
        BY <4>1, WiringLemma
      <4>3. <<PhaseRotator, i - 1>> \in Buffer
        BY <3>1, <4>1, Existing
      <4>4. QED
        BY <4>1, <4>2, <4>3
    <3>3. CASE i \in 3..6
      <4>1. i - 1 \in 2..5 /\ (i - 1) + 1 = i
        BY <3>3
      <4>2. Wiring[AgcFront][(i - 1) + 1] = <<MeterPostGain, i - 1>>
        BY <4>1, WiringLemma
      <4>3. <<MeterPostGain, i - 1>> \in Buffer
        BY <3>1, <4>1, Outputs, InBuffer
      <4>4. QED
        BY <4>1, <4>2, <4>3
    <3>4. QED
      BY <3>2, <3>3
  <2>5. QED
    BY <1>1, <1>5, <2>1, <2>2, <2>3, <2>4
<1>6. CASE p = CompLim
  <2>1. bufsIn[p] = Wiring[CompLim]
    BY <1>6 DEF Wired, Jack, MeterMainIn, GainInput, MeterPostGain, Hpf, PhaseRotator,
       AgcFront, StereoEnhance, BassEnhancer, PrecompEq, Crossover, CompLim,
       Delay, MeterMainOut, MeterPre, MeterPost
  <2>2. /\ Wiring[CompLim] \in Seq(Source)
        /\ Len(Wiring[CompLim]) = 4 + 4 * NBands
    BY WiringLemma
  <2>3. DOMAIN Wiring[CompLim] = 1..(4 + 4 * NBands)
    BY <2>2, LenProperties
  <2>4. ASSUME NEW i \in 1..(4 + 4 * NBands)
        PROVE  Wiring[CompLim][i] \in Buffer
    <3>1. Crossover \in Plugin /\ AgcFront \in Plugin
      BY DEF Plugin
    <3>2. CASE i \in 1..2
      <4>1. i - 1 \in 0..1 /\ 1 + (i - 1) = i
        BY <3>2
      <4>2. Wiring[CompLim][1 + (i - 1)] = <<Crossover, i - 1>>
        BY <4>1, WiringLemma
      <4>3. <<Crossover, i - 1>> \in Buffer
        BY <3>1, <4>1, Existing
      <4>4. QED
        BY <4>1, <4>2, <4>3
    <3>3. CASE i \in 3..(2 + 2 * NBands)
      <4> DEFINE b == (i - 3) \div 2
                 s == (i - 3) % 2
      <4>1. b \in Band /\ s \in 0..1 /\ i = 2 + 2 * b + s + 1
        BY <1>1, <3>3 DEF Band
      <4> HIDE DEF b, s
      <4>2. Wiring[CompLim][2 + 2 * b + s + 1] = <<Crossover, 2 + 2 * b + s>>
        BY <4>1, WiringLemma
      <4>3. 2 + 2 * b + s \in Nat /\ 2 + 2 * b + s < NumOut(Crossover)
        BY <4>1, Constants, Outputs
      <4>4. <<Crossover, 2 + 2 * b + s>> \in Buffer
        BY <3>1, <4>3, InBuffer
      <4>5. QED
        BY <4>1, <4>2, <4>4
    <3>4. CASE i \in (3 + 2 * NBands)..(2 + 4 * NBands)
      <4> DEFINE b == (i - 3 - 2 * NBands) \div 2
                 s == (i - 3 - 2 * NBands) % 2
      <4>1. b \in Band /\ s \in 0..1 /\ i = 2 + 2 * NBands + 2 * b + s + 1
        BY <1>1, <3>4 DEF Band
      <4> HIDE DEF b, s
      <4>2. Wiring[CompLim][2 + 2 * NBands + 2 * b + s + 1] = <<MeterPre(b), 4 + s>>
        BY <4>1, WiringLemma
      <4>3. MeterPre(b) \in Plugin /\ NumOut(MeterPre(b)) = 6
        BY <4>1, Names, Outputs
      <4>4. <<MeterPre(b), 4 + s>> \in Buffer
        BY <4>1, <4>3, InBuffer
      <4>5. QED
        BY <4>1, <4>2, <4>4
    <3>5. CASE i \in (3 + 4 * NBands)..(4 + 4 * NBands)
      <4> DEFINE s == i - 3 - 4 * NBands
      <4>1. s \in 0..1 /\ i = 2 + 4 * NBands + s + 1
        BY <1>1, <3>5
      <4> HIDE DEF s
      <4>2. Wiring[CompLim][2 + 4 * NBands + s + 1] = <<AgcFront, 4 + s>>
        BY <4>1, WiringLemma
      <4>3. <<AgcFront, 4 + s>> \in Buffer
        BY <3>1, <4>1, Outputs, InBuffer
      <4>4. QED
        BY <4>1, <4>2, <4>3
    <3>6. QED
      BY <1>1, <3>2, <3>3, <3>4, <3>5
  <2>5. QED
    BY <1>1, <1>6, <2>1, <2>2, <2>3, <2>4
<1>7. QED
  BY <1>4, <1>5, <1>6

LEMMA InitIInv ==
  ASSUME Init
  PROVE  IInv
<1>1. /\ bufsIn = Wiring /\ content = [b \in Buffer |-> Never] /\ bypass = FALSE
      /\ enabled = [p \in Switch |-> TRUE] /\ inited \in [NoReturn -> BOOLEAN]
      /\ folded \in Folds /\ stage = Idle /\ tested = FALSE
      /\ pld = [l \in LiveLevel |-> MaxAge] /\ touched = {}
      /\ delay = 0 /\ line = Silence(0) /\ filled = 0
      /\ process = "running"
  BY DEF Init
<1>2. Wired /\ bufsIn[MeterMainIn] = Unwired
  <2>1. /\ MeterMainOut \in Simple /\ InputOf[MeterMainOut] = Delay
        /\ {MeterMainIn, MeterMainOut} \subseteq Plugin \ {AgcFront, CompLim}
    BY InputOfLemma DEF Simple, Plugin, Meter, Jack, MeterMainIn, GainInput, MeterPostGain, Hpf, PhaseRotator,
       AgcFront, StereoEnhance, BassEnhancer, PrecompEq, Crossover, CompLim,
       Delay, MeterMainOut, MeterPre, MeterPost
  <2>2. /\ Wiring[MeterMainOut] = Pair(Delay, 0)
        /\ Wiring[MeterMainIn] = Unwired
    BY <2>1, WiringLemma, MainWiringLemma
  <2>3. Wiring = [p \in Plugin |-> Wiring[p]]
    <3>1. MainWiring = [p \in Plugin |-> MainWiring[p]]
      BY DEF MainWiring
    <3>2. QED
      BY <3>1 DEF Wiring
  <2>4. QED
    BY <1>1, <2>2, <2>3 DEF Wired
<1>3. Never \in Contents /\ Never.age = MaxAge
  BY Constants DEF Never, Contents
<1>4. Types
  <2>1. stage \in {Idle, Fork, Output} \cup DOMAIN Chain
    BY <1>1
  <2>2. folded \in BOOLEAN
    BY <1>1, Constants
  <2>3. pld \in [LiveLevel -> 0..MaxAge]
    BY <1>1, Constants
  <2>4. content \in [Buffer -> Contents]
    BY <1>1, <1>3
  <2>6. /\ delay \in 0..(2 * MaxDelay) /\ filled \in 0..(MaxDelay + 1)
        /\ line \in [0..1 -> [0..Reach(delay) -> Contents]]
    <3>1. 0 \in 0..(2 * MaxDelay) /\ 0 \in 0..(MaxDelay + 1)
      BY Constants
    <3>2. QED
      BY <1>1, <3>1, SilenceLemma
  <2>5. QED
    BY <1>1, <1>2, <2>1, <2>2, <2>3, <2>4, <2>6 DEF Types
<1>5. stage \notin DOMAIN Chain /\ stage # Output /\ stage # Fork /\ stage # 7
      /\ stage \notin 1..7
  BY <1>1, Stages
<1>6. ~InChain /\ ~Bypassing
  BY <1>5 DEF InChain, Bypassing
<1>7. BlockIn /\ BassInv /\ FlowSound /\ OnAirSound
  BY <1>1, <1>2, <1>5, <1>6
     DEF BlockIn, BassInv, FlowSound, Ran, OnAirSound, BlockDone
<1>8. LevelsTogether
  <2>1. \A i \in 2..(3 * NBands + 1) : <<CompLim, i>> \in Buffer
    <3>1. \A i \in 2..(3 * NBands + 1) : i \in 0..(3 * NBands + 1)
      BY Constants
    <3>2. QED
      BY <3>1, Existing
  <2>2. AgcFront \in Plugin /\ 0 \in 0..1 /\ 2 \in 2..(3 * NBands + 1)
    BY Constants DEF Plugin
  <2>3. /\ \A b \in Band : /\ <<MeterPost(b), 4>> \in Buffer
                           /\ <<MeterPre(b), 4>> \in Buffer
        /\ <<AgcFront, 0>> \in Buffer
    BY <2>2, Existing, Names
  <2>4. \A b \in Buffer : content[b].age = MaxAge
    BY <1>1, <1>3
  <2>5. \A i, j \in 2..(3 * NBands + 1) :
          content[<<CompLim, i>>].age = content[<<CompLim, j>>].age
    BY <2>1, <2>4
  <2>6. \A b \in Band :
          /\ content[<<MeterPost(b), 4>>].age = content[<<CompLim, 2>>].age
          /\ content[<<MeterPre(b), 4>>].age = content[<<AgcFront, 0>>].age
    BY <2>1, <2>2, <2>3, <2>4
  <2>7. content[<<AgcFront, 0>>].age <= content[<<CompLim, 2>>].age
    BY <2>1, <2>2, <2>3, <2>4, Constants
  <2>8. QED
    BY <2>5, <2>6, <2>7 DEF LevelsTogether
<1>9. LevelsConsistent
  <2>1. \A l \in LevelsAgc \cup LevelsPre \cup LevelsComp \cup LevelsPost :
          pld[l] = MaxAge
    BY <1>1 DEF LiveLevel
  <2>2. QED
    BY <2>1, Constants DEF LevelsConsistent
<1>11. DelaySound /\ LineInv
  <2>1. ~Played /\ ~Unfed
    BY <1>1, <1>5 DEF Played, Unfed
  <2>2. \A i \in 0..Reach(delay) : ~(i < filled)
    BY <1>1, <1>4, ReachLemma
  <2>3. QED
    BY <1>6, <2>1, <2>2 DEF DelaySound, LineInv
<1>10. QED
  BY <1>4, <1>7, <1>8, <1>9, <1>11 DEF IInv

-----------------------------------------------------------------------------
(* The theorems.                                                           *)

(* At every stage of a call of process() the buffers behind it, as far as  *)
(* the delay, hold this block, with the effects of the plugins it has been *)
(* through; what the delay's line holds is older, and of the age its place *)
(* says as far back as the line has been fed in a row, in a build that     *)
(* folds the bass enhancer's test.                                         *)
THEOREM IInvInvariant == Spec => []IInv
<1>1. Init => IInv
  BY InitIInv
<1>2. IInv /\ [Next]_vars => IInv'
  <2> SUFFICES ASSUME IInv, [Next]_vars
               PROVE  IInv'
    OBVIOUS
  <2>1. CASE Begin
    BY <2>1, BeginStep
  <2>2. CASE BypassChain \/ EnterChain
    BY <2>2, ChooseStep
  <2>3. CASE RunPlugin
    BY <2>3, RunPluginStep
  <2>4. CASE ExitUninited
    <3>1. /\ process' = "exited"
          /\ UNCHANGED <<bufsIn, content, bypass, enabled, build, stage, tested,
                         pld, delayLine, touched>>
      BY <2>4 DEF ExitUninited
    <3>2. QED
      BY <3>1, KeepStep
  <2>5. CASE DisableBass
    BY <2>5, DisableBassStep
  <2>6. CASE RunBass
    BY <2>6, RunBassStep
  <2>7. CASE LeaveChain
    BY <2>7, LeaveChainStep
  <2>8. CASE Finish
    BY <2>8, FinishStep
  <2>9. CASE Command
    BY <2>9, CommandStep
  <2>10. CASE UNCHANGED vars
    <3>1. UNCHANGED <<bufsIn, content, bypass, enabled, build, stage, tested,
                      pld, delayLine, touched, process>>
      BY <2>10 DEF vars, build, delayLine
    <3>2. process' \in {"running", "exited"}
      BY <3>1 DEF IInv, Types
    <3>3. QED
      BY <3>1, <3>2, KeepStep
  <2>11. QED
    BY <2>1, <2>2, <2>3, <2>4, <2>5, <2>6, <2>7, <2>8, <2>9, <2>10
       DEF Next, RtStep, Exited
<1>3. QED
  BY <1>1, <1>2, PTL DEF Spec

(* Every variable stays in its range.  No plugin has more or fewer inputs  *)
(* than it takes by number, and none reads a buffer that does not exist,   *)
(* for any number of bands.                                                *)
THEOREM TypeCorrect == Spec => []TypeOK
<1>1. ASSUME Types
      PROVE  TypeOK
  <2>1. \A p \in Plugin :
          /\ \A i \in DOMAIN bufsIn[p] : bufsIn[p][i] \in Buffer \cup {NullBuf}
          /\ Len(bufsIn[p]) = CASE p = AgcFront -> 6
                                [] p = CompLim  -> 4 + 4 * NBands
                                [] OTHER        -> 2
    BY <1>1, InputsExist DEF Types
  <2>2. content \in [Buffer -> [age : 0..MaxAge, fx : SUBSET Effects]]
    BY <1>1 DEF Types, Contents
  <2>3. line \in [0..1 -> [0..Reach(delay) ->
                             [age : 0..MaxAge, fx : SUBSET Effects]]]
    BY <1>1 DEF Types, Contents
  <2>4. QED
    BY <1>1, <2>1, <2>2, <2>3 DEF Types, TypeOK
<1>2. QED
  BY <1>1, IInvInvariant, PTL DEF IInv

(* The aux buffers are counted right: each band of the compressor is       *)
(* steered by the meter of that very band and channel, and the AGC by that *)
(* of the channel it adjusts, for any number of bands.                     *)
THEOREM LevelsSteer == Spec => []LevelsSteerTheirBand
<1>1. ASSUME Types
      PROVE  LevelsSteerTheirBand
  <2>1. Wired
    BY <1>1 DEF Types
  <2>2. ASSUME NEW b \in Band, NEW s \in 0..1
        PROVE  LET audio == In(CompLim, 2 + 2 * b + s)
                   level == In(CompLim, 2 + 2 * NBands + 2 * b + s)
               IN  /\ audio = <<Crossover, 2 + 2 * b + s>>
                   /\ level[1] \in Meter /\ level[2] = 4 + s
                   /\ In(level[1], s) = audio
    <3>1. /\ In(CompLim, 2 + 2 * b + s) = <<Crossover, 2 + 2 * b + s>>
          /\ In(CompLim, 2 + 2 * NBands + 2 * b + s) = <<MeterPre(b), 4 + s>>
          /\ In(MeterPre(b), s) = <<Crossover, 2 + 2 * b + s>>
      BY <2>1, Inputs
    <3>2. MeterPre(b) \in Meter
      BY Names
    <3>3. QED
      BY <3>1, <3>2
  <2>3. \A s \in 0..1 : In(AgcFront, 4 + s) = <<MeterPostGain, 4 + s>>
    BY <2>1, Inputs
  <2>4. QED
    BY <2>2, <2>3 DEF LevelsSteerTheirBand
<1>2. QED
  BY <1>1, IInvInvariant, PTL DEF IInv

(* With no delay set, or under the master bypass, what is played was       *)
(* computed from the block that came in with that call of process(), in a  *)
(* build that folds the bass enhancer's test.                              *)
THEOREM OutputIsCurrent == Spec => []OutputCurrent
<1>1. IInv => OutputCurrent
  BY DEF IInv, OnAirSound, OutputCurrent, Stale
<1>2. QED
  BY <1>1, IInvInvariant, PTL

(* In the other builds an older block is played with no delay set only if  *)
(* the bass enhancer was thrown, on or off, during that very call.         *)
THEOREM StaleOnlyIfThrown == Spec => []StaleOnlyIfBassThrown
<1>1. IInv => StaleOnlyIfBassThrown
  <2> SUFFICES ASSUME IInv, BlockDone, Undelayed,
                      NEW b \in OnAir, content[b].age > 0
               PROVE  BassEnhancer \in touched
    BY DEF StaleOnlyIfBassThrown
  <2>1. content[b].age = 0 \/ Stale
    BY DEF IInv, OnAirSound
  <2>2. QED
    BY <2>1 DEF Stale
<1>2. QED
  BY <1>1, IInvInvariant, PTL

(* With a delay set, what is played is exactly as old as the delay once    *)
(* the line has been fed Reach(delay) + 1 times in a row since the delay   *)
(* was changed or the chain bypassed, for any delay.                       *)
THEOREM OutputIsDelayed == Spec => []OutputDelayed
<1>1. IInv => OutputDelayed
  <2> SUFFICES ASSUME IInv, folded, BlockDone, ~bypass,
                      {Bypass, Delay} \cap touched = {},
                      filled > Reach(delay), NEW b \in OnAir
               PROVE  content[b].age = Aged(Reach(delay))
    BY DEF OutputDelayed
  <2>1. Bypass \notin touched /\ Full
    BY DEF Full
  <2>2. QED
    BY <2>1 DEF IInv, OnAirSound
<1>2. QED
  BY <1>1, IInvInvariant, PTL

(* Switches thrown in mid-block take effect as a whole or not at all.      *)
THEOREM SwitchesMatch == Spec => []OnAirMatchesSwitches
<1>1. IInv => OnAirMatchesSwitches
  <2> SUFFICES ASSUME IInv, BlockDone, NEW b \in OnAir, content[b].age = 0
               PROVE  /\ Bypass \notin touched => (bypass <=> content[b].fx = {})
                      /\ content[b].fx # {} => \A p \in Audible \ touched :
                            p \in content[b].fx <=> enabled[p]
    BY DEF OnAirMatchesSwitches
  <2>1. /\ Bypass \notin touched => (bypass <=> content[b].fx = {})
        /\ content[b].fx # {} => Correct(content[b].fx, Audible)
    BY DEF IInv, OnAirSound
  <2>2. QED
    BY <2>1 DEF Correct
<1>2. QED
  BY <1>1, IInvInvariant, PTL

(* The levels published together belong together.                          *)
THEOREM LevelsBelongTogether == Spec => []LevelsConsistent
BY IInvInvariant, PTL DEF IInv

=============================================================================
