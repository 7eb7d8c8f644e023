--------------------------- MODULE LiveDataProofs ---------------------------
(***************************************************************************)
(* Proofs that the live data two threads share without a lock is a safe    *)
(* register, and each of its fields a regular one, for messages of any     *)
(* number of fields and any layout of has-bits, and any number of blocks.  *)
(***************************************************************************)
EXTENDS LiveData, Integers, SequenceTheorems, WellFoundedInduction, TLAPS

-----------------------------------------------------------------------------
(* The writer.                                                             *)

WriterTypes ==
  /\ value \in [Field -> 0..MaxBlocks]
  /\ has \in [Words -> SUBSET Field]
  /\ \A w \in Words : has[w] \subseteq {f \in Field : Word[f] = w}
  /\ copying \in {"idle", "clear", "clearBits", "merge", "setBits"}
  /\ todo \subseteq Field
  /\ todoBits \subseteq Words
  /\ block \in 0..MaxBlocks

Merging == copying \in {"merge", "setBits"}

(* A field is of the block that is being copied, or the one before, or     *)
(* clear; those that have been merged are of the block being copied.       *)
Copied ==
  /\ block = 0 => copying = "idle"
  /\ \A f \in Field : value[f] \in {0, block - 1, block}
  /\ copying = "idle" => \A f \in Field : value[f] = block
  /\ Merging => \A f \in Field \ todo : value[f] = block

(* Group after group is merged.                                            *)
InGroups ==
  /\ Merging => \A f \in Field \ todo, g \in todo : Group[f] <= Group[g]
  /\ copying = "setBits" =>
       /\ todo # Field
       /\ \A f \in Field \ todo, g \in todo : Group[f] # Group[g]
  /\ copying = "merge" => todo # {}

Full(w) == {f \in Field : Word[f] = w}

(* The bits of the groups that have been merged are set, but for those of  *)
(* the last one before SetBits.                                            *)
BitsSet ==
  /\ copying = "idle" /\ block = 0 => \A w \in Words : has[w] = {}
  /\ copying = "idle" /\ block > 0 => \A w \in Words : has[w] = Full(w)
  /\ copying = "merge" => \A f \in Field \ todo :
       (\A g \in todo : Group[g] # Group[f]) => has[Word[f]] = Full(Word[f])
  /\ copying = "setBits" => \A f \in Field \ todo :
       Word[f] # MergedWord => has[Word[f]] = Full(Word[f])

WriterInv == WriterTypes /\ Copied /\ InGroups /\ BitsSet

-----------------------------------------------------------------------------
(* The reader.                                                             *)

Reads == {"bytes", "length", "bit", "value"} \X Nat

OfField(read) == read[1] \in {"bit", "value"}

ReaderTypes ==
  /\ plan \in Seq(Reads)
  /\ Len(plan) <= 2 * N + 4
  /\ string \in Seq(Field \X (0..MaxBlocks))
  /\ sending \in BOOLEAN
  /\ bytes \subseteq Field
  /\ length \subseteq Field
  /\ clean \in BOOLEAN
  /\ base \in 0..MaxBlocks

(* What is still to be read: no read comes twice, the fields come in their *)
(* order, and the value of each right after its bit.                       *)
InOrder(p) ==
  /\ \A i \in DOMAIN p :
       /\ OfField(p[i]) => p[i][2] \in Field
       /\ ~OfField(p[i]) => p[i][2] \in Words
       /\ p[i][1] = "bit" =>
            i + 1 \in DOMAIN p /\ p[i + 1] = <<"value", p[i][2]>>
       /\ p[i][1] = "value" => i = 1 \/ p[i - 1] = <<"bit", p[i][2]>>
  /\ \A i, j \in DOMAIN p : i < j =>
       /\ p[i] # p[j]
       /\ OfField(p[i]) /\ OfField(p[j]) => p[i][2] <= p[j][2]
       /\ p[i][1] = "value" /\ OfField(p[j]) => p[i][2] < p[j][2]

Ascending ==
  /\ \A i, j \in DOMAIN string : i < j => string[i][1] < string[j][1]
  /\ \A i \in DOMAIN plan, j \in DOMAIN string :
       OfField(plan[i]) => string[j][1] < plan[i][2]

Planned(p, read) == \E i \in DOMAIN p : p[i] = read

(* A message that no copying has overlapped with holds what the reads done *)
(* so far have found in m_pld.                                             *)
CleanSoFar ==
  clean /\ sending =>
    IF block = 0
    THEN /\ string = <<>> /\ bytes = {} /\ length = {}
         /\ plan # <<>> => plan[1][1] # "value"
    ELSE /\ \A i \in DOMAIN string : string[i] = <<i, block>>
         /\ \A f \in Field : f > Len(string) <=> Planned(plan, <<"value", f>>)
         /\ Len(string) <= N
         /\ \A f \in Field : f \in bytes <=> ~Planned(plan, <<"bytes", Word[f]>>)
         /\ \A f \in Field : f \in length <=> ~Planned(plan, <<"length", Word[f]>>)

Overlap ==
  /\ clean /\ sending => copying = "idle"
  /\ plan # <<>> => sending
  /\ base <= block
  /\ copying # "idle" => base < block

IInv ==
  /\ WriterInv /\ ReaderTypes /\ InOrder(plan) /\ Ascending /\ Overlap
  /\ CleanSoFar /\ RegularFields

-----------------------------------------------------------------------------
(* The layout.                                                             *)

LEMMA Layout ==
  /\ N \in Nat \ {0}
  /\ Group \in [Field -> Nat]
  /\ Word \in [Field -> {0, 1}]
  /\ Words = {0, 1}
  /\ \A f \in Field : Word[f] \in Words
  /\ \A w \in Words : \E f \in Field : Word[f] = w
  /\ \A f, g \in Field : f < g => Group[f] <= Group[g]
  /\ \A f, g \in Field : Group[f] = Group[g] => Word[f] = Word[g]
  /\ MaxBlocks \in Nat
BY LayoutAssumption DEF Words

(* Every nonempty set of fields has a greatest one.                        *)
LEMMA GreatestField ==
  ASSUME NEW S, S \subseteq Field, S # {}
  PROVE  \E f \in S : \A g \in S : g <= f
<1> DEFINE T == {N - f : f \in S}
<1>1. T \subseteq Nat /\ T # {}
  <2>1. \A f \in S : N - f \in Nat
    BY Layout DEF Field
  <2>2. QED
    BY <2>1
<1>2. PICK x \in T : \A y \in T : <<y, x>> \notin OpToRel(<, Nat)
  BY <1>1, NatLessThanWellFounded, WFMin
<1>3. \A y \in T : ~(y < x)
  BY <1>1, <1>2 DEF OpToRel
<1>4. PICK f \in S : x = N - f
  OBVIOUS
<1>5. \A g \in S : N - g \in T
  OBVIOUS
<1>6. \A g \in S : ~(N - g < N - f)
  BY <1>3, <1>4, <1>5
<1>7. QED
  BY <1>6, Layout DEF Field

(* The word that SetBits writes to is that of any field of the last group. *)
LEMMA LastMerged ==
  ASSUME NEW f \in Field, NEW left, f \notin left,
         \A g \in Field \ left : Group[g] <= Group[f]
  PROVE  LET done == Field \ left
             h == CHOOSE h \in done : \A g \in done : g <= h
         IN  Word[h] = Word[f]
<1> DEFINE done == Field \ left
           h == CHOOSE h \in done : \A g \in done : g <= h
<1>1. \E g \in done : \A e \in done : e <= g
  BY GreatestField
<1>2. h \in done /\ \A g \in done : g <= h
  BY <1>1
<1>3. f <= h
  BY <1>2
<1>4. Group[f] = Group[h]
  <2> HIDE DEF h
  <2>1. Group[h] <= Group[f]
    BY <1>2
  <2>2. f = h \/ Group[f] <= Group[h]
    <3>1. f \in Nat /\ h \in Nat /\ h \in Field
      BY <1>2 DEF Field
    <3>2. f = h \/ f < h
      BY <1>3, <3>1
    <3>3. QED
      BY <3>1, <3>2, Layout
  <2>3. Group[f] \in Nat /\ Group[h] \in Nat
    BY <1>2, Layout
  <2>4. QED
    BY <2>1, <2>2, <2>3
<1>5. QED
  BY <1>2, <1>4, Layout

LEMMA MergedWordLemma ==
  ASSUME WriterInv, copying = "setBits"
  PROVE  \E f \in Field \ todo : MergedWord = Word[f]
<1>1. Field \ todo # {}
  BY DEF WriterInv, WriterTypes, InGroups
<1>2. \E f \in Field \ todo : \A g \in Field \ todo : g <= f
  BY <1>1, GreatestField
<1>3. QED
  BY <1>2 DEF MergedWord

-----------------------------------------------------------------------------
(* The writer's steps.                                                     *)

LEMMA BeginRefreshWrites ==
  ASSUME WriterInv, BeginRefresh
  PROVE  WriterInv'
<1> USE DEF BeginRefresh, WriterInv
<1>1. WriterTypes'
  BY Layout DEF WriterTypes
<1>2. copying = "idle" /\ copying' \in {"clear", "clearBits"}
      /\ block' = block + 1 /\ block \in Nat /\ value' = value
  BY Layout DEF WriterTypes
<1>3. Copied'
  BY <1>2 DEF Copied, Merging
<1>4. InGroups' /\ BitsSet'
  BY <1>2 DEF InGroups, BitsSet, Merging
<1>5. QED
  BY <1>1, <1>3, <1>4

LEMMA ClearFieldWrites ==
  ASSUME WriterInv, ClearField
  PROVE  WriterInv'
<1> USE DEF ClearField, WriterInv
<1>1. WriterTypes'
  BY Layout DEF WriterTypes, FirstGroup
<1>2. copying = "clear" /\ copying' \in {"clear", "clearBits"}
      /\ block' = block
  OBVIOUS
<1>3. \A f \in Field : value'[f] \in {0, value[f]}
  BY DEF WriterTypes
<1>4. Copied'
  BY <1>2, <1>3 DEF Copied, Merging
<1>5. InGroups' /\ BitsSet'
  BY <1>2 DEF InGroups, BitsSet, Merging
<1>6. QED
  BY <1>1, <1>4, <1>5

LEMMA ClearBitsWrites ==
  ASSUME WriterInv, ClearBits
  PROVE  WriterInv'
<1> USE DEF ClearBits, WriterInv
<1>1. copying = "clearBits" /\ block' = block /\ value' = value
      /\ copying' \in {"clearBits", "merge"}
      /\ (copying' = "merge" => todo' = Field)
  OBVIOUS
<1>2. WriterTypes'
  BY Layout DEF WriterTypes
<1>3. Copied'
  BY <1>1 DEF Copied, Merging
<1>4. Field # {}
  BY Layout DEF Field
<1>5. InGroups' /\ BitsSet'
  BY <1>1, <1>4 DEF InGroups, BitsSet, Merging
<1>6. QED
  BY <1>2, <1>3, <1>5

LEMMA MergeFieldWrites ==
  ASSUME WriterInv, MergeField
  PROVE  WriterInv'
<1> USE DEF WriterInv
<1>1. PICK f \in FirstGroup(todo) :
        /\ value' = [value EXCEPT ![f] = block]
        /\ todo' = todo \ {f}
        /\ copying' = IF FirstGroup(todo) = {f} THEN "setBits" ELSE "merge"
  BY DEF MergeField
<1>2. /\ copying = "merge" /\ block' = block /\ has' = has
      /\ todoBits' = todoBits
  BY DEF MergeField
<1>3. f \in todo /\ f \in Field /\ \A g \in todo : Group[f] <= Group[g]
  BY DEF FirstGroup, WriterTypes
<1>4. WriterTypes'
  BY <1>1, <1>2, <1>3 DEF WriterTypes
<1>5. Copied'
  BY <1>1, <1>2, <1>3 DEF Copied, Merging, WriterTypes
<1>6. \A g \in Field : Group[g] \in Nat
  BY Layout
<1>7. Field \ todo' = (Field \ todo) \cup {f} /\ todo \subseteq Field
  BY <1>1, <1>3 DEF WriterTypes
<1>8. CASE FirstGroup(todo) = {f}
  <2>1. copying' = "setBits"
    BY <1>1, <1>8
  <2>2. \A g \in todo' : Group[f] < Group[g]
    BY <1>1, <1>3, <1>6, <1>7, <1>8 DEF FirstGroup
  <2>3. \A g \in Field \ todo' : Group[g] <= Group[f]
    BY <1>2, <1>3, <1>6, <1>7 DEF InGroups, Merging
  <2>4. InGroups'
    <3>1. \A e \in Field \ todo', g \in todo' : Group[e] < Group[g]
      BY <1>1, <1>6, <1>7, <2>2, <2>3
    <3>2. todo' # Field
      BY <1>1, <1>3
    <3>3. QED
      BY <1>1, <1>6, <1>7, <2>1, <3>1, <3>2 DEF InGroups, Merging
  <2>5. MergedWord' = Word[f]
    BY <1>1, <1>3, <2>3, LastMerged DEF MergedWord
  <2>6. \A e \in Field \ todo' : Word[e] # Word[f] =>
          has[Word[e]] = Full(Word[e])
    <3> SUFFICES ASSUME NEW e \in Field \ todo', Word[e] # Word[f]
                 PROVE  has[Word[e]] = Full(Word[e])
      OBVIOUS
    <3>1. e \in Field \ todo /\ Group[e] # Group[f]
      BY <1>3, <1>7, Layout
    <3>2. \A g \in todo : Group[g] # Group[e]
      BY <1>3, <1>6, <1>7, <2>3, <3>1
    <3>3. QED
      BY <1>2, <3>1, <3>2 DEF BitsSet
  <2>7. BitsSet'
    BY <1>2, <2>1, <2>5, <2>6 DEF BitsSet, Full
  <2>8. QED
    BY <1>4, <1>5, <2>4, <2>7
<1>9. CASE FirstGroup(todo) # {f}
  <2>1. copying' = "merge"
    BY <1>1, <1>9
  <2>2. PICK g \in todo' : Group[g] = Group[f]
    BY <1>1, <1>3, <1>6, <1>7, <1>9 DEF FirstGroup
  <2>3. InGroups'
    BY <1>1, <1>2, <1>3, <1>7, <2>1, <2>2 DEF InGroups, Merging
  <2>4. \A e \in Field \ todo' :
          (\A h \in todo' : Group[h] # Group[e]) =>
             e \in Field \ todo /\ \A h \in todo : Group[h] # Group[e]
    BY <1>1, <1>7, <2>2
  <2>5. BitsSet'
    BY <1>2, <2>1, <2>4 DEF BitsSet, Full
  <2>6. QED
    BY <1>4, <1>5, <2>3, <2>5
<1>10. QED
  BY <1>8, <1>9

LEMMA SetBitsWrites ==
  ASSUME WriterInv, SetBits
  PROVE  WriterInv'
<1> USE DEF WriterInv
<1>1. /\ copying = "setBits"
      /\ has' = [has EXCEPT ![MergedWord] = Full(MergedWord)]
      /\ copying' = IF todo = {} THEN "idle" ELSE "merge"
      /\ UNCHANGED <<value, todo, todoBits, block>>
  BY DEF SetBits, Full
<1>2. MergedWord \in Words
  BY <1>1, MergedWordLemma, Layout
<1>3. \A w \in Words : has'[w] = IF w = MergedWord THEN Full(w) ELSE has[w]
  BY <1>1, <1>2 DEF WriterTypes
<1>4. WriterTypes'
  BY <1>1, <1>2 DEF WriterTypes, Full
<1>5. block # 0
  BY <1>1 DEF Copied
<1>6. Copied'
  BY <1>1, <1>5 DEF Copied, Merging
<1>7. InGroups'
  BY <1>1 DEF InGroups, Merging
<1>8. \A f \in Field \ todo : has'[Word[f]] = Full(Word[f])
  BY <1>1, <1>3, Layout DEF BitsSet
<1>9. BitsSet'
  <2>1. copying' = "idle" => \A w \in Words : has'[w] = Full(w)
    BY <1>1, <1>8, Layout
  <2>2. QED
    BY <1>1, <1>5, <1>8, <2>1 DEF BitsSet, Full
<1>10. QED
  BY <1>4, <1>6, <1>7, <1>9

LEMMA ReaderWritesNothing ==
  ASSUME WriterInv, UNCHANGED rtVars
  PROVE  WriterInv'
<1> USE DEF WriterInv, rtVars
<1>1. MergedWord' = MergedWord
  BY DEF MergedWord
<1>2. WriterTypes' /\ Copied'
  BY DEF WriterTypes, Copied, Merging
<1>3. InGroups'
  BY DEF InGroups, Merging
<1>4. BitsSet'
  BY <1>1 DEF BitsSet, Full
<1>5. QED
  BY <1>2, <1>3, <1>4

-----------------------------------------------------------------------------
(* What the reader plans.                                                  *)

(* A plan of all reads: first come d lengths, then bit and value of field  *)
(* after field, then the lengths that are left.                            *)
Complete(p, d) ==
  /\ p \in Seq(Reads)
  /\ Len(p) = 2 * N + 4
  /\ \A i \in 1..(2 * N) :
       p[d + i] = <<IF i % 2 = 1 THEN "bit" ELSE "value", (i + 1) \div 2>>
  /\ IF d = 2
     THEN /\ p[1] = <<"bytes", 0>> /\ p[2] = <<"bytes", 1>>
          /\ p[2 * N + 3] = <<"length", 0>> /\ p[2 * N + 4] = <<"length", 1>>
     ELSE /\ p[1] = <<"length", 0>> /\ p[2] = <<"length", 1>>
          /\ p[3] = <<"bytes", 0>> /\ p[4] = <<"bytes", 1>>

LEMMA PlansAreComplete ==
  ASSUME NEW p \in {SerializeAsString \o ByteSizeLong("length"),
                    ByteSizeLong("length") \o SerializeAsString}
  PROVE  \E d \in {2, 4} : Complete(p, d)
<1> DEFINE F == [i \in 1..(2 * N) |->
                   <<IF i % 2 = 1 THEN "bit" ELSE "value", (i + 1) \div 2>>]
           B == ByteSizeLong("bytes")
           L == ByteSizeLong("length")
<1>1. /\ B \in Seq(Reads) /\ Len(B) = 2
      /\ B[1] = <<"bytes", 0>> /\ B[2] = <<"bytes", 1>>
  BY DEF ByteSizeLong, Reads
<1>2. /\ L \in Seq(Reads) /\ Len(L) = 2
      /\ L[1] = <<"length", 0>> /\ L[2] = <<"length", 1>>
  BY DEF ByteSizeLong, Reads
<1>3. 2 * N \in Nat /\ N \in Nat
  BY Layout
<1>4. F \in Seq(Reads) /\ Len(F) = 2 * N
  <2>1. \A i \in 1..(2 * N) : (i + 1) \div 2 \in Nat
    BY <1>3
  <2>2. F \in [1..(2 * N) -> Reads]
    BY <2>1 DEF Reads
  <2> HIDE DEF F
  <2>3. QED
    BY <2>2, <1>3, SeqDef
<1>5. \A i \in 1..(2 * N) :
        F[i] = <<IF i % 2 = 1 THEN "bit" ELSE "value", (i + 1) \div 2>>
  OBVIOUS
<1> DEFINE S == B \o F
<1>6. p = S \o L \/ p = L \o S
  BY DEF SerializeAsString
<1> HIDE DEF F, B, L
<1>7. /\ S \in Seq(Reads) /\ Len(S) = 2 * N + 2
      /\ \A i \in 1..(2 * N + 2) : S[i] = IF i <= 2 THEN B[i] ELSE F[i - 2]
  <2>1. /\ S \in Seq(Reads) /\ Len(S) = Len(B) + Len(F)
        /\ \A i \in 1..(Len(B) + Len(F)) :
             S[i] = IF i <= Len(B) THEN B[i] ELSE F[i - Len(B)]
    BY <1>1, <1>4, ConcatProperties
  <2> HIDE DEF S
  <2>2. Len(B) + Len(F) = 2 * N + 2
    BY <1>1, <1>3, <1>4
  <2>3. QED
    BY <1>1, <2>1, <2>2
<1> HIDE DEF S
<1>8. /\ S[1] = B[1] /\ S[2] = B[2]
      /\ \A i \in 1..(2 * N) : S[2 + i] = F[i]
  <2>1. \A i \in 1..(2 * N) : 2 + i \in 1..(2 * N + 2) /\ ~(2 + i <= 2)
                              /\ (2 + i) - 2 = i
    BY <1>3
  <2>2. 1 \in 1..(2 * N + 2) /\ 2 \in 1..(2 * N + 2)
    BY <1>3
  <2>3. QED
    BY <1>7, <2>1, <2>2
<1>9. CASE p = S \o L
  <2>1. /\ p \in Seq(Reads) /\ Len(p) = 2 * N + 4
        /\ \A i \in 1..(2 * N + 4) :
             p[i] = IF i <= 2 * N + 2 THEN S[i] ELSE L[i - (2 * N + 2)]
    <3>1. /\ S \o L \in Seq(Reads) /\ Len(S \o L) = Len(S) + Len(L)
          /\ \A i \in 1..(Len(S) + Len(L)) :
               (S \o L)[i] = IF i <= Len(S) THEN S[i] ELSE L[i - Len(S)]
      BY <1>2, <1>7, ConcatProperties
    <3>2. Len(S) + Len(L) = 2 * N + 4
      BY <1>2, <1>3, <1>7
    <3>3. QED
      BY <1>2, <1>7, <1>9, <3>1, <3>2
  <2>2. \A i \in 1..(2 * N) : p[2 + i] = F[i]
    BY <1>3, <1>8, <2>1
  <2>3. p[1] = B[1] /\ p[2] = B[2]
        /\ p[2 * N + 3] = L[1] /\ p[2 * N + 4] = L[2]
    BY <1>3, <1>8, <2>1
  <2>4. QED
    BY <1>1, <1>2, <1>5, <2>1, <2>2, <2>3 DEF Complete
<1>10. CASE p = L \o S
  <2>1. /\ p \in Seq(Reads) /\ Len(p) = 2 * N + 4
        /\ \A i \in 1..(2 * N + 4) :
             p[i] = IF i <= 2 THEN L[i] ELSE S[i - 2]
    <3>1. /\ L \o S \in Seq(Reads) /\ Len(L \o S) = Len(L) + Len(S)
          /\ \A i \in 1..(Len(L) + Len(S)) :
               (L \o S)[i] = IF i <= Len(L) THEN L[i] ELSE S[i - Len(L)]
      <4>1. L \in Seq(Reads) /\ S \in Seq(Reads)
        BY <1>2, <1>7
      <4>2. QED
        BY <4>1, ConcatProperties
    <3>2. Len(L) + Len(S) = 2 * N + 4
      BY <1>2, <1>3, <1>7
    <3>3. QED
      BY <1>2, <1>7, <1>10, <3>1, <3>2
  <2>2. \A i \in 1..(2 * N) : p[4 + i] = F[i]
    <3>1. \A i \in 1..(2 * N) : 4 + i \in 1..(2 * N + 4) /\ ~(4 + i <= 2)
                                /\ (4 + i) - 2 = 2 + i
      BY <1>3
    <3>2. QED
      BY <1>8, <2>1, <3>1
  <2>3. p[1] = L[1] /\ p[2] = L[2] /\ p[3] = B[1] /\ p[4] = B[2]
    BY <1>3, <1>8, <2>1
  <2>4. QED
    BY <1>1, <1>2, <1>5, <2>1, <2>2, <2>3 DEF Complete
<1>11. QED
  BY <1>6, <1>9, <1>10

(* Where each read is, and which reads there are.                          *)
LEMMA CompletePlan ==
  ASSUME NEW p, NEW d \in {2, 4}, Complete(p, d)
  PROVE  /\ DOMAIN p = 1..(2 * N + 4)
         /\ \A k \in Field : /\ p[d + 2 * k - 1] = <<"bit", k>>
                             /\ p[d + 2 * k] = <<"value", k>>
         /\ \A i \in DOMAIN p :
              \/ ~(p[i][1] \in {"bit", "value"}) /\ p[i][2] \in Words
                 /\ (i <= d \/ i > d + 2 * N)
              \/ \E k \in Field : i = d + 2 * k - 1 \/ i = d + 2 * k
<1>1. p \in Seq(Reads) /\ N \in Nat \ {0}
  BY Layout DEF Complete
<1>2. DOMAIN p = 1..(2 * N + 4)
  BY <1>1 DEF Complete
<1>3. ASSUME NEW k \in Field
      PROVE  p[d + 2 * k - 1] = <<"bit", k>> /\ p[d + 2 * k] = <<"value", k>>
  <2>1. k \in 1..N
    BY DEF Field
  <2>2. /\ 2 * k - 1 \in 1..(2 * N) /\ (2 * k - 1) % 2 = 1
        /\ ((2 * k - 1) + 1) \div 2 = k
        /\ d + (2 * k - 1) = d + 2 * k - 1
    BY <1>1, <2>1
  <2>3. 2 * k \in 1..(2 * N) /\ (2 * k) % 2 = 0 /\ (2 * k + 1) \div 2 = k
    BY <1>1, <2>1
  <2>4. p[d + (2 * k - 1)] = <<"bit", k>>
    BY <2>2 DEF Complete
  <2>5. p[d + 2 * k] = <<"value", k>>
    <3> DEFINE i == 2 * k
    <3>1. p[d + i] = <<IF i % 2 = 1 THEN "bit" ELSE "value", (i + 1) \div 2>>
      BY <2>3 DEF Complete
    <3>2. i % 2 # 1 /\ (i + 1) \div 2 = k
      BY <2>3
    <3> HIDE DEF i
    <3>3. p[d + i] = <<"value", k>>
      BY <3>1, <3>2
    <3>4. QED
      BY <3>3 DEF i
  <2>6. QED
    BY <2>2, <2>4, <2>5
<1>4. ASSUME NEW i \in 1..(2 * N + 4)
      PROVE  \/ ~(p[i][1] \in {"bit", "value"}) /\ p[i][2] \in Words
                /\ (i <= d \/ i > d + 2 * N)
             \/ \E k \in Field : i = d + 2 * k - 1 \/ i = d + 2 * k
  <2>1. CASE i <= d \/ i > d + 2 * N
    <3>1. p[i] \in {<<"bytes", 0>>, <<"bytes", 1>>,
                    <<"length", 0>>, <<"length", 1>>}
      <4>1. CASE d = 2
        <5>1. i \in {1, 2, 2 * N + 3, 2 * N + 4}
          BY <1>1, <2>1, <4>1
        <5>2. QED
          BY <4>1, <5>1 DEF Complete
      <4>2. CASE d = 4
        <5>1. i \in {1, 2, 3, 4}
          BY <1>1, <2>1, <4>2
        <5>2. d # 2
          BY <4>2
        <5>3. QED
          BY <5>1, <5>2 DEF Complete
      <4>3. QED
        BY <4>1, <4>2
    <3>2. QED
      BY <2>1, <3>1, Layout
  <2>2. CASE i > d /\ i <= d + 2 * N
    <3> DEFINE k == (i - d + 1) \div 2
    <3>1. k \in 1..N /\ (i = d + 2 * k - 1 \/ i = d + 2 * k)
      BY <1>1, <2>2
    <3>2. QED
      BY <3>1 DEF Field
  <2>3. QED
    BY <1>1, <2>1, <2>2
<1>5. QED
  BY <1>2, <1>3, <1>4

LEMMA CompleteInOrder ==
  ASSUME NEW p, NEW d \in {2, 4}, Complete(p, d)
  PROVE  InOrder(p)
<1>1. p \in Seq(Reads) /\ N \in Nat \ {0} /\ DOMAIN p = 1..(2 * N + 4)
  BY Layout, CompletePlan DEF Complete
<1>2. \A k \in Field : /\ k \in Nat /\ 1 <= k /\ k <= N
                       /\ p[d + 2 * k - 1] = <<"bit", k>>
                       /\ p[d + 2 * k] = <<"value", k>>
  <2>1. \A k \in Field : /\ p[d + 2 * k - 1] = <<"bit", k>>
                         /\ p[d + 2 * k] = <<"value", k>>
    BY CompletePlan
  <2>2. \A k \in Field : k \in Nat /\ 1 <= k /\ k <= N
    BY <1>1 DEF Field
  <2>3. QED
    BY <2>1, <2>2
<1>3. \A i \in DOMAIN p : OfField(p[i]) =>
        \E k \in Field : i = d + 2 * k - 1 \/ i = d + 2 * k
  BY CompletePlan DEF OfField
<1>4. \A i \in DOMAIN p : ~OfField(p[i]) =>
        p[i][2] \in Words /\ (i <= d \/ i > d + 2 * N)
  <2>1. \A k \in Field : /\ p[d + 2 * k - 1][1] = "bit"
                         /\ p[d + 2 * k][1] = "value"
    BY <1>2
  <2>2. QED
    BY <2>1, CompletePlan DEF OfField
<1>5. \A i \in DOMAIN p : OfField(p[i]) =>
        \E k \in Field : \/ i = d + 2 * k - 1 /\ p[i] = <<"bit", k>>
                         \/ i = d + 2 * k /\ p[i] = <<"value", k>>
  BY <1>2, <1>3
<1>6. ASSUME NEW i \in DOMAIN p
      PROVE  /\ OfField(p[i]) => p[i][2] \in Field
             /\ ~OfField(p[i]) => p[i][2] \in Words
             /\ p[i][1] = "bit" =>
                  i + 1 \in DOMAIN p /\ p[i + 1] = <<"value", p[i][2]>>
             /\ p[i][1] = "value" => i = 1 \/ p[i - 1] = <<"bit", p[i][2]>>
  <2>1. CASE ~OfField(p[i])
    BY <1>4, <2>1 DEF OfField
  <2>2. CASE OfField(p[i])
    <3>1. PICK k \in Field : \/ i = d + 2 * k - 1 /\ p[i] = <<"bit", k>>
                             \/ i = d + 2 * k /\ p[i] = <<"value", k>>
      BY <1>5, <2>2
    <3>2. CASE i = d + 2 * k - 1 /\ p[i] = <<"bit", k>>
      <4>1. i + 1 = d + 2 * k /\ i + 1 \in DOMAIN p
        BY <1>1, <1>2, <3>2
      <4>2. p[i + 1] = <<"value", k>>
        BY <1>2, <4>1
      <4>3. QED
        BY <2>2, <3>2, <4>1, <4>2
    <3>3. CASE i = d + 2 * k /\ p[i] = <<"value", k>>
      <4>1. i - 1 = d + 2 * k - 1
        BY <1>2, <3>3
      <4>2. p[i - 1] = <<"bit", k>>
        BY <1>2, <4>1
      <4>3. QED
        BY <2>2, <3>3, <4>2
    <3>4. QED
      BY <3>1, <3>2, <3>3
  <2>3. QED
    BY <2>1, <2>2
<1>7. ASSUME NEW i \in DOMAIN p, NEW j \in DOMAIN p, i < j
      PROVE  /\ p[i] # p[j]
             /\ OfField(p[i]) /\ OfField(p[j]) => p[i][2] <= p[j][2]
             /\ p[i][1] = "value" /\ OfField(p[j]) => p[i][2] < p[j][2]
  <2>1. CASE OfField(p[i]) /\ OfField(p[j])
    <3>1. PICK k \in Field : \/ i = d + 2 * k - 1 /\ p[i] = <<"bit", k>>
                             \/ i = d + 2 * k /\ p[i] = <<"value", k>>
      BY <1>5, <2>1
    <3>2. PICK m \in Field : \/ j = d + 2 * m - 1 /\ p[j] = <<"bit", m>>
                             \/ j = d + 2 * m /\ p[j] = <<"value", m>>
      BY <1>5, <2>1
    <3>3. k <= m /\ (p[i][1] = "value" => k < m)
      BY <1>2, <1>7, <3>1, <3>2
    <3>4. p[i] # p[j]
      BY <1>2, <1>7, <3>1, <3>2
    <3>5. QED
      BY <3>1, <3>2, <3>3, <3>4
  <2>2. CASE ~OfField(p[i]) /\ ~OfField(p[j])
    <3>1. (i <= d \/ i > d + 2 * N) /\ (j <= d \/ j > d + 2 * N)
      BY <1>4, <2>2
    <3>2. CASE d = 2
      <4>1. /\ i = 1 \/ i = 2 \/ i = 2 * N + 3
            /\ j = 2 \/ j = 2 * N + 3 \/ j = 2 * N + 4
        BY <1>1, <1>7, <3>1, <3>2
      <4>2. p[i] # p[j]
        BY <1>1, <1>7, <3>2, <4>1 DEF Complete
      <4>3. QED
        BY <2>2, <4>2 DEF OfField
    <3>3. CASE d = 4
      <4>1. /\ i = 1 \/ i = 2 \/ i = 3
            /\ j = 2 \/ j = 3 \/ j = 4
        BY <1>1, <1>7, <3>1, <3>3
      <4>2. d # 2
        BY <3>3
      <4>3. p[i] # p[j]
        BY <1>7, <4>1, <4>2 DEF Complete
      <4>4. QED
        BY <2>2, <4>3 DEF OfField
    <3>4. QED
      BY <3>2, <3>3
  <2>3. CASE OfField(p[i]) # OfField(p[j])
    BY <2>3 DEF OfField
  <2>4. QED
    BY <2>1, <2>2, <2>3 DEF OfField
<1>8. QED
  BY <1>6, <1>7 DEF InOrder

(* In order remains what is left of a plan, if it is not cut between the   *)
(* value of a field and its bit that was found clear.                      *)
LEMMA RestInOrder ==
  ASSUME NEW p \in Seq(Reads), NEW q \in Seq(Reads), NEW k \in {1, 2},
         InOrder(p), k <= Len(p),
         Len(q) = Len(p) - k, \A i \in DOMAIN q : q[i] = p[i + k],
         k = 2 => p[1][1] = "bit"
  PROVE  InOrder(q)
<1>1. /\ DOMAIN p = 1..Len(p) /\ DOMAIN q = 1..Len(q)
      /\ Len(p) \in Nat /\ Len(q) \in Nat
  OBVIOUS
<1>2. \A i \in DOMAIN q : i + k \in DOMAIN p /\ i \in Nat /\ i >= 1
  BY <1>1
<1>3. ASSUME NEW i \in DOMAIN q
      PROVE  /\ OfField(q[i]) => q[i][2] \in Field
             /\ ~OfField(q[i]) => q[i][2] \in Words
             /\ q[i][1] = "bit" =>
                  i + 1 \in DOMAIN q /\ q[i + 1] = <<"value", q[i][2]>>
             /\ q[i][1] = "value" => i = 1 \/ q[i - 1] = <<"bit", q[i][2]>>
  <2>1. q[i] = p[i + k] /\ i + k \in DOMAIN p
    BY <1>2
  <2>2. /\ OfField(q[i]) => q[i][2] \in Field
        /\ ~OfField(q[i]) => q[i][2] \in Words
    BY <2>1 DEF InOrder
  <2>3. ASSUME q[i][1] = "bit"
        PROVE  i + 1 \in DOMAIN q /\ q[i + 1] = <<"value", q[i][2]>>
    <3>1. (i + k) + 1 \in DOMAIN p /\ p[(i + k) + 1] = <<"value", q[i][2]>>
      BY <2>1, <2>3 DEF InOrder
    <3>2. i + 1 \in DOMAIN q /\ (i + 1) + k = (i + k) + 1
      BY <1>1, <1>2, <3>1
    <3>3. QED
      BY <3>1, <3>2
  <2>4. ASSUME q[i][1] = "value", i # 1
        PROVE  q[i - 1] = <<"bit", q[i][2]>>
    <3>1. i + k # 1
      BY <1>2
    <3>2. p[(i + k) - 1] = <<"bit", q[i][2]>>
      BY <2>1, <2>4, <3>1 DEF InOrder
    <3>3. i - 1 \in DOMAIN q /\ (i - 1) + k = (i + k) - 1
      BY <1>1, <1>2, <2>4
    <3>4. QED
      BY <3>2, <3>3
  <2>5. QED
    BY <2>2, <2>3, <2>4
<1>4. ASSUME NEW i \in DOMAIN q, NEW j \in DOMAIN q, i < j
      PROVE  /\ q[i] # q[j]
             /\ OfField(q[i]) /\ OfField(q[j]) => q[i][2] <= q[j][2]
             /\ q[i][1] = "value" /\ OfField(q[j]) => q[i][2] < q[j][2]
  <2>1. i + k < j + k
    BY <1>2, <1>4
  <2>2. QED
    BY <1>2, <2>1 DEF InOrder
<1>5. QED
  BY <1>3, <1>4 DEF InOrder

(* What is left of a plan is all of it but the reads that are skipped.     *)
LEMMA RestPlanned ==
  ASSUME NEW p \in Seq(Reads), NEW q \in Seq(Reads), NEW k \in {1, 2},
         InOrder(p), k <= Len(p),
         Len(q) = Len(p) - k, \A i \in DOMAIN q : q[i] = p[i + k]
  PROVE  \A read : Planned(q, read) <=>
           Planned(p, read) /\ read # p[1] /\ (k = 2 => read # p[2])
<1>1. /\ DOMAIN p = 1..Len(p) /\ DOMAIN q = 1..Len(q)
      /\ Len(p) \in Nat /\ Len(q) \in Nat
  OBVIOUS
<1>2. \A i, j \in DOMAIN p : i < j => p[i] # p[j]
  BY DEF InOrder
<1>3. ASSUME NEW read, Planned(q, read)
      PROVE  Planned(p, read) /\ read # p[1] /\ (k = 2 => read # p[2])
  <2>1. PICK i \in DOMAIN q : q[i] = read
    BY <1>3 DEF Planned
  <2>2. i + k \in DOMAIN p /\ p[i + k] = read /\ i + k > k
    BY <1>1, <2>1
  <2>3. 1 \in DOMAIN p /\ (k = 2 => 2 \in DOMAIN p)
    BY <1>1
  <2>4. QED
    BY <1>1, <1>2, <2>2, <2>3 DEF Planned
<1>4. ASSUME NEW read, Planned(p, read), read # p[1], k = 2 => read # p[2]
      PROVE  Planned(q, read)
  <2>1. PICK i \in DOMAIN p : p[i] = read
    BY <1>4 DEF Planned
  <2>2. i > k
    BY <1>1, <1>4, <2>1
  <2>3. i - k \in DOMAIN q /\ (i - k) + k = i
    BY <1>1, <2>2
  <2>4. QED
    BY <2>1, <2>3 DEF Planned
<1>5. QED
  BY <1>3, <1>4

(* The next read, and the two ways a plan goes on.                         *)
LEMMA NextOfPlan ==
  ASSUME ReaderTypes, InOrder(plan), plan # <<>>
  PROVE  /\ Head(plan) = plan[1] /\ plan[1] \in Reads /\ 1 \in DOMAIN plan
         /\ OfField(plan[1]) => At \in Field
         /\ ~OfField(plan[1]) => At \in Words
         /\ Tail(plan) \in Seq(Reads)
         /\ Len(Tail(plan)) = Len(plan) - 1
         /\ \A i \in DOMAIN Tail(plan) : Tail(plan)[i] = plan[i + 1]
         /\ InOrder(Tail(plan))
         /\ \A read : Planned(Tail(plan), read) <=>
                        Planned(plan, read) /\ read # plan[1]
<1>1. plan \in Seq(Reads)
  BY DEF ReaderTypes
<1>2. Len(plan) \in Nat \ {0} /\ DOMAIN plan = 1..Len(plan)
  BY <1>1, EmptySeq, LenProperties
<1>3. /\ Tail(plan) \in Seq(Reads)
      /\ Len(Tail(plan)) = Len(plan) - 1
      /\ \A i \in 1..Len(Tail(plan)) : Tail(plan)[i] = plan[i + 1]
      /\ DOMAIN Tail(plan) = 1..Len(Tail(plan))
  BY <1>1, HeadTailProperties, LenProperties
<1> DEFINE q == Tail(plan)
<1> HIDE DEF q
<1>10. /\ q \in Seq(Reads) /\ Len(q) = Len(plan) - 1 /\ 1 <= Len(plan)
       /\ \A i \in DOMAIN q : q[i] = plan[i + 1]
  BY <1>2, <1>3 DEF q
<1>4. InOrder(q)
  BY <1>1, <1>10, RestInOrder, SMTT(30)
<1>5. \A read : Planned(q, read) <=> Planned(plan, read) /\ read # plan[1]
  BY <1>1, <1>10, RestPlanned
<1>6. Head(plan) = plan[1] /\ 1 \in DOMAIN plan /\ plan[1] \in Reads
  BY <1>1, <1>2
<1>7. /\ OfField(plan[1]) => At \in Field
      /\ ~OfField(plan[1]) => At \in Words
  BY <1>6 DEF InOrder, At
<1>8. QED
  BY <1>3, <1>4, <1>5, <1>6, <1>7 DEF q

LEMMA PlanPastAClearBit ==
  ASSUME ReaderTypes, InOrder(plan), plan # <<>>, plan[1][1] = "bit"
  PROVE  /\ Tail(Tail(plan)) \in Seq(Reads)
         /\ 2 \in DOMAIN plan /\ plan[2] = <<"value", At>>
         /\ Len(Tail(Tail(plan))) = Len(plan) - 2
         /\ \A i \in DOMAIN Tail(Tail(plan)) :
              Tail(Tail(plan))[i] = plan[i + 2]
         /\ InOrder(Tail(Tail(plan)))
         /\ \A read : Planned(Tail(Tail(plan)), read) <=>
                        /\ Planned(plan, read)
                        /\ read # plan[1] /\ read # plan[2]
<1>1. /\ plan \in Seq(Reads) /\ DOMAIN plan = 1..Len(plan)
      /\ Len(plan) \in Nat
  BY LenProperties DEF ReaderTypes
<1>2. 1 \in DOMAIN plan /\ Head(plan) = plan[1]
  BY NextOfPlan
<1>3. 1 + 1 \in DOMAIN plan /\ plan[1 + 1] = <<"value", plan[1][2]>>
  BY <1>2 DEF InOrder
<1>4. 2 \in DOMAIN plan /\ plan[2] = <<"value", At>> /\ Len(plan) >= 2
  BY <1>1, <1>2, <1>3 DEF At
<1> DEFINE q == Tail(plan)
<1>5. /\ q \in Seq(Reads) /\ Len(q) = Len(plan) - 1
      /\ \A i \in DOMAIN q : q[i] = plan[i + 1]
  BY NextOfPlan
<1> HIDE DEF q
<1>6. q # <<>>
  BY <1>1, <1>4, <1>5
<1>7. /\ Tail(q) \in Seq(Reads)
      /\ Len(Tail(q)) = Len(q) - 1
      /\ \A i \in 1..Len(Tail(q)) : Tail(q)[i] = q[i + 1]
      /\ DOMAIN Tail(q) = 1..Len(Tail(q)) /\ DOMAIN q = 1..Len(q)
  BY <1>5, <1>6, HeadTailProperties, LenProperties
<1>8. /\ Len(Tail(q)) = Len(plan) - 2
      /\ \A i \in DOMAIN Tail(q) : Tail(q)[i] = plan[i + 2]
  <2>1. ASSUME NEW i \in DOMAIN Tail(q)
        PROVE  Tail(q)[i] = plan[i + 2]
    <3>1. i + 1 \in DOMAIN q /\ (i + 1) + 1 = i + 2
      BY <1>1, <1>5, <1>7
    <3>2. Tail(q)[i] = q[i + 1] /\ q[i + 1] = plan[(i + 1) + 1]
      BY <1>5, <1>7, <3>1
    <3>3. QED
      BY <3>1, <3>2
  <2>2. Len(Tail(q)) = Len(plan) - 2
    <3>1. Len(Tail(q)) = Len(q) - 1 /\ Len(q) = Len(plan) - 1
      BY <1>5, <1>7
    <3>2. Len(plan) \in Nat
      BY <1>1
    <3>3. QED
      BY <3>1, <3>2
  <2>3. QED
    BY <2>1, <2>2
<1>9. InOrder(Tail(q))
  BY <1>1, <1>4, <1>7, <1>8, RestInOrder, ZenonT(30)
<1>10. \A read : Planned(Tail(q), read) <=>
                   Planned(plan, read) /\ read # plan[1] /\ read # plan[2]
  BY <1>1, <1>4, <1>7, <1>8, RestPlanned, ZenonT(30)
<1>11. QED
  BY <1>4, <1>7, <1>8, <1>9, <1>10 DEF q

-----------------------------------------------------------------------------
(* The reader's steps.                                                     *)

LEMMA BeginMessageKeeps ==
  ASSUME IInv, BeginMessage
  PROVE  IInv'
<1> USE DEF IInv
<1>1. /\ sending' = TRUE /\ string' = <<>> /\ bytes' = {} /\ length' = {}
      /\ clean' = (copying = "idle")
      /\ base' = (IF copying = "idle" THEN block ELSE block - 1)
      /\ UNCHANGED rtVars
  BY DEF BeginMessage
<1>2. PICK d \in {2, 4} : Complete(plan', d)
  BY PlansAreComplete DEF BeginMessage
<1>3. block' = block /\ copying' = copying /\ block \in 0..MaxBlocks
      /\ (copying # "idle" => block > 0)
  BY <1>1, Layout DEF rtVars, WriterInv, WriterTypes, Copied
<1>4. WriterInv'
  BY <1>1, ReaderWritesNothing
<1>5. ReaderTypes'
  BY <1>1, <1>2, <1>3, Layout DEF ReaderTypes, Complete
<1>6. InOrder(plan)'
  BY <1>2, CompleteInOrder DEF InOrder, OfField
<1>7. Ascending' /\ RegularFields'
  BY <1>1 DEF Ascending, RegularFields
<1>8. Overlap'
  <2>1. base' <= block' /\ (copying' # "idle" => base' < block')
    BY <1>1, <1>3, Layout
  <2>2. QED
    BY <1>1, <1>3, <2>1 DEF Overlap
<1>9. \A k \in Field, w \in Words :
        /\ Planned(plan', <<"value", k>>)
        /\ Planned(plan', <<"bytes", w>>)
        /\ Planned(plan', <<"length", w>>)
  <2>1. DOMAIN plan' = 1..(2 * N + 4) /\ N \in Nat
    BY <1>2, CompletePlan, Layout
  <2>2. ASSUME NEW k \in Field
        PROVE  Planned(plan', <<"value", k>>)
    <3>1. k \in 1..N /\ plan'[d + 2 * k] = <<"value", k>>
      BY <1>2, CompletePlan DEF Field
    <3>2. d + 2 * k \in DOMAIN plan'
      BY <2>1, <3>1
    <3>3. QED
      BY <3>1, <3>2 DEF Planned
  <2>3. /\ {1, 2, 3, 4, 2 * N + 3, 2 * N + 4} \subseteq DOMAIN plan'
    BY <2>1
  <2>4. ASSUME NEW w \in Words
        PROVE  Planned(plan', <<"bytes", w>>) /\ Planned(plan', <<"length", w>>)
    <3>1. w = 0 \/ w = 1
      BY Layout
    <3>2. CASE d = 2
      BY <1>2, <2>3, <3>1, <3>2 DEF Complete, Planned
    <3>3. CASE d # 2
      BY <1>2, <2>3, <3>1, <3>3 DEF Complete, Planned
    <3>4. QED
      BY <3>2, <3>3
  <2>5. QED
    BY <2>2, <2>4
<1>10. plan'[1][1] # "value"
  BY <1>2 DEF Complete
<1>11. CleanSoFar'
  <2>1. DOMAIN string' = {} /\ Len(string') = 0 /\ \A f \in Field : f > 0
    BY <1>1 DEF Field
  <2>2. N \in Nat
    BY Layout
  <2>3. \A f \in Field : Word[f] \in Words
    BY Layout
  <2>4. QED
    BY <1>1, <1>9, <1>10, <2>1, <2>2, <2>3 DEF CleanSoFar, Planned
<1>12. QED
  BY <1>4, <1>5, <1>6, <1>7, <1>8, <1>11

(* What the steps along a plan have in common.                             *)
LEMMA ReadKeeps ==
  ASSUME IInv, plan # <<>>, UNCHANGED <<rtVars, sending, clean, base>>,
         \/ plan' = Tail(plan)
         \/ plan[1][1] = "bit" /\ plan' = Tail(Tail(plan))
  PROVE  /\ WriterInv' /\ InOrder(plan)' /\ Overlap'
         /\ plan' \in Seq(Reads) /\ Len(plan') <= 2 * N + 4
         /\ \A i \in DOMAIN plan' : \E j \in DOMAIN plan :
              j > 1 /\ plan'[i] = plan[j]
         /\ (plan' # <<>> /\ plan'[1][1] = "value" => plan[1][1] = "bit")
<1> USE DEF IInv
<1>1. /\ plan \in Seq(Reads) /\ Len(plan) \in Nat
      /\ DOMAIN plan = 1..Len(plan) /\ Len(plan) <= 2 * N + 4 /\ N \in Nat
  BY LenProperties, Layout DEF ReaderTypes
<1>2. WriterInv'
  BY ReaderWritesNothing
<1>3. sending /\ Overlap'
  BY DEF Overlap, rtVars
<1>4. CASE plan' = Tail(plan)
  <2>1. /\ plan' \in Seq(Reads) /\ Len(plan') = Len(plan) - 1
        /\ \A i \in DOMAIN plan' : plan'[i] = plan[i + 1]
        /\ InOrder(plan')
    BY <1>4, NextOfPlan
  <2>2. DOMAIN plan' = 1..Len(plan')
    BY <2>1, LenProperties
  <2>3. ASSUME NEW i \in DOMAIN plan'
        PROVE  i + 1 \in DOMAIN plan /\ i + 1 > 1
    <3>1. i \in 1..(Len(plan) - 1)
      BY <2>1, <2>2
    <3>2. QED
      BY <1>1, <3>1
  <2>4. plan' # <<>> /\ plan'[1][1] = "value" => plan[1][1] = "bit"
    <3> SUFFICES ASSUME plan' # <<>>, plan'[1][1] = "value"
                 PROVE  plan[1][1] = "bit"
      OBVIOUS
    <3>1. 1 \in DOMAIN plan'
      BY <2>1, <2>2, EmptySeq
    <3>2. plan[2][1] = "value" /\ 2 \in DOMAIN plan
      BY <2>1, <2>3, <3>1
    <3>3. plan[2 - 1] = <<"bit", plan[2][2]>>
      BY <3>2 DEF InOrder
    <3>4. QED
      BY <3>3
  <2>5. InOrder(plan)'
    BY <2>1 DEF InOrder, OfField
  <2>6. QED
    BY <1>1, <1>2, <1>3, <2>1, <2>3, <2>4, <2>5
<1>5. CASE plan[1][1] = "bit" /\ plan' = Tail(Tail(plan))
  <2>1. /\ plan' \in Seq(Reads) /\ Len(plan') = Len(plan) - 2
        /\ \A i \in DOMAIN plan' : plan'[i] = plan[i + 2]
        /\ InOrder(plan')
    BY <1>5, PlanPastAClearBit
  <2>2. DOMAIN plan' = 1..Len(plan')
    BY <2>1, LenProperties
  <2>3. ASSUME NEW i \in DOMAIN plan'
        PROVE  i + 2 \in DOMAIN plan /\ i + 2 > 1
    <3>1. i \in 1..(Len(plan) - 2)
      BY <2>1, <2>2
    <3>2. QED
      BY <1>1, <3>1
  <2>4. InOrder(plan)'
    BY <2>1 DEF InOrder, OfField
  <2>5. \A i \in DOMAIN plan' : \E j \in DOMAIN plan :
          j > 1 /\ plan'[i] = plan[j]
    BY <2>1, <2>3
  <2>6. Len(plan') <= 2 * N + 4
    BY <1>1, <2>1
  <2>7. QED
    BY <1>2, <1>3, <1>5, <2>1, <2>4, <2>5, <2>6
<1>6. QED
  BY <1>4, <1>5

LEMMA ReadBytesKeeps ==
  ASSUME IInv, ReadBytes
  PROVE  IInv'
<1> USE DEF IInv
<1>1. /\ plan # <<>> /\ Head(plan)[1] = "bytes" /\ plan' = Tail(plan)
      /\ bytes' = bytes \cup has[At]
      /\ UNCHANGED <<rtVars, sending, string, length, clean, base>>
  BY DEF ReadBytes, NextRead
<1>2. /\ WriterInv' /\ InOrder(plan)' /\ Overlap' /\ sending
      /\ plan' \in Seq(Reads) /\ Len(plan') <= 2 * N + 4
      /\ \A i \in DOMAIN plan' : \E j \in DOMAIN plan : plan'[i] = plan[j]
      /\ (plan' # <<>> /\ plan'[1][1] = "value" => plan[1][1] = "bit")
  BY <1>1, ReadKeeps DEF Overlap
<1>3. /\ At \in Words /\ plan[1] = <<"bytes", At>> /\ ~OfField(plan[1])
      /\ \A read : Planned(plan', read) <=>
                     Planned(plan, read) /\ read # <<"bytes", At>>
  <2>1. plan[1][1] = "bytes" /\ plan[1] \in Reads /\ plan[1][2] = At
    BY <1>1, NextOfPlan DEF At
  <2>2. plan[1] = <<"bytes", At>>
    BY <2>1 DEF Reads
  <2>3. ~OfField(plan[1])
    BY <2>2 DEF OfField
  <2>4. QED
    BY <1>1, <2>2, <2>3, NextOfPlan
<1>4. ReaderTypes'
  BY <1>1, <1>2, <1>3 DEF ReaderTypes, rtVars, WriterInv, WriterTypes
<1>5. Ascending'
  BY <1>1, <1>2 DEF Ascending, OfField
<1>6. RegularFields'
  BY <1>1 DEF RegularFields, rtVars
<1>7. ASSUME clean, block = 0
      PROVE  bytes' = {} /\ (plan' # <<>> => plan'[1][1] # "value")
  <2>1. has[At] = {} /\ bytes = {}
    BY <1>2, <1>3, <1>7 DEF CleanSoFar, Overlap, WriterInv, BitsSet
  <2>2. QED
    BY <1>1, <1>2, <1>3, <2>1
<1>8. ASSUME clean, block # 0
      PROVE  \A f \in Field :
               f \in bytes' <=> ~Planned(plan', <<"bytes", Word[f]>>)
  <2>1. has[At] = Full(At)
    <3>1. copying = "idle" /\ block \in Nat
      BY <1>2, <1>8 DEF Overlap, WriterInv, WriterTypes
    <3>2. QED
      BY <1>3, <1>8, <3>1 DEF WriterInv, BitsSet
  <2>2. ASSUME NEW f \in Field
        PROVE  f \in bytes' <=> ~Planned(plan', <<"bytes", Word[f]>>)
    <3>1. f \in bytes <=> ~Planned(plan, <<"bytes", Word[f]>>)
      BY <1>2, <1>8 DEF CleanSoFar
    <3>2. f \in bytes' <=> f \in bytes \/ Word[f] = At
      BY <1>1, <2>1 DEF Full
    <3>3. QED
      BY <1>3, <3>1, <3>2
  <2>3. QED
    BY <2>2
<1>9. CleanSoFar'
  <2> SUFFICES ASSUME clean'
               PROVE  CleanSoFar'
    BY DEF CleanSoFar
  <2>1. clean /\ block' = block
    BY <1>1 DEF rtVars
  <2>2. CASE block = 0
    BY <1>1, <1>2, <1>7, <2>1, <2>2 DEF CleanSoFar
  <2>3. CASE block # 0
    <3>1. /\ \A f \in Field : Planned(plan', <<"value", f>>) <=>
                                Planned(plan, <<"value", f>>)
          /\ \A f \in Field : Planned(plan', <<"length", Word[f]>>) <=>
                                Planned(plan, <<"length", Word[f]>>)
      BY <1>3
    <3>2. /\ \A i \in DOMAIN string : string[i] = <<i, block>>
          /\ \A f \in Field : f > Len(string) <=> Planned(plan, <<"value", f>>)
          /\ Len(string) <= N
          /\ \A f \in Field :
               f \in length <=> ~Planned(plan, <<"length", Word[f]>>)
      BY <1>2, <2>1, <2>3 DEF CleanSoFar
    <3>3. QED
      BY <1>1, <1>8, <2>1, <2>3, <3>1, <3>2 DEF CleanSoFar, Planned
  <2>4. QED
    BY <2>2, <2>3
<1>10. QED
  BY <1>2, <1>4, <1>5, <1>6, <1>9

LEMMA ReadLengthKeeps ==
  ASSUME IInv, ReadLength
  PROVE  IInv'
<1> USE DEF IInv
<1>1. /\ plan # <<>> /\ Head(plan)[1] = "length" /\ plan' = Tail(plan)
      /\ length' = length \cup has[At]
      /\ UNCHANGED <<rtVars, sending, string, bytes, clean, base>>
  BY DEF ReadLength, NextRead
<1>2. /\ WriterInv' /\ InOrder(plan)' /\ Overlap' /\ sending
      /\ plan' \in Seq(Reads) /\ Len(plan') <= 2 * N + 4
      /\ \A i \in DOMAIN plan' : \E j \in DOMAIN plan : plan'[i] = plan[j]
      /\ (plan' # <<>> /\ plan'[1][1] = "value" => plan[1][1] = "bit")
  BY <1>1, ReadKeeps DEF Overlap
<1>3. /\ At \in Words /\ plan[1] = <<"length", At>> /\ ~OfField(plan[1])
      /\ \A read : Planned(plan', read) <=>
                     Planned(plan, read) /\ read # <<"length", At>>
  <2>1. plan[1][1] = "length" /\ plan[1] \in Reads /\ plan[1][2] = At
    BY <1>1, NextOfPlan DEF At
  <2>2. plan[1] = <<"length", At>>
    BY <2>1 DEF Reads
  <2>3. ~OfField(plan[1])
    BY <2>2 DEF OfField
  <2>4. QED
    BY <1>1, <2>2, <2>3, NextOfPlan
<1>4. ReaderTypes'
  BY <1>1, <1>2, <1>3 DEF ReaderTypes, rtVars, WriterInv, WriterTypes
<1>5. Ascending'
  BY <1>1, <1>2 DEF Ascending, OfField
<1>6. RegularFields'
  BY <1>1 DEF RegularFields, rtVars
<1>7. ASSUME clean, block = 0
      PROVE  length' = {} /\ (plan' # <<>> => plan'[1][1] # "value")
  <2>1. has[At] = {} /\ length = {}
    BY <1>2, <1>3, <1>7 DEF CleanSoFar, Overlap, WriterInv, BitsSet
  <2>2. QED
    BY <1>1, <1>2, <1>3, <2>1
<1>8. ASSUME clean, block # 0
      PROVE  \A f \in Field :
               f \in length' <=> ~Planned(plan', <<"length", Word[f]>>)
  <2>1. has[At] = Full(At)
    <3>1. copying = "idle" /\ block \in Nat
      BY <1>2, <1>8 DEF Overlap, WriterInv, WriterTypes
    <3>2. QED
      BY <1>3, <1>8, <3>1 DEF WriterInv, BitsSet
  <2>2. ASSUME NEW f \in Field
        PROVE  f \in length' <=> ~Planned(plan', <<"length", Word[f]>>)
    <3>1. f \in length <=> ~Planned(plan, <<"length", Word[f]>>)
      BY <1>2, <1>8 DEF CleanSoFar
    <3>2. f \in length' <=> f \in length \/ Word[f] = At
      BY <1>1, <2>1 DEF Full
    <3>3. QED
      BY <1>3, <3>1, <3>2
  <2>3. QED
    BY <2>2
<1>9. CleanSoFar'
  <2> SUFFICES ASSUME clean'
               PROVE  CleanSoFar'
    BY DEF CleanSoFar
  <2>1. clean /\ block' = block
    BY <1>1 DEF rtVars
  <2>2. CASE block = 0
    BY <1>1, <1>2, <1>7, <2>1, <2>2 DEF CleanSoFar
  <2>3. CASE block # 0
    <3>1. /\ \A f \in Field : Planned(plan', <<"value", f>>) <=>
                                Planned(plan, <<"value", f>>)
          /\ \A f \in Field : Planned(plan', <<"bytes", Word[f]>>) <=>
                                Planned(plan, <<"bytes", Word[f]>>)
      BY <1>3
    <3>2. /\ \A i \in DOMAIN string : string[i] = <<i, block>>
          /\ \A f \in Field : f > Len(string) <=> Planned(plan, <<"value", f>>)
          /\ Len(string) <= N
          /\ \A f \in Field :
               f \in bytes <=> ~Planned(plan, <<"bytes", Word[f]>>)
      BY <1>2, <2>1, <2>3 DEF CleanSoFar
    <3>3. QED
      BY <1>1, <1>8, <2>1, <2>3, <3>1, <3>2 DEF CleanSoFar, Planned
  <2>4. QED
    BY <2>2, <2>3
<1>10. QED
  BY <1>2, <1>4, <1>5, <1>6, <1>9

LEMMA ReadBitKeeps ==
  ASSUME IInv, ReadBit
  PROVE  IInv'
<1> USE DEF IInv
<1>1. /\ plan # <<>> /\ Head(plan)[1] = "bit"
      /\ plan' = IF At \in has[Word[At]] THEN Tail(plan) ELSE Tail(Tail(plan))
      /\ UNCHANGED <<rtVars, sending, string, bytes, length, clean, base>>
  BY DEF ReadBit, NextRead
<1>2. At \in Field /\ plan[1] = <<"bit", At>>
  <2>1. plan[1][1] = "bit" /\ plan[1] \in Reads /\ plan[1][2] = At
    BY <1>1, NextOfPlan DEF At
  <2>2. plan[1] = <<"bit", At>>
    BY <2>1 DEF Reads
  <2>3. QED
    BY <1>1, <2>2, NextOfPlan DEF OfField
<1>3. /\ WriterInv' /\ InOrder(plan)' /\ Overlap' /\ sending
      /\ plan' \in Seq(Reads) /\ Len(plan') <= 2 * N + 4
      /\ \A i \in DOMAIN plan' : \E j \in DOMAIN plan : plan'[i] = plan[j]
  <2>1. plan[1][1] = "bit" /\ (plan' = Tail(plan) \/ plan' = Tail(Tail(plan)))
    BY <1>1, <1>2
  <2>2. UNCHANGED <<rtVars, sending, clean, base>>
    BY <1>1
  <2>3. sending
    BY <1>1 DEF Overlap
  <2>4. QED
    BY <1>1, <2>1, <2>2, <2>3, ReadKeeps
<1>4. ReaderTypes'
  BY <1>1, <1>3 DEF ReaderTypes, rtVars
<1>5. Ascending'
  BY <1>1, <1>3 DEF Ascending, OfField
<1>6. RegularFields'
  BY <1>1 DEF RegularFields, rtVars
<1>7. ASSUME clean, block = 0
      PROVE  plan' # <<>> => plan'[1][1] # "value"
  <2>1. has[Word[At]] = {}
    BY <1>2, <1>3, <1>7, Layout DEF Overlap, WriterInv, BitsSet
  <2>2. plan' = Tail(Tail(plan))
    BY <1>1, <2>1
  <2>3. SUFFICES ASSUME plan' # <<>>, plan'[1][1] = "value"
                 PROVE  FALSE
    OBVIOUS
  <2>4. 1 \in DOMAIN plan'
    BY <1>3, <2>3, EmptySeq, LenProperties
  <2>5. /\ plan'[1] = plan[3] /\ plan[2] = <<"value", At>>
        /\ Len(plan') = Len(plan) - 2
    BY <1>1, <1>2, <2>2, <2>4, PlanPastAClearBit
  <2>6. 3 \in DOMAIN plan
    <3>1. /\ DOMAIN plan = 1..Len(plan) /\ Len(plan) \in Nat
          /\ DOMAIN plan' = 1..Len(plan')
      BY <1>3, LenProperties DEF ReaderTypes
    <3>2. QED
      BY <2>4, <2>5, <3>1
  <2>7. plan[3 - 1] = <<"bit", plan[3][2]>>
    <3>1. plan[3][1] = "value" /\ 3 # 1
      BY <2>3, <2>5
    <3>2. QED
      BY <2>6, <3>1 DEF InOrder
  <2>8. QED
    BY <2>5, <2>7
<1>8. ASSUME clean, block # 0
      PROVE  \A read : read[1] # "bit" =>
               (Planned(plan', read) <=> Planned(plan, read))
  <2>1. copying = "idle" /\ block \in Nat
    BY <1>3, <1>8 DEF Overlap, WriterInv, WriterTypes
  <2>2. has[Word[At]] = Full(Word[At])
    BY <1>2, <1>8, <2>1, Layout DEF WriterInv, BitsSet
  <2>3. plan' = Tail(plan)
    BY <1>1, <1>2, <2>2 DEF Full
  <2>4. QED
    BY <1>1, <1>2, <2>3, NextOfPlan
<1>9. CleanSoFar'
  <2> SUFFICES ASSUME clean'
               PROVE  CleanSoFar'
    BY DEF CleanSoFar
  <2>1. clean /\ block' = block
    BY <1>1 DEF rtVars
  <2>2. CASE block = 0
    BY <1>1, <1>3, <1>7, <2>1, <2>2 DEF CleanSoFar
  <2>3. CASE block # 0
    <3>1. \A f \in Field :
            /\ Planned(plan', <<"value", f>>) <=> Planned(plan, <<"value", f>>)
            /\ Planned(plan', <<"bytes", Word[f]>>) <=>
                 Planned(plan, <<"bytes", Word[f]>>)
            /\ Planned(plan', <<"length", Word[f]>>) <=>
                 Planned(plan, <<"length", Word[f]>>)
      BY <1>8, <2>1, <2>3
    <3>2. QED
      BY <1>1, <1>3, <2>1, <2>3, <3>1 DEF CleanSoFar, Planned
  <2>4. QED
    BY <2>2, <2>3
<1>10. QED
  BY <1>3, <1>4, <1>5, <1>6, <1>9

LEMMA ReadValueKeeps ==
  ASSUME IInv, ReadValue
  PROVE  IInv'
<1> USE DEF IInv
<1>1. /\ plan # <<>> /\ Head(plan)[1] = "value" /\ plan' = Tail(plan)
      /\ string' = Append(string, <<At, value[At]>>)
      /\ UNCHANGED <<rtVars, sending, bytes, length, clean, base>>
  BY DEF ReadValue, NextRead
<1>2. /\ At \in Field /\ plan[1] = <<"value", At>> /\ 1 \in DOMAIN plan
      /\ \A read : Planned(plan', read) <=>
                     Planned(plan, read) /\ read # <<"value", At>>
  <2>1. plan[1][1] = "value" /\ plan[1] \in Reads /\ plan[1][2] = At
    BY <1>1, NextOfPlan DEF At
  <2>2. plan[1] = <<"value", At>>
    BY <2>1 DEF Reads
  <2>3. QED
    BY <1>1, <2>2, NextOfPlan DEF OfField
<1>3. /\ WriterInv' /\ InOrder(plan)' /\ Overlap' /\ sending
      /\ plan' \in Seq(Reads) /\ Len(plan') <= 2 * N + 4
      /\ \A i \in DOMAIN plan' : \E j \in DOMAIN plan :
           j > 1 /\ plan'[i] = plan[j]
      /\ (plan' # <<>> => plan'[1][1] # "value")
  BY <1>1, <1>2, ReadKeeps DEF Overlap
<1>4. /\ <<At, value[At]>> \in Field \X (0..MaxBlocks)
      /\ string \in Seq(Field \X (0..MaxBlocks))
  BY <1>2 DEF WriterInv, WriterTypes, ReaderTypes
<1>5. /\ string' \in Seq(Field \X (0..MaxBlocks))
      /\ Len(string) \in Nat /\ Len(string') = Len(string) + 1
      /\ DOMAIN string = 1..Len(string) /\ DOMAIN string' = 1..Len(string')
      /\ \A i \in 1..Len(string) : string'[i] = string[i]
      /\ string'[Len(string) + 1] = <<At, value[At]>>
  BY <1>1, <1>4, AppendProperties, LenProperties
<1>6. \A i \in DOMAIN string' : i \in DOMAIN string \/ i = Len(string) + 1
  BY <1>5
<1>7. ReaderTypes'
  BY <1>1, <1>3, <1>5 DEF ReaderTypes, rtVars
<1>8. Ascending'
  <2>1. \A j \in DOMAIN string : string[j][1] < At
    BY <1>2 DEF Ascending, OfField
  <2>2. ASSUME NEW i \in DOMAIN string', NEW j \in DOMAIN string', i < j
        PROVE  string'[i][1] < string'[j][1]
    <3>1. CASE j \in DOMAIN string
      <4>1. i \in DOMAIN string
        BY <1>5, <2>2, <3>1
      <4>2. QED
        BY <1>5, <2>2, <3>1, <4>1 DEF Ascending
    <3>2. CASE j = Len(string) + 1
      <4>1. i \in DOMAIN string
        BY <1>5, <2>2, <3>2
      <4>2. QED
        BY <1>5, <2>1, <3>2, <4>1
    <3>3. QED
      BY <1>6, <3>1, <3>2
  <2>3. ASSUME NEW i \in DOMAIN plan', NEW j \in DOMAIN string',
               OfField(plan'[i])
        PROVE  string'[j][1] < plan'[i][2]
    <3>1. PICK k \in DOMAIN plan : k > 1 /\ plan'[i] = plan[k]
      BY <1>3
    <3>2. OfField(plan[k])
      BY <2>3, <3>1 DEF OfField
    <3>3. At < plan[k][2]
      BY <1>2, <3>1, <3>2 DEF InOrder
    <3>4. CASE j \in DOMAIN string
      BY <1>5, <3>1, <3>2, <3>4 DEF Ascending
    <3>5. CASE j = Len(string) + 1
      BY <1>5, <3>1, <3>3, <3>5
    <3>6. QED
      BY <1>6, <3>4, <3>5
  <2>4. QED
    BY <2>2, <2>3 DEF Ascending, OfField
<1>9. value[At] \in Nat /\ block \in Nat /\ base \in Nat
  BY <1>2, Layout DEF WriterInv, WriterTypes, ReaderTypes
<1>10. \/ value[At] \in base..block /\ value[At] > 0
       \/ value[At] = 0 /\ ~clean
  <2>1. CASE copying = "idle"
    <3>1. value[At] = block /\ base <= block
      BY <1>2, <2>1 DEF WriterInv, Copied, Overlap
    <3>2. block = 0 => ~clean
      BY <1>1, <1>2, <1>3 DEF CleanSoFar
    <3>3. QED
      BY <1>9, <3>1, <3>2
  <2>2. CASE copying # "idle"
    <3>1. base < block /\ ~clean /\ value[At] \in {0, block - 1, block}
      BY <1>2, <1>3, <2>2 DEF WriterInv, Copied, Overlap
    <3>2. QED
      BY <1>9, <3>1
  <2>3. QED
    BY <2>1, <2>2
<1>11. RegularFields'
  <2>1. \A i \in DOMAIN string' :
          \/ string'[i][2] \in base..block /\ string'[i][2] > 0
          \/ string'[i][2] = 0 /\ ~clean
    BY <1>5, <1>6, <1>10 DEF RegularFields
  <2>2. base' = base /\ block' = block /\ clean' = clean
    BY <1>1 DEF rtVars
  <2>3. QED
    BY <2>1, <2>2 DEF RegularFields
<1>12. ASSUME clean
       PROVE  block # 0 /\ value[At] = block
  BY <1>1, <1>2, <1>3, <1>12 DEF CleanSoFar, Overlap, WriterInv, Copied
<1>13. ASSUME clean
       PROVE  At = Len(string) + 1
  <2>1. /\ \A f \in Field : f > Len(string) <=> Planned(plan, <<"value", f>>)
        /\ Len(string) <= N
    BY <1>3, <1>12, <1>13 DEF CleanSoFar
  <2>2. At > Len(string)
    BY <1>2, <2>1 DEF Planned
  <2>3. At \in 1..N /\ N \in Nat
    BY <1>2, Layout DEF Field
  <2>4. SUFFICES ASSUME At # Len(string) + 1
                 PROVE  FALSE
    OBVIOUS
  <2>5. Len(string) + 1 \in Field /\ Len(string) + 1 < At
    BY <1>5, <2>2, <2>3, <2>4 DEF Field
  <2>6. PICK i \in DOMAIN plan : plan[i] = <<"value", Len(string) + 1>>
    BY <1>5, <2>1, <2>5 DEF Planned
  <2>7. i # 1 /\ OfField(plan[i]) /\ i > 1
    <3>1. i # 1 /\ OfField(plan[i])
      BY <1>2, <2>5, <2>6 DEF OfField
    <3>2. DOMAIN plan = 1..Len(plan)
      BY LenProperties DEF ReaderTypes
    <3>3. QED
      BY <3>1, <3>2
  <2>8. At < plan[i][2]
    BY <1>2, <2>7 DEF InOrder
  <2>9. QED
    BY <1>5, <2>3, <2>5, <2>6, <2>8
<1>14. CleanSoFar'
  <2> SUFFICES ASSUME clean'
               PROVE  CleanSoFar'
    BY DEF CleanSoFar
  <2>1. clean /\ block' = block /\ block # 0 /\ value[At] = block
        /\ At = Len(string) + 1
    BY <1>1, <1>12, <1>13 DEF rtVars
  <2>2. /\ \A i \in DOMAIN string : string[i] = <<i, block>>
        /\ \A f \in Field : f > Len(string) <=> Planned(plan, <<"value", f>>)
        /\ \A f \in Field : f \in bytes <=> ~Planned(plan, <<"bytes", Word[f]>>)
        /\ \A f \in Field :
             f \in length <=> ~Planned(plan, <<"length", Word[f]>>)
    BY <1>3, <2>1 DEF CleanSoFar
  <2>3. \A i \in DOMAIN string' : string'[i] = <<i, block>>
    BY <1>5, <1>6, <2>1, <2>2
  <2>4. \A f \in Field : f > Len(string') <=> Planned(plan', <<"value", f>>)
    <3>1. ASSUME NEW f \in Field
          PROVE  f > Len(string') <=> Planned(plan', <<"value", f>>)
      <4>1. f \in Nat
        BY DEF Field
      <4>2. Planned(plan', <<"value", f>>) <=>
              Planned(plan, <<"value", f>>) /\ f # At
        BY <1>2
      <4>3. f > Len(string) <=> Planned(plan, <<"value", f>>)
        BY <2>2
      <4>4. f > Len(string') <=> f > Len(string) /\ f # Len(string) + 1
        BY <1>5, <4>1
      <4>5. QED
        BY <2>1, <4>2, <4>3, <4>4
    <3>2. QED
      BY <3>1
  <2>5. Len(string') <= N
    BY <1>2, <1>5, <2>1, Layout DEF Field
  <2>6. /\ \A f \in Field : f \in bytes' <=> ~Planned(plan', <<"bytes", Word[f]>>)
        /\ \A f \in Field :
             f \in length' <=> ~Planned(plan', <<"length", Word[f]>>)
    BY <1>1, <1>2, <2>2
  <2>7. QED
    BY <1>1, <2>1, <2>3, <2>4, <2>5, <2>6 DEF CleanSoFar, Planned
<1>15. QED
  BY <1>3, <1>7, <1>8, <1>11, <1>14

LEMMA SendKeeps ==
  ASSUME IInv, Send
  PROVE  IInv'
<1> USE DEF IInv
<1>1. /\ plan = <<>> /\ sending' = FALSE
      /\ UNCHANGED <<rtVars, plan, string, bytes, length, clean, base>>
  BY DEF Send
<1>2. WriterInv'
  BY <1>1, ReaderWritesNothing
<1>3. ReaderTypes' /\ Ascending' /\ RegularFields' /\ Overlap' /\ CleanSoFar'
  BY <1>1 DEF ReaderTypes, Ascending, RegularFields, Overlap, CleanSoFar,
              OfField, rtVars
<1>4. InOrder(plan)'
  BY <1>1 DEF InOrder, OfField
<1>5. QED
  BY <1>2, <1>3, <1>4

-----------------------------------------------------------------------------
(* The invariant.                                                          *)

LEMMA RefreshKeeps ==
  ASSUME IInv, Refresh
  PROVE  IInv'
<1> USE DEF IInv
<1>1. WriterInv'
  BY BeginRefreshWrites, ClearFieldWrites, ClearBitsWrites, MergeFieldWrites,
     SetBitsWrites DEF Refresh
<1>2. /\ UNCHANGED pubVars
      /\ block <= block' /\ block \in Nat /\ block' \in Nat
      /\ \/ clean' = FALSE /\ copying = "idle" /\ block' = block + 1
         \/ clean' = clean /\ block' = block /\ copying # "idle"
  BY <1>1, Layout DEF Refresh, BeginRefresh, ClearField, ClearBits, MergeField,
                      SetBits, WriterInv, WriterTypes
<1>3. ReaderTypes' /\ Ascending'
  BY <1>2 DEF ReaderTypes, Ascending, OfField, pubVars
<1>4. InOrder(plan)'
  BY <1>2 DEF InOrder, OfField, pubVars
<1>5. base \in Nat
  BY Layout DEF ReaderTypes
<1>6. Overlap'
  BY <1>2, <1>5 DEF Overlap, pubVars
<1>7. CleanSoFar'
  BY <1>2 DEF CleanSoFar, Overlap, pubVars
<1>8. RegularFields'
  <2>1. \A i \in DOMAIN string :
          \/ string[i][2] \in base..block' /\ string[i][2] > 0
          \/ string[i][2] = 0 /\ ~clean'
    BY <1>2, <1>5 DEF RegularFields
  <2>2. QED
    BY <1>2, <2>1 DEF RegularFields, pubVars
<1>9. QED
  BY <1>1, <1>3, <1>4, <1>6, <1>7, <1>8

LEMMA StutterKeeps ==
  ASSUME IInv, UNCHANGED vars
  PROVE  IInv'
<1> USE DEF IInv, vars, pubVars
<1>1. WriterInv'
  BY ReaderWritesNothing
<1>2. InOrder(plan)'
  BY DEF InOrder, OfField
<1>3. ReaderTypes' /\ Ascending' /\ RegularFields' /\ Overlap' /\ CleanSoFar'
  BY DEF ReaderTypes, Ascending, RegularFields, Overlap, CleanSoFar, OfField,
         rtVars, Planned
<1>4. QED
  BY <1>1, <1>2, <1>3

(* At any time m_pld holds one block, or two while it is copied, group by  *)
(* group; and what the publisher still has to read follows what it has     *)
(* read, field after field.                                                *)
THEOREM IInvInvariant == Spec => []IInv
<1>1. ASSUME Init
      PROVE  IInv
  <2> USE <1>1 DEF Init
  <2>1. WriterInv
    <3>1. WriterTypes
      BY Layout DEF WriterTypes
    <3>2. Copied /\ InGroups /\ BitsSet
      BY DEF Copied, InGroups, BitsSet, Merging
    <3>3. QED
      BY <3>1, <3>2 DEF WriterInv
  <2>2. ReaderTypes
    <3>1. /\ <<>> \in Seq(Reads) /\ <<>> \in Seq(Field \X (0..MaxBlocks))
          /\ Len(<<>>) = 0
      BY EmptySeq
    <3>2. 0 <= 2 * N + 4 /\ 0 \in 0..MaxBlocks
      BY Layout
    <3>3. plan \in Seq(Reads) /\ Len(plan) = 0
          /\ string \in Seq(Field \X (0..MaxBlocks))
      BY <3>1
    <3>4. QED
      BY <3>2, <3>3 DEF ReaderTypes
  <2>3. InOrder(plan) /\ Ascending /\ Overlap /\ CleanSoFar /\ RegularFields
    BY DEF InOrder, Ascending, Overlap, CleanSoFar, RegularFields
  <2>4. QED
    BY <2>1, <2>2, <2>3 DEF IInv
<1>2. ASSUME IInv, [Next]_vars
      PROVE  IInv'
  <2>1. CASE Refresh
    BY <1>2, <2>1, RefreshKeeps
  <2>2. CASE Publish
    BY <1>2, <2>2, BeginMessageKeeps, ReadBytesKeeps, ReadLengthKeeps,
       ReadBitKeeps, ReadValueKeeps, SendKeeps DEF Publish
  <2>3. CASE UNCHANGED vars
    BY <1>2, <2>3, StutterKeeps
  <2>4. QED
    BY <1>2, <2>1, <2>2, <2>3 DEF Next
<1>3. QED
  BY <1>1, <1>2, PTL DEF Spec

-----------------------------------------------------------------------------
(* What it shows.                                                          *)

(* Every variable stays in its range, and no field is written twice into a *)
(* message, whatever the real-time thread does to m_pld meanwhile.         *)
THEOREM TypeCorrect == Spec => []TypeOK
<1>1. ASSUME IInv
      PROVE  TypeOK
  <2> USE <1>1 DEF IInv
  <2>1. \A i \in DOMAIN string : string[i] \in Field \X (0..MaxBlocks)
    BY DEF ReaderTypes
  <2>2. /\ value \in [Field -> 0..MaxBlocks]
        /\ \A w \in Words : has[w] \subseteq {f \in Field : Word[f] = w}
        /\ copying \in {"idle", "clear", "clearBits", "merge", "setBits"}
        /\ todo \subseteq Field /\ todoBits \subseteq Words
        /\ block \in 0..MaxBlocks
    BY DEF WriterInv, WriterTypes
  <2>3. QED
    BY <2>1, <2>2 DEF ReaderTypes, Ascending, TypeOK
<1>2. QED
  BY <1>1, IInvInvariant, PTL

(* A field that the publisher sends is from the block that was in m_pld    *)
(* when the message was begun, or from one processed meanwhile; or a zero  *)
(* seen during a copy.                                                     *)
THEOREM FieldsAreRegular == Spec => []RegularFields
<1>1. IInv => RegularFields
  BY DEF IInv
<1>2. QED
  BY <1>1, IInvInvariant, PTL

(* A message that no copying has overlapped with is whole when it is sent. *)
LEMMA CleanMessageIsWhole ==
  ASSUME IInv, clean, sending, plan = <<>>
  PROVE  [string |-> string, bytes |-> bytes, length |-> length] = Whole[block]
<1> USE DEF IInv
<1>1. block \in 0..MaxBlocks /\ N \in Nat
  BY Layout DEF WriterInv, WriterTypes
<1>2. \A read : ~Planned(plan, read)
  BY DEF Planned
<1>3. CASE block = 0
  BY <1>1, <1>3 DEF CleanSoFar, Whole, Nothing
<1>4. CASE block # 0
  <2>1. /\ \A i \in DOMAIN string : string[i] = <<i, block>>
        /\ \A f \in Field : ~(f > Len(string))
        /\ Len(string) <= N
        /\ \A f \in Field : f \in bytes /\ f \in length
    BY <1>2, <1>4 DEF CleanSoFar
  <2>2. /\ string \in Seq(Field \X (0..MaxBlocks)) /\ Len(string) \in Nat
        /\ DOMAIN string = 1..Len(string)
        /\ string \in [1..Len(string) -> Field \X (0..MaxBlocks)]
    BY LenProperties DEF ReaderTypes
  <2>3. Len(string) = N
    <3>1. N \in Field
      BY Layout DEF Field
    <3>2. ~(N > Len(string))
      BY <2>1, <3>1
    <3>3. Len(string) <= N /\ Len(string) \in Nat
      BY <2>1, <2>2
    <3>4. QED
      BY <1>1, <3>2, <3>3
  <2>4. string = [i \in Field |-> <<i, block>>]
    BY <2>1, <2>2, <2>3 DEF Field
  <2>5. bytes = Field /\ length = Field
    BY <2>1 DEF ReaderTypes
  <2>6. QED
    BY <1>1, <1>4, <2>4, <2>5 DEF Whole
<1>5. QED
  BY <1>3, <1>4

(* The message is a safe register: each step of the two threads is one of  *)
(* its steps, or is not seen in it.                                        *)
THEOREM MessageIsSafe == Spec => SafeMessage
<1> DEFINE number == IF copying = "idle" THEN block ELSE block - 1
           shown == IF sending THEN "pending"
                    ELSE [string |-> string, bytes |-> bytes, length |-> length]
<1>1. ASSUME Init
      PROVE  Register!Init
  BY <1>1, Layout DEF Init, Register!Init, Whole, Nothing
<1>2. ASSUME IInv, IInv', [Next]_vars
      PROVE  [Register!Next]_(Register!vars)
  <2> USE <1>2 DEF IInv
  <2>1. block \in Nat /\ (copying # "idle" => block > 0)
    BY Layout DEF WriterInv, WriterTypes, Copied
  <2>2. plan # <<>> => sending
    BY DEF Overlap
  <2>3. CASE BeginRefresh
    BY <2>1, <2>3 DEF BeginRefresh, pubVars, Register!Next, Register!BeginWrite
  <2>4. CASE ClearField \/ ClearBits \/ MergeField
    <3>1. /\ copying # "idle" /\ copying' # "idle"
          /\ UNCHANGED <<block, pubVars, clean>>
      BY <2>4 DEF ClearField, ClearBits, MergeField
    <3>2. QED
      BY <3>1 DEF pubVars, Register!vars
  <2>5. CASE SetBits /\ todo = {}
    BY <2>1, <2>5 DEF SetBits, pubVars, Register!Next, Register!EndWrite
  <2>6. CASE SetBits /\ todo # {}
    BY <2>6 DEF SetBits, pubVars, Register!vars
  <2>7. CASE BeginMessage
    BY <2>7 DEF BeginMessage, rtVars, Register!Next, Register!BeginRead
  <2>8. CASE ReadBytes \/ ReadLength \/ ReadBit \/ ReadValue
    <3>1. plan # <<>> /\ UNCHANGED <<rtVars, sending, clean>>
      BY <2>8 DEF ReadBytes, ReadLength, ReadBit, ReadValue, NextRead
    <3>2. QED
      BY <2>2, <3>1 DEF rtVars, Register!vars
  <2>9. CASE Send
    <3>1. /\ sending /\ plan = <<>> /\ sending' = FALSE
          /\ UNCHANGED <<rtVars, string, bytes, length, clean>>
      BY <2>9 DEF Send
    <3>2. clean => /\ copying = "idle"
                   /\ [string |-> string, bytes |-> bytes, length |-> length]
                        = Whole[block]
      BY <3>1, CleanMessageIsWhole DEF Overlap
    <3>3. QED
      BY <3>1, <3>2 DEF rtVars, Register!Next, Register!EndRead
  <2>10. CASE UNCHANGED vars
    BY <2>10 DEF vars, rtVars, pubVars, Register!vars
  <2>11. QED
    BY <2>3, <2>4, <2>5, <2>6, <2>7, <2>8, <2>9, <2>10
       DEF Next, Refresh, Publish
<1>3. QED
  BY <1>1, <1>2, IInvInvariant, PTL DEF Spec, SafeMessage, Register!Spec

=============================================================================
