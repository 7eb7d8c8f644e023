----------------------------- MODULE Crossover -----------------------------
(***************************************************************************)
(* PluginCrossover: a tree of Linkwitz-Riley filters that parts the signal *)
(* into six bands, with the all-pass filters each branch needs to be in    *)
(* phase with the others, and the sum of the bands as its main output.     *)
(* The buffers between the filters are written and read by name, each      *)
(* filter remembers the stream that runs through it, and left and right    *)
(* have their own of everything, called in turn.                           *)
(*                                                                         *)
(* Samples are left out: the content of a buffer is the transfer function  *)
(* from the crossover's input to it, a bag of products of low and high     *)
(* passes, with the block and the channels it was computed from.  The low  *)
(* and the high pass of one split add up to an all-pass, so the sum of the *)
(* bands is flat when every choice of one of them at every split occurs in *)
(* it once.                                                                *)
(***************************************************************************)
EXTENDS Integers, Sequences, FiniteSets, Bags, SequencesExt

CONSTANTS
  MaxBlock    \* bound: JACK blocks

ASSUME CrossoverAssumption == MaxBlock \in Nat \ {0}

Side == {"L", "R"}

Split == 0..4

(* The splits in the order of their frequencies: 153 Hz (s3), 430 Hz (s1), *)
(* 1.1 kHz (s4), 2.4 kHz (s0) and 5.9 kHz (s2); they bound the bands.      *)
Cut == <<3, 1, 4, 0, 2>>

(* Slip: a line copied and not changed.                                    *)
BandOut_Copied == <<"b0_out", "b1_out", "b2_out", "b3_out", "b4_out", "b4_out">>

BandOut == <<"b0_out", "b1_out", "b2_out", "b3_out", "b4_out", "b5_out">>

FilterLR4(name, split, pass, in, out) ==
  [name |-> name, split |-> split, passes |-> {pass}, in |-> in, out |-> out]

(* Slip: the high pass is not added.                                       *)
AllpassFilterLR4_Low(name, split, in, out) == FilterLR4(name, split, "lo", in, out)

(* A low and a high pass read the same input; their outputs are added.     *)
AllpassFilterLR4(name, split, in, out) ==
  [name |-> name, split |-> split, passes |-> {"lo", "hi"}, in |-> in, out |-> out]

(* Slip: the line of band 0 copied for band 1, the filter's name kept.     *)
LowBranch_Copied ==
  << FilterLR4("f0lo", 0, "lo", "in", "f0lo_out"),
     AllpassFilterLR4("fa0p2", 2, "f0lo_out", "a0p2_out"),
     FilterLR4("f1lo", 1, "lo", "a0p2_out", "f1lo_out"),
     AllpassFilterLR4("fa1p4", 4, "f1lo_out", "fa1p4_out"),
     FilterLR4("f3lo", 3, "lo", "fa1p4_out", "b0_out"),
     FilterLR4("f3lo", 3, "lo", "fa1p4_out", "b1_out"),
     FilterLR4("f1hi", 1, "hi", "a0p2_out", "f1hi_out"),
     AllpassFilterLR4("fa1q3", 3, "f1hi_out", "fa1q3_out"),
     FilterLR4("f4lo", 4, "lo", "fa1q3_out", "b2_out"),
     FilterLR4("f4hi", 4, "hi", "fa1q3_out", "b3_out") >>

(* The calls do_process() makes for one channel, in their order: below     *)
(* 2.4 kHz, and above.                                                     *)
LowBranch ==
  << FilterLR4("f0lo", 0, "lo", "in", "f0lo_out"),
     AllpassFilterLR4("fa0p2", 2, "f0lo_out", "a0p2_out"),
     FilterLR4("f1lo", 1, "lo", "a0p2_out", "f1lo_out"),
     AllpassFilterLR4("fa1p4", 4, "f1lo_out", "fa1p4_out"),
     FilterLR4("f3lo", 3, "lo", "fa1p4_out", "b0_out"),
     FilterLR4("f3hi", 3, "hi", "fa1p4_out", "b1_out"),
     FilterLR4("f1hi", 1, "hi", "a0p2_out", "f1hi_out"),
     AllpassFilterLR4("fa1q3", 3, "f1hi_out", "fa1q3_out"),
     FilterLR4("f4lo", 4, "lo", "fa1q3_out", "b2_out"),
     FilterLR4("f4hi", 4, "hi", "fa1q3_out", "b3_out") >>

(* Slip: the outputs of the last two filters are swapped.                  *)
HighBranch_Swapped ==
  << FilterLR4("f0hi", 0, "hi", "in", "f0hi_out"),
     AllpassFilterLR4("fa0q1", 1, "f0hi_out", "a0q1_out"),
     AllpassFilterLR4("fa0q3", 3, "a0q1_out", "a0q3_out"),
     AllpassFilterLR4("fa0q4", 4, "a0q3_out", "a0q4_out"),
     FilterLR4("f2lo", 2, "lo", "a0q4_out", "b5_out"),
     FilterLR4("f2hi", 2, "hi", "a0q4_out", "b4_out") >>

HighBranch ==
  << FilterLR4("f0hi", 0, "hi", "in", "f0hi_out"),
     AllpassFilterLR4("fa0q1", 1, "f0hi_out", "a0q1_out"),
     AllpassFilterLR4("fa0q3", 3, "a0q1_out", "a0q3_out"),
     AllpassFilterLR4("fa0q4", 4, "a0q3_out", "a0q4_out"),
     FilterLR4("f2lo", 2, "lo", "a0q4_out", "b4_out"),
     FilterLR4("f2hi", 2, "hi", "a0q4_out", "b5_out") >>

Chains == LowBranch \o HighBranch

(* The filters the constructor makes.  They and the buffers are a pair     *)
(* each, ...L and ...R.                                                    *)
Filter == {"f0lo", "f0hi", "f1lo", "f1hi", "f2lo", "f2hi", "f3lo", "f3hi",
           "f4lo", "f4hi", "fa0p2", "fa0q1", "fa0q3", "fa0q4", "fa1p4",
           "fa1q3"} \X Side

Buffer == ({"in", "out"} \cup {Chains[i].out : i \in DOMAIN Chains}) \X Side

(* Slip: one filter object for both channels.                              *)
Object_Shared(i, s) == <<Chains[i].name, "L">>

(* The filter the i-th pair of calls uses for a channel.                   *)
Object(i, s) == <<Chains[i].name, s>>

-----------------------------------------------------------------------------
(* Contents.  A term tells for each split which filters it went through.   *)

Straight == [k \in Split |-> <<>>]

(* A term behind one more filter, and what it was before it.               *)
After(m, split, pass) == [m EXCEPT ![split] = Append(@, pass)]

Before(m, split) == [m EXCEPT ![split] = Front(@)]

(* Each pass takes every term one filter further, no two to the same one;  *)
(* their outputs add up.                                                   *)
Filtered(terms, split, passes) ==
  [m \in {After(d, split, p) : d \in DOMAIN terms, p \in passes} |->
     terms[Before(m, split)]]

Nothing == [block |-> 0, from |-> {}, terms |-> EmptyBag, dirty |-> FALSE]

Captured(n, s) ==
  [block |-> n, from |-> {s}, terms |-> SetToBag({Straight}), dirty |-> FALSE]

-----------------------------------------------------------------------------
VARIABLES
  block,   \* the JACK block, 0 before the first
  at,      \* where the real-time thread is in do_process(): a pair of calls, a channel
  buf,     \* the content of each buffer
  memory,  \* of each filter, the content it was fed last
  calls    \* history: of each filter, its calls in the last run of do_process()

vars == <<block, at, buf, memory, calls>>

Idle     == <<0, "L">>
InTheSum == <<Len(Chains) + 1, "L">>

(* Biquad's constructor leaves w1 and w2 as the allocator gave them; at    *)
(* most one filter is taken to find garbage there.                         *)
Init ==
  /\ block = 0
  /\ at = Idle
  /\ buf = [b \in Buffer |-> Nothing]
  /\ \E born \in {{}} \cup {{f} : f \in Filter} :
       memory = [f \in Filter |-> [Nothing EXCEPT !.dirty = f \in born]]
  /\ calls = [f \in Filter |-> 0]

(* The chain has filled the input buffers and calls do_process().          *)
Begin ==
  /\ at = Idle
  /\ block < MaxBlock
  /\ block' = block + 1
  /\ at' = <<1, "L">>
  /\ buf' = [b \in Buffer |-> IF b[1] = "in" THEN Captured(block', b[2]) ELSE buf[b]]
  /\ calls' = [f \in Filter |-> 0]
  /\ UNCHANGED memory

(* Under master bypass the crossover is not called.                        *)
Bypassed ==
  /\ at = Idle
  /\ block < MaxBlock
  /\ block' = block + 1
  /\ UNCHANGED <<at, buf, memory, calls>>

(* One call of process(), the left channel's before the right one's.  A    *)
(* recursive filter that has seen a value that is not a number gives out   *)
(* nothing else from then on.                                              *)
Process(i, s) ==
  LET f     == Object(i, s)
      x     == buf[<<Chains[i].in, s>>]
      dirty == x.dirty \/ memory[f].dirty
  IN /\ at = <<i, s>>
     /\ buf' = [buf EXCEPT ![<<Chains[i].out, s>>] =
          [block |-> x.block,
           from  |-> x.from \cup memory[f].from,
           terms |-> Filtered(x.terms, Chains[i].split, Chains[i].passes),
           dirty |-> dirty]]
     /\ memory' = [memory EXCEPT ![f] = [x EXCEPT !.dirty = dirty]]
     /\ calls' = [calls EXCEPT ![f] = @ + 1]
     /\ at' = IF s = "L" THEN <<i, "R">> ELSE <<i + 1, "L">>
     /\ UNCHANGED block

Bands == DOMAIN BandOut

(* The last loop of do_process().                                          *)
Mixed(s) ==
  LET band(b) == buf[<<BandOut[b], s>>]
  IN [block |-> band(1).block,
      from  |-> UNION {band(b).from : b \in Bands},
      terms |-> band(1).terms (+) band(2).terms (+) band(3).terms
                  (+) band(4).terms (+) band(5).terms (+) band(6).terms,
      dirty |-> \E b \in Bands : band(b).dirty]

SumBands ==
  /\ at = InTheSum
  /\ at' = Idle
  /\ buf' = [b \in Buffer |-> IF b[1] = "out" THEN Mixed(b[2]) ELSE buf[b]]
  /\ UNCHANGED <<block, memory, calls>>

Next ==
  \/ Begin
  \/ Bypassed
  \/ \E i \in DOMAIN Chains, s \in Side : Process(i, s)
  \/ SumBands

Spec == Init /\ [][Next]_vars

-----------------------------------------------------------------------------
(* Properties.                                                             *)

Term == [Split -> {<<>>, <<"lo">>, <<"hi">>}]

(* Every value is of the kind its variable keeps: no filter of a split     *)
(* comes twice in a path, no path twice in a signal.                       *)
TypeOK ==
  /\ block \in 0..MaxBlock
  /\ at \in (0..(Len(Chains) + 1)) \X Side
  /\ \A c \in {buf[b] : b \in Buffer} \cup {memory[f] : f \in Filter} :
       /\ c.block \in 0..block
       /\ c.from \subseteq Side
       /\ DOMAIN c.terms \subseteq Term
       /\ \A m \in DOMAIN c.terms : c.terms[m] = 1
       /\ c.dirty \in BOOLEAN
  /\ calls \in [Filter -> Nat]

Processed == at = Idle /\ buf[<<"out", "L">>].block > 0

(* Whenever do_process() is done, the sum of the bands is the input but    *)
(* for its phase: all products of one filter per split, each once.  It     *)
(* breaks if a branch lacks another one's all-pass.                        *)
SumIsFlat ==
  Processed => \A s \in Side :
    buf[<<"out", s>>].terms = SetToBag([Split -> {<<"lo">>, <<"hi">>}])

(* Band b is what lies between two neighbouring cuts: all of it has gone   *)
(* through the high pass of the one below and the low pass of the one      *)
(* above.                                                                  *)
BandsBetweenTheirCuts ==
  Processed => \A b \in Bands, s \in Side : \A m \in DOMAIN buf[<<BandOut[b], s>>].terms :
    /\ b > 1 => m[Cut[b - 1]] = <<"hi">>
    /\ b < Len(BandOut) => m[Cut[b]] = <<"lo">>

(* All the outputs come from the same block and from their own channel,    *)
(* also when bypassed blocks have been in between.                         *)
ChannelsApart ==
  /\ \A b \in Buffer : buf[b].from \subseteq {b[2]}
  /\ Processed => \A b \in Buffer, c \in Buffer : buf[b].block = buf[c].block

(* Whenever do_process() is done, each filter the constructor made has     *)
(* been called once, none left out and none twice, and all of them stop at *)
(* the same block, the one the sum is of: in the 32 calls each name has    *)
(* been typed once.                                                        *)
CalledOnce ==
  Processed => \A f \in Filter :
    calls[f] = 1 /\ memory[f].block = buf[<<"out", "L">>].block

(* Each call of a filter goes on with the stream the filter has been fed   *)
(* before: the same signal of the same channel, with a block that is newer *)
(* than the one it has seen.  What it is fed it has not seen in this run.  *)
OneStreamPerFilter ==
  [][\A f \in Filter : calls'[f] > calls[f] /\ memory[f].block > 0 =>
       /\ memory'[f].block = block /\ memory[f].block < block
       /\ memory'[f].terms = memory[f].terms
       /\ memory'[f].from = memory[f].from]_vars

(* Garbage in the memory of a new filter is in the sum of its channel      *)
(* after every block, and never in that of the other one.                  *)
GarbageKeepsToItsChannel ==
  Processed => \A s \in Side :
    buf[<<"out", s>>].dirty = (\E f \in Filter : f[2] = s /\ memory[f].dirty)
=============================================================================
