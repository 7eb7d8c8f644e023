--------------------------- MODULE ProcessorCore ---------------------------
(***************************************************************************)
(* The signal chain of ProcessorCore: how its constructor wires the        *)
(* plugins' buffers together, how process() runs the chain once per JACK   *)
(* block on the real-time thread, and how the responder thread throws the  *)
(* plugins' switches at any moment, without a lock.                        *)
(*                                                                         *)
(* A buffer is <<plugin, i>>, i its place in the plugin's m_bufs_out; the  *)
(* buffers of the JACK ports are <<Jack, 0..1>> (capture) and              *)
(* <<Jack, 2..3>> (playback).  Samples are left out: of the contents of a  *)
(* buffer the model keeps how many blocks ago the JACK input came in that  *)
(* it was computed from, the oldest if several, and which of the           *)
(* switchable effects have been applied to that input.                     *)
(*                                                                         *)
(* What the delay plugin plays is what it was fed some blocks ago: its two *)
(* lines are kept here block by block.  How they are laid out in memory is *)
(* the matter of DelayedStream, how a change of the delay and a block in   *)
(* play keep off each other that of DelayLock: here each is one step.      *)
(***************************************************************************)
EXTENDS Integers, Sequences, FiniteSets, SequencesExt

CONSTANTS
  NBands,     \* bands of the crossover and of the compressor: six
  MaxAge,     \* bound: blocks this old, or never computed, are not told apart
  MaxDelay,   \* bound: the longest delay, in blocks
  MaxThrown,  \* bound: different switches thrown while one block is current
  Folds,      \* the builds: those that fold `m_enabled = false; if(m_enabled)', or not
  MaxUninited \* bound: plugins not inited; process() exits at the first of them

ASSUME CoreAssumption ==
  /\ NBands \in Nat \ {0}
  /\ MaxAge \in Nat \ {0}
  /\ MaxDelay \in Nat
  /\ MaxThrown \in Nat
  /\ Folds \subseteq BOOLEAN
  /\ MaxUninited \in Nat

Band == 0..(NBands - 1)

(* Only the two rows of meters exist once per band.                        *)
Jack          == <<"JACK", 0>>
MeterMainIn   == <<"METER_MAIN_IN", 0>>
GainInput     == <<"GAIN_INPUT", 0>>
MeterPostGain == <<"METER_POST_INPUT", 0>>
Hpf           == <<"30Hz_HPF", 0>>
PhaseRotator  == <<"PHASE_ROTATOR", 0>>
AgcFront      == <<"AGC_FRONT", 0>>
StereoEnhance == <<"STEREO_ENHANCE", 0>>
BassEnhancer  == <<"BASS_ENHANCER", 0>>
PrecompEq     == <<"PRECOMP_EQ", 0>>
Crossover     == <<"CROSSOVER", 0>>
CompLim       == <<"COMPRESSOR_LIMITER", 0>>
Delay         == <<"DELAY", 0>>
MeterMainOut  == <<"METER_MAIN_OUT", 0>>
MeterPre(b)   == <<"METER_POST_CROSSOVER", b>>
MeterPost(b)  == <<"METER_POST_COMPLIM", b>>

Meter == {MeterMainIn, MeterPostGain, MeterMainOut}
           \cup {MeterPre(b) : b \in Band} \cup {MeterPost(b) : b \in Band}

Plugin == Meter \cup {GainInput, Hpf, PhaseRotator, AgcFront, StereoEnhance,
                      BassEnhancer, PrecompEq, Crossover, CompLim, Delay}

(* Plugins with a switch a command can throw.                              *)
Switch == {PhaseRotator, StereoEnhance, BassEnhancer, CompLim}

Bypass == <<"MASTER_BYPASS", 0>>

(* do_init() ends without a return statement: what init() stores in        *)
(* m_has_been_inited is undefined.                                         *)
NoReturn == {PhaseRotator, StereoEnhance, BassEnhancer, PrecompEq}

-----------------------------------------------------------------------------
(* Wiring.                                                                 *)

(* The output buffers do_init() adds to the two that init() has made.      *)
MeterAux     == 4            \* linear and log levels
AgcAux       == 4
CrossoverAux == 2 * NBands   \* the bands
CompLimAux   == 3 * NBands   \* the bands, then their compression

(* The size of m_bufs_out.                                                 *)
NumOut(p) ==
  CASE p \in Meter    -> 2 + MeterAux
    [] p = AgcFront   -> 2 + AgcAux
    [] p = Crossover  -> 2 + CrossoverAux
    [] p = CompLim    -> 2 + CompLimAux
    [] p = Jack       -> 4
    [] OTHER          -> 2

Buffer == UNION {{<<p, i>> : i \in 0..(NumOut(p) - 1)} : p \in Plugin \cup {Jack}}

GetOutput(p) == [i \in 1..NumOut(p) |-> <<p, i - 1>>]

AllAuxOutputBufs(p) == SubSeq(GetOutput(p), 3, NumOut(p))

(* Slip: the aux buffers are counted from the start of m_bufs_out.         *)
AuxOutputBufs_FromZero(p, start, count) ==
  SubSeq(GetOutput(p), 1 + start, start + count)

AuxOutputBufs(p, start, count) ==
  SubSeq(GetOutput(p), 3 + start, 2 + start + count)

(* Before it is wired a plugin has two inputs that refer to nothing.       *)
NullBuf == <<<<"NULL", 0>>, 0>>

Unwired == <<NullBuf, NullBuf>>

(* Slip: the inputs init() made are not cleared.                           *)
SetInput_Keep(src) == Unwired \o <<src[1], src[2]>>

(* What set_input(), set_aux_input_bufs() and append_aux_input_bufs() make *)
(* of a plugin's m_bufs_in.                                                *)
SetInput(src) == <<src[1], src[2]>>

SetAuxInputBufs(in, src) == SubSeq(in, 1, 2) \o src

AppendAuxInputBufs(in, src) == in \o src

(* set_input() with the first two outputs of another plugin.               *)
InputOf ==
  [p \in {GainInput, MeterPostGain, Hpf, PhaseRotator, AgcFront, StereoEnhance,
          BassEnhancer, PrecompEq, Crossover, CompLim, Delay, MeterMainOut} |->
    CASE p = GainInput     -> MeterMainIn
      [] p = MeterPostGain -> GainInput
      [] p = Hpf           -> MeterPostGain
      [] p = PhaseRotator  -> Hpf
      [] p = AgcFront      -> PhaseRotator
      [] p = StereoEnhance -> AgcFront
      [] p = BassEnhancer  -> StereoEnhance
      [] p = PrecompEq     -> BassEnhancer
      [] p = Crossover     -> PrecompEq
      [] p = CompLim       -> Crossover
      [] p = Delay         -> CompLim
      [] p = MeterMainOut  -> Delay]

MainWiring ==
  [p \in Plugin |->
    CASE p \in DOMAIN InputOf -> SetInput(GetOutput(InputOf[p]))
      [] p[1] = "METER_POST_CROSSOVER" ->
           SetInput(AuxOutputBufs(Crossover, 2 * p[2], 2))
      [] p[1] = "METER_POST_COMPLIM" ->
           SetInput(AuxOutputBufs(CompLim, 2 * p[2], 2))
      [] OTHER -> Unwired]

(* The log level of one channel of a band, and of all the bands, in the    *)
(* order they are appended.                                                *)
LogLevel(b, s) == AuxOutputBufs(MeterPre(b), 2, 2)[1 + s]

BandLevels ==
  [k \in 1..(2 * NBands) |-> LogLevel((k - 1) \div 2, (k - 1) % 2)]

Wiring ==
  [MainWiring EXCEPT
     ![AgcFront] = SetAuxInputBufs(@, AllAuxOutputBufs(MeterPostGain)),
     ![CompLim]  = AppendAuxInputBufs(
                     AppendAuxInputBufs(
                       SetAuxInputBufs(@, AllAuxOutputBufs(Crossover)),
                       BandLevels),
                     AuxOutputBufs(AgcFront, 2, 2))]

-----------------------------------------------------------------------------
VARIABLES
  bufsIn,    \* m_bufs_in of each plugin
  content,   \* of each buffer: age and effects
  bypass,    \* m_master_bypass
  enabled,   \* m_enabled of the plugins with a switch
  inited,    \* m_has_been_inited, where do_init() does not determine it
  folded,    \* the compiler has folded the bass enhancer's test
  stage,     \* the place in Chain that process() has come to, or Idle
  tested,    \* the bass enhancer has cleared m_enabled, not tested it yet
  pld,       \* m_pld: of each level, the age of the block it was taken from
  delay,     \* samp_delay in half blocks: an odd one is any part of a block
  line,      \* delay_buf_l, delay_buf_r: what was fed to each i calls ago
  filled,    \* history: calls that have fed the line in a row, without a
             \* change of the delay or a call that bypassed it in between
  touched,   \* history: the switches thrown since process() was last called
  process    \* the operating system process

vars == <<bufsIn, content, bypass, enabled, inited, folded, stage, tested, pld,
          delay, line, filled, touched, process>>

build == <<inited, folded>>   \* what the compiler made of undefined behaviour
delayLine == <<delay, line, filled>>

(* m_bufs_in->at(i) of p.                                                  *)
In(p, i) == bufsIn[p][i + 1]

Bands(meter(_)) == [k \in 1..NBands |-> meter(k - 1)]

(* Slip: the meter of the last band after the compressor is left out.      *)
Chain_LastBand ==
  <<GainInput, MeterPostGain, Hpf, PhaseRotator, AgcFront, StereoEnhance,
    BassEnhancer, PrecompEq, Crossover>>
  \o Bands(MeterPre) \o <<CompLim>> \o Front(Bands(MeterPost)) \o <<Delay>>

(* The plugins process() runs when it does not bypass them, in order.      *)
Chain ==
  <<GainInput, MeterPostGain, Hpf, PhaseRotator, AgcFront, StereoEnhance,
    BassEnhancer, PrecompEq, Crossover>>
  \o Bands(MeterPre) \o <<CompLim>> \o Bands(MeterPost) \o <<Delay>>

(* Stages outside the chain: between two calls of process(), at its test   *)
(* of m_master_bypass, and at the main output meter.                       *)
Idle   == 0
Fork   == -1
Output == Len(Chain) + 1

(* Where finalize_buffer_init() finds the audio and the level pair of a    *)
(* compressor band; the AGC adjustment behind them is never read.          *)
BandIn(b, side) == In(CompLim, 2 + 2 * b + side)
BandLevel(b)    == {In(CompLim, 2 + 2 * NBands + 2 * b + side) : side \in 0..1}

(* Compressor::process() of one band: audio out, and compression out.      *)
BandSources(b, side) == {BandIn(b, side)} \cup BandLevel(b)

(* The buffers that output buffer i is computed from.                      *)
CompLimSources(i) ==
  CASE i \in 0..1             -> UNION {BandSources(b, i) : b \in Band}
    [] i \in 2..(2 * NBands + 1) -> BandSources((i - 2) \div 2, i % 2)
    [] OTHER                  -> BandLevel(i - 2 - 2 * NBands)

AgcSources(i) == {In(AgcFront, i), In(AgcFront, 4), In(AgcFront, 5)}

StereoSources == {In(StereoEnhance, 0), In(StereoEnhance, 1)}

(* The others keep the channels apart: even buffers left, odd ones right.  *)
Sources(p, i) ==
  CASE p = AgcFront                    -> AgcSources(i)
    [] p = StereoEnhance /\ enabled[p] -> StereoSources
    [] p = CompLim /\ enabled[p]       -> CompLimSources(i)
    [] OTHER                           -> {In(p, i % 2)}

(* The places in m_bufs_out that p writes.  The AGC never writes its aux   *)
(* buffers; a disabled compressor only its main ones.                      *)
Writes(p) ==
  IF p = AgcFront \/ (p = CompLim /\ ~enabled[p]) THEN 0..1
  ELSE 0..(NumOut(p) - 1)

(* The bass enhancer only ever copies.                                     *)
Audible == Switch \ {BassEnhancer}

(* Slip: the phase rotator does not look at its switch.                    *)
Effect_Always(p) ==
  IF p \in {GainInput, PhaseRotator} \/ (p \in Audible /\ enabled[p])
  THEN {p} ELSE {}

(* What p adds to the effects on the block.  The input gain stands for all *)
(* that is not switchable.                                                 *)
Effect(p) == IF p = GainInput \/ (p \in Audible /\ enabled[p]) THEN {p} ELSE {}

(* The contents computed by p from the buffers bs.                         *)
Computed(p, bs, c) ==
  [age |-> CHOOSE a \in {c[b].age : b \in bs} : \A b \in bs : c[b].age <= a,
   fx  |-> (UNION {c[b].fx : b \in bs}) \cup Effect(p)]

(* The phase rotator filters in place: its input buffers change too.       *)
Scratch(p) ==
  IF p = PhaseRotator /\ enabled[p] THEN {In(p, 0), In(p, 1)} ELSE {}

(* do_process() of p, on buffers with contents c.                          *)
Run(p, c) ==
  [b \in Buffer |->
     IF b[1] = p /\ b[2] \in Writes(p) THEN Computed(p, Sources(p, b[2]), c)
     ELSE IF b \in Scratch(p) THEN Computed(p, {b}, c)
     ELSE c[b]]

-----------------------------------------------------------------------------
(* The delay.                                                              *)

(* The calls, from 0 to Reach(h), whose input a line of h half blocks can  *)
(* hold: delay_buf_size is the delay and one block more.                   *)
Reach(h) == (h + 1) \div 2

Never == [age |-> MaxAge, fx |-> {}]

(* init() leaves zeros in the whole line.                                  *)
Silence(h) == [s \in 0..1 |-> [i \in 0..Reach(h) |-> Never]]

(* The line of a channel once a call has fed it.                           *)
Fed(s) == [i \in 0..Reach(delay) |->
             IF i = 0 THEN content[In(Delay, s)] ELSE line[s][i - 1]]

(* Slip: the delay is rounded down to whole blocks.                        *)
Taps_Down == {delay \div 2}

(* What is played is what was fed this many calls ago: two parts, unless   *)
(* the delay is of whole blocks.                                           *)
Taps == {delay \div 2, Reach(delay)}

(* do_process() of the delay, which no command switches off.               *)
RunDelay ==
  [b \in Buffer |-> IF b[1] = Delay THEN Computed(Delay, Taps, Fed(b[2]))
                    ELSE content[b]]

-----------------------------------------------------------------------------
(* The levels in the live data, each by the buffer it is measured with.    *)
LevelsIn   == {<<MeterMainIn, 4>>}
LevelsOut  == {<<MeterMainOut, 4>>}
LevelsAgc  == {<<AgcFront, 0>>}
LevelsPre  == {<<MeterPre(b), 4>> : b \in Band}
LevelsComp == {<<CompLim, 2 + 2 * NBands + b>> : b \in Band}
LevelsPost == {<<MeterPost(b), 4>> : b \in Band}

LiveLevel == LevelsIn \cup LevelsOut \cup LevelsAgc
               \cup LevelsPre \cup LevelsComp \cup LevelsPost

Init ==
  /\ bufsIn = Wiring
  /\ content = [b \in Buffer |-> Never]
  /\ bypass = FALSE
  /\ enabled = [p \in Switch |-> TRUE]
  /\ inited \in [NoReturn -> BOOLEAN]
  /\ Cardinality({p \in NoReturn : ~inited[p]}) <= MaxUninited
  /\ folded \in Folds
  /\ stage = Idle
  /\ tested = FALSE
  /\ pld = [l \in LiveLevel |-> MaxAge]
  /\ delay = 0
  /\ line = Silence(0)
  /\ filled = 0
  /\ touched = {}
  /\ process = "running"

Older(c) ==
  [age |-> IF c.age < MaxAge THEN c.age + 1 ELSE MaxAge, fx |-> {}]

(* A block comes in: everything that was computed before is a block older. *)
BlockArrives ==
  [b \in Buffer |-> IF b \in {<<Jack, 0>>, <<Jack, 1>>}
                    THEN [age |-> 0, fx |-> {}] ELSE Older(content[b])]

RefreshInputs(p, src) ==
  bufsIn' = [bufsIn EXCEPT ![p] = <<src[1], src[2]>> \o SubSeq(@, 3, Len(@))]

(* process() up to its test of m_master_bypass.                            *)
Begin ==
  /\ stage = Idle
  /\ stage' = Fork
  /\ RefreshInputs(MeterMainIn, GetOutput(Jack))
  /\ content' = [b \in Buffer |->
       CASE b[1] = MeterMainIn -> [age |-> 0, fx |-> {}]
         [] OTHER              -> BlockArrives[b]]
  /\ line' = [s \in 0..1 |-> [i \in 0..Reach(delay) |-> Older(line[s][i])]]
  /\ touched' = {}
  /\ UNCHANGED <<bypass, enabled, build, tested, pld, delay, filled, process>>

(* Slip: in bypass the main output meter keeps its input.                  *)
BypassChain_NoRefresh ==
  /\ stage = Fork
  /\ bypass
  /\ stage' = Output
  /\ filled' = 0
  /\ UNCHANGED <<bufsIn, content, bypass, enabled, build, tested, pld, delay,
                 line, touched, process>>

(* The delay is not called: its line keeps what it held.                   *)
BypassChain ==
  /\ stage = Fork
  /\ bypass
  /\ stage' = Output
  /\ RefreshInputs(MeterMainOut, GetOutput(Jack))
  /\ filled' = 0
  /\ UNCHANGED <<content, bypass, enabled, build, tested, pld, delay, line,
                 touched, process>>

EnterChain ==
  /\ stage = Fork
  /\ ~bypass
  /\ stage' = 1
  /\ UNCHANGED <<bufsIn, content, bypass, enabled, build, tested, pld,
                 delayLine, touched, process>>

(* The plugin whose turn it is.                                            *)
Turn(p) == stage \in DOMAIN Chain /\ Chain[stage] = p

(* process() of the next plugin.                                           *)
RunPlugin ==
  \E p \in Plugin \ {BassEnhancer, Delay} :
    /\ Turn(p)
    /\ p \in NoReturn => inited[p]
    /\ content' = Run(p, content)
    /\ stage' = stage + 1
    /\ UNCHANGED <<bufsIn, bypass, enabled, build, tested, pld, delayLine,
                   touched, process>>

(* ProcessorPlugin::process() exits if the plugin has not been inited.     *)
ExitUninited ==
  \E p \in NoReturn :
    /\ Turn(p)
    /\ ~inited[p]
    /\ process' = "exited"
    /\ UNCHANGED <<bufsIn, content, bypass, enabled, build, stage, tested, pld,
                   delayLine, touched>>

(* Slip: the bass enhancer is not disabled first.                          *)
DisableBass_Not ==
  /\ Turn(BassEnhancer) /\ inited[BassEnhancer] /\ ~tested
  /\ tested' = TRUE
  /\ UNCHANGED <<bufsIn, content, bypass, enabled, build, stage, pld,
                 delayLine, touched, process>>

(* The bass enhancer first clears its own m_enabled ...                    *)
DisableBass ==
  /\ Turn(BassEnhancer) /\ inited[BassEnhancer] /\ ~tested
  /\ enabled' = [enabled EXCEPT ![BassEnhancer] = FALSE]
  /\ tested' = TRUE
  /\ UNCHANGED <<bufsIn, content, bypass, build, stage, pld, delayLine, touched,
                 process>>

(* ... then tests it, and only copies its input if it is still clear; the  *)
(* enabled branch fills scratch buffers and leaves the output as it was.   *)
RunBass ==
  /\ Turn(BassEnhancer) /\ tested
  /\ content' = IF enabled[BassEnhancer] /\ ~folded
                THEN content ELSE Run(BassEnhancer, content)
  /\ tested' = FALSE
  /\ stage' = stage + 1
  /\ UNCHANGED <<bufsIn, bypass, enabled, build, pld, delayLine, touched,
                 process>>

(* The delay; then the main output meter is pointed at it again.           *)
LeaveChain ==
  /\ Turn(Delay)
  /\ content' = RunDelay
  /\ line' = [s \in 0..1 |-> Fed(s)]
  /\ filled' = IF filled <= MaxDelay THEN filled + 1 ELSE filled
  /\ RefreshInputs(MeterMainOut, GetOutput(Delay))
  /\ stage' = Output
  /\ UNCHANGED <<bypass, enabled, build, tested, pld, delay, touched, process>>

(* The output meter, the copy to the playback buffers and the live data.   *)
Finish ==
  /\ stage = Output
  /\ LET c == Run(MeterMainOut, content) IN
       /\ content' = [c EXCEPT ![<<Jack, 2>>] = c[<<MeterMainOut, 0>>],
                               ![<<Jack, 3>>] = c[<<MeterMainOut, 1>>]]
       /\ pld' = [l \in LiveLevel |-> c[l].age]
  /\ stage' = Idle
  /\ UNCHANGED <<bufsIn, bypass, enabled, build, tested, delayLine, touched,
                 process>>

RtStep ==
  \/ Begin \/ BypassChain \/ EnterChain \/ RunPlugin \/ ExitUninited
  \/ DisableBass \/ RunBass \/ LeaveChain \/ Finish

(* Commands, on the responder thread.                                      *)
Throw(switch) ==
  /\ touched' = touched \cup {switch}
  /\ Cardinality(touched') <= MaxThrown

SetMasterBypass(on) ==
  /\ bypass' = on
  /\ Throw(Bypass)
  /\ UNCHANGED <<bufsIn, content, enabled, build, stage, tested, pld, delayLine,
                 process>>

SetEnable(p, on) ==
  /\ enabled' = [enabled EXCEPT ![p] = on]
  /\ Throw(p)
  /\ UNCHANGED <<bufsIn, content, bypass, build, stage, tested, pld, delayLine,
                 process>>

(* A new delay, or the same again, starts from silence.                    *)
SetDelay(h) ==
  /\ delay' = h
  /\ line' = Silence(h)
  /\ filled' = 0
  /\ Throw(Delay)
  /\ UNCHANGED <<bufsIn, content, bypass, enabled, build, stage, tested, pld,
                 process>>

Command ==
  \/ \E on \in BOOLEAN :
       SetMasterBypass(on) \/ \E p \in Switch : SetEnable(p, on)
  \/ \E h \in 0..(2 * MaxDelay) : SetDelay(h)

Exited == process = "exited" /\ UNCHANGED vars

Next == (process = "running" /\ (RtStep \/ Command)) \/ Exited

Spec == Init /\ [][Next]_vars

-----------------------------------------------------------------------------
(* Properties.                                                             *)

Effects == {GainInput} \cup Audible

(* Every variable stays in its range; the compressor has the 28 inputs that *)
(* finalize_buffer_init() takes by number, the AGC its six.                *)
TypeOK ==
  /\ \A p \in Plugin :
       /\ \A i \in DOMAIN bufsIn[p] : bufsIn[p][i] \in Buffer \cup {NullBuf}
       /\ Len(bufsIn[p]) = CASE p = AgcFront -> 6
                             [] p = CompLim  -> 4 + 4 * NBands
                             [] OTHER        -> 2
  /\ content \in [Buffer -> [age : 0..MaxAge, fx : SUBSET Effects]]
  /\ bypass \in BOOLEAN
  /\ enabled \in [Switch -> BOOLEAN]
  /\ inited \in [NoReturn -> BOOLEAN]
  /\ folded \in Folds
  /\ stage \in {Idle, Fork, Output} \cup DOMAIN Chain
  /\ tested \in BOOLEAN
  /\ pld \in [LiveLevel -> 0..MaxAge]
  /\ delay \in 0..(2 * MaxDelay)
  /\ line \in [0..1 -> [0..Reach(delay) -> [age : 0..MaxAge, fx : SUBSET Effects]]]
  /\ filled \in 0..(MaxDelay + 1)
  /\ touched \subseteq Switch \cup {Bypass, Delay}
  /\ process \in {"running", "exited"}

(* The numbering of the aux buffers, "brittle and prone to failure"        *)
(* (plugin_compressor_limiter.cpp:233), comes out right: what compressor   *)
(* band b compresses is band b of the crossover, the same channel, and it  *)
(* is steered by the log level measured on the very buffer it compresses;  *)
(* the AGC is steered by the log level of the channel it adjusts.          *)
LevelsSteerTheirBand ==
  /\ \A b \in Band, s \in 0..1 :
       LET audio == In(CompLim, 2 + 2 * b + s)
           level == In(CompLim, 2 + 2 * NBands + 2 * b + s)
       IN  /\ audio = <<Crossover, 2 + 2 * b + s>>
           /\ level[1] \in Meter /\ level[2] = 4 + s
           /\ In(level[1], s) = audio
  /\ \A s \in 0..1 : In(AgcFront, 4 + s) = <<MeterPostGain, 4 + s>>

OnAir == {<<Jack, 2>>, <<Jack, 3>>}

(* process() has been called and has returned.                             *)
BlockDone == stage = Idle /\ bufsIn[MeterMainIn] # Unwired

(* The delay has no part in the block just played: it is set to nothing,   *)
(* or the chain has been bypassed, and neither has been thrown meanwhile.  *)
Undelayed ==
  (delay = 0 /\ Delay \notin touched) \/ (bypass /\ Bypass \notin touched)

(* With no delay set, or under the master bypass, what is played after     *)
(* every call of process() was computed from the block that came in with   *)
(* that call, and from nothing older: each plugin runs after all those it  *)
(* reads from, whichever of the other switches are thrown meanwhile, in a  *)
(* build that folds the bass enhancer's test.                              *)
OutputCurrent ==
  (folded /\ BlockDone /\ Undelayed) => \A b \in OnAir : content[b].age = 0

(* When the bass enhancer's test is not folded away, an older block, or    *)
(* memory that was never written, is played with no delay set only if the  *)
(* bass enhancer was thrown, on or off, during that very call of           *)
(* process(): the next one is right again.                                 *)
StaleOnlyIfBassThrown ==
  (BlockDone /\ Undelayed /\ \E b \in OnAir : content[b].age > 0) =>
    BassEnhancer \in touched

(* Blocks this old are not told apart.                                     *)
Aged(n) == IF n < MaxAge THEN n ELSE MaxAge

(* With a delay set, what is played is as old as the delay, no more and no *)
(* less, from the moment the line has been filled anew: the zeros a change *)
(* of the delay leaves, and what the line held from before a bypass, come  *)
(* out during the first Reach(delay) calls of the delay after it, and      *)
(* never later; in a build that folds the test.                            *)
OutputDelayed ==
  (/\ folded /\ BlockDone /\ ~bypass
   /\ {Bypass, Delay} \cap touched = {}
   /\ filled > Reach(delay)) =>
    \A b \in OnAir : content[b].age = Aged(Reach(delay))

(* Switches thrown in mid-block take effect as a whole or not at all: of   *)
(* those not thrown since process() was called, the block just played, if  *)
(* it is the one that came in, has been through exactly the plugins that   *)
(* are on, and through none if the master bypass is on.                    *)
OnAirMatchesSwitches ==
  BlockDone => \A b \in OnAir : content[b].age = 0 =>
    LET fx == content[b].fx IN
      /\ Bypass \notin touched => (bypass <=> fx = {})
      /\ fx # {} => \A p \in Audible \ touched :
                      p \in fx <=> enabled[p]

(* The levels published together belong together: all those taken before   *)
(* the compressor are from one block, all those taken in and after it are  *)
(* from one block, which is no newer, in a build that folds the test.      *)
LevelsConsistent ==
  folded =>
    /\ \A l, m \in LevelsAgc \cup LevelsPre : pld[l] = pld[m]
    /\ \A l, m \in LevelsComp \cup LevelsPost : pld[l] = pld[m]
    /\ \A l \in LevelsPre, m \in LevelsPost : pld[l] <= pld[m]

(* "Now populate the processor live data" (processor_core.cpp:296): the    *)
(* levels are those of the block just processed.                           *)
LiveDataIsLive == BlockDone => \A l \in LiveLevel : pld[l] = 0
=============================================================================
