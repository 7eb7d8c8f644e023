# FM Smoov in TLA+

FM Smoov is a broadcast audio processor: a JACK client that takes two channels
in, puts every block of 1024 frames through a chain of plugins (gain, filters,
AGC, crossover, multiband compressor, delay, meters) on JACK's real-time
thread, publishes meter levels over ZeroMQ and obeys protobuf commands that
come in over a second ZeroMQ socket.  This directory holds a model of the parts
of it in which order, interleaving and stale state matter, TLC configurations
that check the model on small instances, and proofs of the results that hold
for all of them.

Line references are to the repository: `fm_smoov.cc:98` is
`src/src/fm_smoov.cc`, headers are in `src/include`, and so on.

## 1. Inventory

| component | code | state | operations | model |
|---|---|---|---|---|
| Life cycle | `fm_smoov.cc` | `m_audioproc`, `m_cmdserver`, the processor thread, locals of `go()` | `go`, `stop`, the getchar loop | `FMSmoov` |
| ProcessorMain | `ProcessorMain.cpp` | JACK client and ports, buffer vectors, `m_core`, `m_cmd_server`, `mutex_shutdown`, `cv_shutdown`, two flags | `operator()`, `start_jack`, `stop_jack`, `stop`, `process`, the JACK callbacks, `handle_command` | `FMSmoov`; `handle_command` in `Commands` |
| CommandServer | `command_server.cpp` | publisher (PUB socket, `m_pld`), responder (REP socket, `m_processor`), a stop flag each, two threads | `start`, `stop`, both thread functions, `publish_live_data`, `send_reply` | `FMSmoov`; live data in `LiveData`, requests and replies in `Commands` |
| ProcessorCore | `processor_core.cpp` | the plugins, `m_master_bypass`, band levels, `m_pld` | constructor (wiring), `process`, the `set_*` commands | `ProcessorCore` |
| Plugin framework | `ProcessorPlugin.cpp`, `audiobuf.cpp` | `m_bufs_in`, `m_bufs_out`, `m_has_been_inited` | `init`, `set_input`, aux buffer calls, `refresh_inputs`, `process`, `change_cfg` | `ProcessorCore` |
| Plugins | `plugin_*.cpp` | filters, `m_enabled`, aux buffers | `do_init`, `finalize_buffer_init`, `do_process`, `do_change_cfg` | which buffers are read and written, in `ProcessorCore`; inside the crossover, `Crossover` |
| Delay line | `delay_line.cc`, `plugin_delay.cpp` | circular buffers, read and write pointers, the file's mutex | `init`, `process`, `change_delay` | `DelayLine`, `DelayedStream`; the mutex, `DelayLock` |
| Input gain, preferences | `plugin_gain.cpp`, `Prefs.cpp` | `m_gain_L`, `m_gain_R`, the YAML node, the file | set, save, load | `GainPrefs` |
| AGC, compressor | `plugin_agc.cpp`, `compressor.cc` | gate, averages, attack and release gains | `do_process`, `process` | buffers only, in `ProcessorCore` |
| Filters | `biquad.cc`, `filter_lr4.cc`, `sos.cpp`, `parametric_*.cpp` | delay elements | `process` | those of the crossover, in `Crossover` |
| Protocol | `proto/fmsmoov.proto` and generated code | has-bits and fields of each message | `CopyFrom`, `SerializeAsString`, `ParseFromString` | `Commands`, `Settings`, `LiveData` |
| Not built or not used | `.cproject` exclusions, `circbuf.cpp`, `generic_delay.cpp`, `ncui.cpp`, `code_recycle_pile`, `dsp_lab` | - | - | no |

How they interact:

* Five threads.  *main* builds everything, waits for keys and takes everything
  down; *processor* owns the JACK client; JACK's *real-time* thread calls
  `jack_process_callback`; *publisher* sends live data every 50 ms;
  *responder* receives one request at a time and answers it.
* main meets processor, publisher and responder at start-up through a mutex and
  condition variable on its own stack, and processor again at shut-down through
  members of `ProcessorMain`.
* `ProcessorMain::m_cmd_server` and `Responder::m_processor` are raw pointers
  that main sets after everything runs and never clears.
* responder changes plugin settings while the real-time thread is anywhere in
  `process()`.  Only the delay line has a lock.
* The real-time thread copies live data into a protobuf message that publisher
  serialises, without a lock.
* Plugins refer to each other's output buffers by pointer: `m_bufs_in` of one
  holds elements of `m_bufs_out` of another, chosen by number.

What is hard, by component, and what makes it correct:

* *Life cycle*: handshakes with predicates set outside or inside the mutex,
  notifications after it has been released, objects deleted while other threads
  hold pointers to them, a thread that blocks without a time-out.  Correct if
  nobody uses what does not exist yet or any more, start-up and shut-down
  always end, and "on the air" means that everything is wired.
* *Signal chain*: wiring by index, order of stages, switches thrown in
  mid-block, state that bypass leaves behind, in the delay's line too.  Correct if
  each block played was computed from the block that came in, or from the one the
  delay asks for, through exactly the plugins that are on, and each detector sees
  the level of the band it controls.
* *Delay line*: wrap-around with blocks that straddle the end, change of size
  while in use, a mutex unlocked twice.  Correct if it is an exact delay, and the
  real-time thread never waits for a lock that nobody will release.
* *Gain and preferences*: several variables and a file changed one after the
  other, crashes in between, restarts.  Correct if an answered setting survives.
* *Commands*: a dispatch of seventeen cases written out by hand, settings that the
  real-time thread changes too, requests that do not parse.  Correct if each
  request is answered once, in its own field, and has done to one setting what it
  says.
* *Live data*: a message copied by one thread and serialised by another.  Correct
  as far as each field is concerned; as a whole it is not.
* *Crossover*: filters and buffers called by name in a fixed order, once per
  channel.  Correct if the bands add up to the input, each lies between its cuts,
  each filter is called once in a run, and none is fed another stream.

`PROJECT.json` lists the hazards line by line, with the properties that cover
them and a note where none does yet.

## 2. Modules

```
FMSmoov        <- MCFMSmoov, FMSmoovProofs   threads, handshakes, object lifetimes
ProcessorCore  <- ProcessorCoreProofs        wiring and one block through the chain
Crossover      <- CrossoverProofs            the tree of filters inside one plugin
DelayedStream  <- DelayLine          exact delay / circular buffer that implements it
DelayLine      <- DelayLineProofs
DelayLine      <- DelayLock          the same under two threads and the mutex
DelayLock      <- MCDelayLock, DelayLockProofs
GainPrefs      <- MCGainPrefs, GainPrefsProofs
Settings       <- Commands           registers / command interface that implements them
Commands       <- MCCommands, CommandsProofs
SafeRegister   <- LiveData           safe register / shared message that implements it
LiveData       <- MCLiveData, LiveDataProofs
```

The modules are cut where the code is cut.  `FMSmoov` sees a callback only as
begin, process, publish; `ProcessorCore` is what happens within `process`;
`Crossover` is inside one of its plugins; `DelayLock` is the last stage of it,
composed with the responder's `init()`, while `ProcessorCore` has the same line in
whole and half blocks, and each call of it as one step; `LiveData` is the "publish" of `FMSmoov`'s
real-time thread against the "send" of its publisher; `Commands` is the "handle"
of its responder, composed with the one thing the real-time thread does to a
setting; `GainPrefs` is what one of these settings is made of.

### 2.1 FMSmoov

One action per stretch of code between two places where another thread can step
in.  `pc` says where each thread is; names of actions follow the calls in `go()`,
`CommandServer::start()`, `FMSmoov::stop()`, `ProcessorMain::operator()`,
`start_jack()`, `stop_jack()` and the two thread functions.

| variable | code |
|---|---|
| `owner`, `sleeping`, `checked` | `mutex_startup`/`cv_startup` in `go()`, the two pairs in `CommandServer::start()`, `mutex_shutdown`/`cv_shutdown`.  `checked`: a waiter has evaluated its predicate and not gone to sleep yet; it still holds the mutex, so whoever sets the predicate *without* the mutex can lose a notification here. |
| `flag` | `jack_started`, `publisher_started`, `responder_started`, the `m_shutdown_signalled` of each side, `m_jack_shutdown_complete` |
| `live` | objects between `new` and `delete` |
| `cmdServer`, `procPtr` | `m_cmd_server` is not null; `m_processor` has been assigned |
| `retval` | what the callback last returned to JACK |
| `pending` | requests queued at the reply socket |
| `process` | `exited` after `exit()` (a failing JACK call, an unsupported block size, a dead JACK server), `crashed` after an uncaught exception (`bind`) or a null, wild or dangling pointer |

Condition variables may wake up spuriously if `Spurious` is TRUE, any number of
times; `flag["spuriously_woken"]` remembers that one has.  Reading
through a deleted `CommandServer` may work or crash.  A dereference of an
uninitialised or null pointer crashes.  The publisher's and responder's
`mutex_shutdown` are left out: each is locked by its own thread only.  Two
things are external: JACK (`jack_activate`, callbacks one at a time, deactivate
and close wait for the one in progress) and the clients.

### 2.2 ProcessorCore

The wiring is computed the way the constructor does it: `InputOf`, `MainWiring`
and `Wiring` are the calls of `set_input`, `set_aux_input_bufs` and
`append_aux_input_bufs`, with the index arithmetic of `get_aux_output_bufs` and
the buffer counts of each `do_init`.  `BandIn` and `BandLevel` are how
`finalize_buffer_init` of the compressor takes its 28 inputs out of that list.

`process()` is one action per plugin, so that commands come in between any two
of them.  A command is one assignment to a plain boolean.  Of what a buffer
contains the model keeps its `age` (how many blocks ago the input came in that
it was computed from, the oldest if several) and `fx` (which switchable effects
it has been through).

* `Writes`, `Sources`, `Scratch`: which buffers a plugin writes, what each is
  computed from, and that the phase rotator filters in place, in its
  predecessor's buffers.  A disabled compressor writes only its main outputs.
* `DisableBass`, `RunBass`: the bass enhancer clears `m_enabled` and tests it
  again (`plugin_bass_enhancer.cpp:51,53`).  The two accesses race with the
  command that sets it.  `folded`, chosen in `Init`, is
  TRUE for a build that folds the test (Release, `-O3` in `.cproject`), FALSE for
  one that does not (Debug, `-O0`).
* `inited`: `do_init()` of four plugins ends without a `return`; whether
  `init()` then stores true is undefined, so it is chosen in `Init`, and
  `ProcessorPlugin::process` exits the program if it is false (`ExitUninited`).
* `line` is the delay's two buffers, by the number of calls ago that each entry was
  fed; `delay` is in half blocks, an odd number standing for any part of a block, so
  that what is played is a mixture of two calls' input (`Taps`).  A line that is not
  called (bypass) keeps what it holds while everything gets older; `SetDelay` leaves
  silence.  `RunDelay` is thus not the identity: with a delay set an older block goes
  on the air, and for one delay after a bypass whatever was in the line before it.
  `filled` is history only: how many calls have fed the line in a row.
* `pld` holds the age of each level when it was last put into the live data.
  The members `m_lev_*` that lie between are merged with it.

`do_process()` of several plugins also ends without a `return`; its result is
never looked at, and the model takes the call to return.

### 2.3 DelayLine and DelayedStream

`DelayedStream` is the promise: frames leave `delay` frames after they came in,
silence until then, nothing from before the last change.  `DelayLine` is the
code: buffer of `samp_delay + bufsize` frames, pointers as offsets, blocks that
straddle the end copied in two parts, `init()` with its new buffers, silence and
pointers.  The strict `>` of the wrap tests is kept: a pointer may rest at `eob`.
Frames are numbered by their position in the input, so that losing, repeating or
reordering one shows.  Each call is one action.

### 2.4 DelayLock

The same line with the two threads that call it, and the file's mutex.  A call is
`Enter` (the `unique_lock`), the action of `DelayLine`, `Unlock` (the last
statement of the function) and `Destroy` (the destructor, which does not know of
it).  What a second `unlock` does is undefined; the model takes what the library
as built does, which is to make the mutex free, whoever holds it.  `robbed` marks
the section that this has happened to, `met` that both threads were inside.  From
then on nothing can be said of the buffers, and the model stops; all that happens
before is an exact delay.

### 2.5 Commands and Settings

`Settings` is the promise: registers; each request takes effect at one moment
between being sent and being answered, once, on the register it names.
`Commands` is the code: poll, receive, parse, one action per handler of
`handle_command()` with the response it fills in, reply, and the test of the stop
flag.  The reply socket is a two-state machine (external), so that a missing or a
second reply shows.  A request that does not parse becomes whatever command was
complete before the failure, as `ParseFromString`'s result is not looked at
(`Parsed`).  The four pairs of commands for plugins with a switch have one form and
share `SetEnable` and `GetEnabled`.  `BassBlock` is the real-time thread clearing
the bass enhancer's switch, and the one exception that `Settings` has to make
(`Fade`).  What the code does and is kept: a gain command with neither a gain nor
a pair sets 0 dB and is answered OK; one for the output gain does nothing and is
answered OK; `agc_set` and `agc_get` do nothing; `delay_get` is "Unknown
command."; `internal_shutdown_cmd` says "Goodbye!" and goes on.

### 2.6 LiveData and SafeRegister

The reads and writes of the generated code, one action each: `Clear()` (fields of
a group in which any bit is set, then the has-bits word by word), `MergeFrom()`
(field by field, and `_has_bits_ |= cached_has_bits` after each group, for the
*whole word*), against `ByteSizeLong()` twice and `_InternalSerialize` once
(a bit, a value, field after field).  The two arguments of `message_t()` are
evaluated in either order.  A data race is undefined; the model takes each aligned
word to be read and written whole, in program order, with the fields of one group in
any order.  `SafeRegister` is Lamport's: a read that no write overlaps returns
what was last written, any other may return anything.

### 2.7 Crossover

Each pair of calls of `do_process()` is a filter with an input and an output
buffer, left and right in turn.  The content of a buffer is a bag of products of
low and high passes; a low and a high pass of one split add up to an all-pass, as
Linkwitz-Riley filters of fourth order do, so the sum is flat if it contains every
choice of one of them per split, once.  `Filter` is what the constructor makes,
`Chains` what `do_process()` calls, so that a filter can be left out or called
twice; `calls` is history and counts.  `memory` is what a filter was fed last;
`dirty` is something that is not a number, which a new filter may find in its
uninitialised `w1` and `w2` and never loses.

### 2.8 GainPrefs

A request sets the left gain, then the right one, then saves: the node, the
truncated file, the written file, the reply.  `Stop` (quitting, a crash, a kill)
can come between any two; `file` is all that survives.  Numbers are in
thousandths and mean decibels or factors, as in the file nothing says which:
`Lin` is `powf(10, x/20)`.  The save keeps the left channel only, and keeps the
*factor*, which the next start takes for decibels.  Request kinds: one gain, a
pair, neither (logged as an error, and then carried out as 0 dB).

## 3. What TLC checks

| run | instance | properties | shows |
|---|---|---|---|
| `fmsmoov` | `MaxPending` 2, spurious wake-ups | `TypeOK`, `CallbackOnLiveObjects`, `HeldMutexInScope`, `OnTheAirMeansWired`, `ServerOutlivesItsThreads`, `NotifiedCondvarInScope`, `StartupCompletes`, `ShutdownHandshake`, `QuitEndsIfAsked` | the order of construction, activation, joining and deletion is right under every interleaving; no notification is lost or goes to a dead condition variable; start-up ends; so does quitting if requests keep coming |
| `fmsmoov_quit_idle` | `MaxPending` 1, none | `QuitEnds` violated | finding 1 |
| `fmsmoov_publish` | same, no fairness | `PublishOnLiveServer` violated | finding 2 |
| `fmsmoov_announced` | same | `AnnouncedMeansServed` violated | finding 3 |
| `chain` | 6 bands, delays of 0, 1/2 and 1 block, 1 switch per block, both builds | `TypeOK`, `LevelsSteerTheirBand`, `LevelsConsistent`, `OutputCurrent`, `StaleOnlyIfBassThrown`, `OutputDelayed`, `OnAirMatchesSwitches` | the 28 inputs of the compressor; levels published together belong together; switches take effect as a whole or not at all; as long as no delay is set, or the chain is bypassed, the bass enhancer's race is the only source of old audio; with a delay, once the line has been filled anew, what is played is exactly as old as the delay, and what a bypass or a change left in it comes out before, and never later |
| `chain_live` | 2 bands | `LiveDataIsLive` violated | finding 4 |
| `crossover` | 3 blocks, bypassed or not | `TypeOK`, `SumIsFlat`, `BandsBetweenTheirCuts`, `ChannelsApart`, `CalledOnce`, `GarbageKeepsToItsChannel`, `OneStreamPerFilter` | the tree of filters is wired right, every filter is called once in a run and sees one stream, and garbage in one channel does not spread to the other |
| `delay_line` | blocks of 3, delays 0, 1, 2, 3, 4, 7, two threads | `TypeOK`, `HoldsDelayedFrames`, `ExactDelay`, `MeetOnlyIfRobbed`, `FreeWhenNobodyInside` | the circular buffer implements `DelayedStream`; what the second unlock can do, and that it leaves the mutex free |
| `commands` | 2 clients, 2 switches, 21 commands and a broken one | `TypeOK`, `InTurn`, `ReplyFits`, `ImplementsSettings`, `EveryRequestAnswered` | the interface implements `Settings`; one reply per request, in its field; nobody is starved |
| `live_data` | 4 fields in 3 groups and 2 words, 3 blocks | `TypeOK`, `RegularFields`, `SafeMessage` | a field sent is never older than the message; a message as a whole is only safe |
| `gain` | gains of 0 and +/-6 dB | `TypeOK`, `AnsweredIsSaved`, `ApartOnlyByPair`, `StableAcrossRestarts` | what is answered is saved, across crashes at every step; no drift |
| `gain_restart` | same | `RestartKeepsGain` violated | finding 5 |

Bounds, and why they are enough:

* `NFrames` = {512, 1024}: the block size the callback supports and one that
  makes it exit.  `MaxPending`: the responder tells "none" from "some"; 2 lets a
  request wait while another is handled.
* `Spurious` wake-ups are not limited in number.  The safety properties hold under
  them but for one case, worth knowing: `go()`'s condition variable is a local,
  and is notified after its mutex was released (`ProcessorMain.cpp:84`,
  `command_server.cpp:134,202`), so that a spurious wake-up in between lets
  `go()` or `start()` return first.  `NotifiedCondvarInScope` says so by asking
  whether there has been one.
* `NBands` is the code's six in `chain`, where the indices are at stake; the
  violation needs two.  `MaxAge` = 2 tells "this block", "the one before" and "older,
  or never", so that `OutputDelayed` can tell a delay of a block (`MaxDelay` = 1) from
  one block more; with halves the lines reach back none or one call, for a delay
  within a block and of a whole one.  `MaxThrown` limits how many *different* ones of
  the switches, the master bypass and the delay are thrown while one block is current
  (each of them any number of times): one.  What was thrown in earlier blocks is not
  limited.  That `OnAirMatchesSwitches` holds for several at a time (the master bypass
  and a plugin, say) is proved, not run.  `MaxUninited` = 1, as `process()` exits at
  the first plugin that is not inited.  The proofs have none of these bounds.
* `Crossover`: the order of calls is fixed, so three blocks show two in a row and
  two with bypassed ones in between.  At most one filter starts with garbage: a
  second one adds nothing, as the first is never lost.
* Blocks of 3 frames with delays below, at and above it, and of more than twice
  it: the remainder of buffer and block size takes every value (so that a block
  ends before, exactly at, and behind the end); `MaxFrames` 24 is eight blocks,
  more than two rounds of the largest buffer; `MaxChanges` 3 goes between any
  three delays in turn.  The proofs need none of these bounds.
* `Commands`: requests wait at most one per client, as a request socket does; two
  clients are enough for an answer to go to the wrong one.  `MCAsked` has every
  command, with arguments that tell channels, gains and switches apart; two of
  the four switches, the one that falls back and one that does not.  6 dB reads
  back as 5, to keep what was set apart from what is shown.
* `LiveData`: the layout has what the real one has: groups of several fields and of
  one, two groups that share a word of has-bits, and a second word.  Three blocks
  let a message be overtaken by two copies, and a third be under way.
* Gains 0 and +/-6 dB: the domain is closed under `Lin`, so that restarts in any
  number are covered; the numbers are rounded to thousandths.

Fairness.  In `FMSmoov`, `ThreadFairness` is weak fairness of each thread's next
step: the operating system runs runnable threads, and `usleep` returns.  Nothing
is assumed of the user, of JACK's clock or of clients.  `QuitEndsIfAsked` has as
its hypothesis that there is a request again and again.  The three liveness
properties have another one, `SpuriousWakeupsEnd`: at some time there is no
further spurious wake-up.  Without it a waiter can take its mutex over and over,
and weak fairness of the other thread does not help against that.  `Commands` has
weak fairness of the responder and strong fairness of receiving from each client: a
ZeroMQ reply socket takes requests from its peers in turn (fair queuing), so a client
that has one waiting whenever the socket receives is not passed over for ever.
`EveryRequestAnswered` excepts a program that is being stopped, as finding 1 does
not.  The other modules have no fairness: nothing in them is obliged to happen.

Deadlock is checked everywhere but in three runs: in `delay_line` and `crossover` the
stream ends at a bound, in `delay_line` also where the threads have met;
`commands` may stop because the responder is done and every client waits.  In the
others an ended process stutters explicitly, or there is always a message to send.

## 4. What is proved

With tlapm, for every value of the constants under the named assumptions.

`DelayLineProofs` (`DelayLineAssumption`: a positive block size, delays are
naturals; any number of frames and changes).

* `TypeCorrect`: no pointer leaves its buffer.
* `BufferInvariant`: `PointerGap` and `HoldsDelayedFrames` always hold.
* `Refinement`: `DelayLine` implements `DelayedStream` (`ExactDelay`).

The invariant is `TypeOK /\ PointerGap /\ HoldsDelayedFrames`.  `TypeOK` alone is
inductive.  The contents need `PointerGap`, as it is what keeps a written block
off the frames still to be read: with a write pointer anywhere else
`HoldsDelayedFrames` would not survive a step.  The step lemma for `Process`
follows each slot of the next read window either into the block just written or
into the part of the buffer left alone; the refinement needs only that the block
read is the first of that window.

`GainPrefsProofs` (`GainAssumption`: `Lin` maps numbers to numbers, 0 is one).

* `TypeCorrect`; `GainIsSaved` (`AnsweredIsSaved`); `PairsOnly`
  (`ApartOnlyByPair`); `NoDrift` (`StableAcrossRestarts`).

None of the three is inductive.  The invariant adds `Progress` (at each step of a
request, how much of it the gains, the node and the file already show),
`Balance` (the channels agree, as long as the request that is under way has not
come to the right one) and `StartedFromFile` (an untouched gain is the one the
file gives).  Nothing is assumed of `Lin`: these hold for any conversion, the
finding about decibels notwithstanding.

`DelayLockProofs` (`DelayLineAssumption`; any number of calls).

* `RobbedFirst` (`MeetOnlyIfRobbed`); `NeverLeftLocked` (`FreeWhenNobodyInside`);
  `LockedRefinement`: the line under its lock implements `DelayedStream`;
  `LockedLineKept`: it keeps `TypeOK`, `PointerGap` and `HoldsDelayedFrames`.

The invariant adds `HolderOrRobbed`: who is in the section has the mutex, unless
it has been robbed, or the other is between its first and its second unlock.  The
exception is what makes it inductive: the first unlock of the other can only have
come after a robbery the other way round or before this thread came in, and the
second one leaves its mark.  The refinement is by composition: every step of
`LockSpec` is a step of `DelayLine` or a stutter, and `Refinement` does the rest
(`BufferInvariant` for the invariants).

`CommandsProofs` (`CommandsAssumption`, `AskedAssumption`; any clients, switches,
gains, delays and set of commands).

* `TypeCorrect`; `OneReplyPerRequest` (`InTurn`); `RepliesFit` (`ReplyFits`).
* `InterfaceIsRegisters`: `Commands` implements `Settings` (`ImplementsSettings`).

The invariant adds `Serving`: while a request is handled or answered there is
exactly one peer, its request still stands, and the command in hand is one its
message may be taken for.  Without it neither the reply nor the step of the
abstract specification could be charged to a client.  `HandlerPerforms` has one
case per handler, and shows that it is the operation `Settings` allows; receiving
and being stopped are stutters, the bass enhancer's block is a `Fade`.

`FMSmoovProofs` (`ConstantsAssumption`; any block sizes, any queue of requests,
spurious wake-ups or not).

* `TypeCorrect`; `CallbackFindsItsObjects` (`CallbackOnLiveObjects`);
  `HeldMutexExists` (`HeldMutexInScope`); `NotifiedCondvarExists`
  (`NotifiedCondvarInScope`); `OnTheAirIsWired` (`OnTheAirMeansWired`);
  `ServerDeletedLast` (`ServerOutlivesItsThreads`).
* `NothingLost`: no handshake loses a notification (`NoLostNotification`).

The invariant is `TypeOK /\ Order`.  main goes through its places once, in a fixed
order; the sets `BeforeJack`, `BeforeServer`, ... say which are still to come before
a given call, and the parts of `Order` say where the others can be meanwhile.
`Lifetimes`: a thread exists from its creation to its join.  `Handshakes`: what a
raised flag tells the waiting side.  `Holders`: who can have which mutex, and where.
`Objects`: which objects exist, and whether the callback can run.  `Undisturbed`:
without spurious wake-ups main sleeps from the time it gives a mutex away until it is
notified.  None of the six properties is inductive: to know that the callback finds
a core takes that the processor thread is in its serving section, that main has not
got past the shut-down handshake, and so the flags.  `Undisturbed` is needed for
`NotifiedCondvarExists` only.  The proof goes thread by thread (`MainKeeps`,
`ProcessorKeeps`, ...), one step per action.  `NothingLost` has an invariant of its
own, `Waiting`: a waiter that has looked at its predicate still has the mutex, and
the flag is still down.

`LiveDataProofs` (`LayoutAssumption`: groups and words of has-bits in the order of
the fields, two words as in the generated message; any number of fields, groups and
blocks).

* `TypeCorrect`; `FieldsAreRegular` (`RegularFields`).
* `MessageIsSafe`: `LiveData` implements `SafeRegister` (`SafeMessage`).

The invariant has two halves.  `WriterInv` is the message that is copied: each field
is of the block under way or the one before, merged group by group, and the bits of
what has been merged are set but for the last group's.  The other half is the
message that is written: `InOrder` (the reads still to come are in the order of the
fields, and the value right after its bit), `Ascending` (what has been written comes
before them) and `CleanSoFar` (a message that no copy has overlapped with holds what
the reads done so far have found).  The last one is what the refinement needs: at
`Send`, with nothing left to read, it makes a clean message the whole of one block.
The lemmas about plans (`PlansAreComplete` to `PlanPastAClearBit`) say what is
in the list of reads and what is left of it after a step.

`ProcessorCoreProofs` (`CoreAssumption`; any number of bands, either build).

* `TypeCorrect`; `LevelsSteer` (`LevelsSteerTheirBand`).
* `OutputIsCurrent` (`OutputCurrent`); `StaleOnlyIfThrown` (`StaleOnlyIfBassThrown`);
  `OutputIsDelayed` (`OutputDelayed`); `SwitchesMatch` (`OnAirMatchesSwitches`); `LevelsBelongTogether`
  (`LevelsConsistent`).

`LevelsSteer` is index arithmetic: `WiringLemma` says which output each input of
each plugin is, for every number of bands, following the `append_aux_input_bufs`
calls through the concatenated lists.  The rest is from one inductive invariant that
says, stage by stage, what is in the buffers.  `FlowSound`: the outputs of every
plugin that has run, the delay excepted, are of this block, or old where the bass enhancer's race allows
it, with exactly the effects that are on and have been passed (`Correct`), those
switched during the block excepted.  `LineInv`: until the line is fed all it holds is
older than this block, and as far back as it has been fed in a row each entry is as
old as its place, or, between the arrival of a block and its feeding, one more
(`Late`).  `DelaySound`: so what the delay plays is current with the effects that are
on if nothing is set, is never taken for current if something is, and is as old as
the delay if the line is full; `Plays` is the lemma.  `BassInv`: between its two steps the bass
enhancer is off, or has been touched.  `BlockIn`: the block is in the capture
buffers, and the master bypass is as it was, or touched.  `LevelsTogether`: the
compressor writes all its bands or none.  `Types` fixes the wiring, which only two
meters change.  The phase rotator works in its predecessor's buffers, so the high
pass filter's outputs are claimed only up to that stage (`Ran`).  `RunStep` proves
the step of one plugin from where in the chain its sources are (`SourcesLemma`,
`TurnLemma`): each stands before it.

`CrossoverProofs` (any number of blocks, bypassed or not).

* `TypeCorrect` (`TypeOK`); `SumFlat` (`SumIsFlat`); `BandsInPlace`
  (`BandsBetweenTheirCuts`); `ChannelsKeptApart` (`ChannelsApart`);
  `GarbageStaysInChannel` (`GarbageKeepsToItsChannel`).
* `EachCalledOnce` (`CalledOnce`); `OneStream`, an action property
  (`OneStreamPerFilter`), from the same invariant.

`ChainsLemma` and `OwnLemma` are about the list of calls: each has a filter and an
output buffer of its own, and reads the input or the output of an earlier one
(`Feed`).  `SignalLemma` says what each makes of what it reads: `Through` lists, for
each call, the filters its output has gone through at each split, and a filter at a
split where its input has been through none changes just that entry
(`FilteredLemma`).  The bands have no term in common and are all of them together
(`BandsAddUp`).  With that the invariant follows the calls: `Stamps` (what has been called
for this block is at this block, the rest at the last one that was not bypassed),
`Origins` (every buffer and memory is from its own channel), `Signals` (what has been
reached carries the signal of its place in the tree, in the first block as in any
other: without it the second one could bring a filter another stream), `Counts` (a
filter has been called in this run if its place has been come to) and `Garbage`
(it goes on from each filter to its readers; as each feeds another or makes a band,
all of it has come out by the time of the sum, `GarbageComesOut`).

What stays with TLC, and why:

* Liveness (`StartupCompletes`, `ShutdownHandshake`, `QuitEndsIfAsked`,
  `EveryRequestAnswered`): fairness and ENABLED are out of the prover's reach.
  `NothingLost` is the safety part of the first two.
* The runs that show a violation.

The theorems hold for every value of the constants, the bounds on counters
(`MaxBlocks`, `MaxAge`, `MaxDelay`, `MaxThrown`, `MaxUninited`, `MaxBlock`,
`MaxPending`) among them; these are arbitrary, so none of the results depends on
where they are.

## 5. Findings

1. *Quitting can hang* (`QuitEnds`).  `Responder::stop()` sets a flag that the
   responder reads only when `poll()`, which has no time-out, returns; main
   joins it.  Without another request the program never ends.
2. *Live data through a deleted server* (`PublishOnLiveServer`).  `stop()`
   deletes the command server first and stops JACK last.
3. *Served before wired* (`AnnouncedMeansServed`).  The "started" message goes
   out, and requests are taken, before `m_processor` and `m_cmd_server` are set.
4. *Live data that is not live* (`LiveDataIsLive`).  In bypass, and behind a
   disabled compressor, levels of earlier blocks, or uninitialised ones, go out.
5. *The saved gain is not the gain* (`RestartKeepsGain`).  The factor is saved,
   decibels are loaded: 0 dB comes back as +1 dB, +6 dB as +2 dB, -6 dB as
   +0.5 dB.  (It does not drift any further: that is `StableAcrossRestarts`.)

Plain to see and left at that: from `jack_activate` until `go()` sets
`m_cmd_server` every callback returns -2 to JACK; each change of the delay leaks
the old buffers (`delay_line.cc:53`); `~ProcessorMain` leaks the core;
`CompLimSetResponse.success` is left false; the second unlock of the delay's mutex
and the shared live data are undefined behaviour, whatever the runs say about the
outcomes they take into account.

## 6. Not modelled

* Signal processing as such: filter coefficients, gain curves, averages are
  floating-point arithmetic.  What matters to the rest, which buffers are read
  and written and when, is in `ProcessorCore`, and for the crossover in `Crossover`.
* `delay_line.cc:58`, milliseconds to samples (9 ms give 431 samples), which is a
  matter of rounding doubles, and the 32 bit sum behind it, which takes a delay of
  a day.
* A change of the delay that overlaps a block in the chain: in `ProcessorCore` each is
  one step, and what the second unlock of the mutex does to that is in `DelayLock`.
  Delays are told apart there by halves of a block; in samples they are in `DelayLine`.
* What goes on the air for one delay after a bypass or a change of the delay:
  `OutputDelayed` says when it ends, and of what comes out before that only that it is
  not taken for the current block (`OnAirMatchesSwitches`).
* The gate of the AGC and the attack and release of the compressor: planned.
* The delay plugin's `m_enabled`, which nothing ever changes; the output gain,
  which is in the protocol but not in the chain; child plugins, never added.
* Most of the generated code: its accessors, tables, arenas and reflection have
  no state of their own to be wrong about.  `LiveData` and `Commands` model those of
  its functions whose steps or results matter.  It makes up more than half of
  the source lines of the repository.
* What is compiled and used by nothing (`circbuf.cpp`, `generic_delay.cpp`), and
  what the build leaves out: `.cproject` excludes the earlier classes, whose
  constructors no longer fit the ones they call (`crossover_6_band.cpp` also
  crosses its channels), and `code_recycle_pile` and `dsp_lab` are no part of it.
* Options, signals, logging.

## 7. Plan

In this order.

1. `AgcGate`: the gate counts blocks (`plugin_agc.cpp:108`), decides on the last
   sample of the block before, and carries a gate that opened in mid-block over to
   the next.  Abstract specification: closed after two seconds below the level.
2. `Compressor`: attack and release as a hull of gains between unity and the
   computed reduction.
3. The conversion from milliseconds, with 32 bit arithmetic.
4. `NoLostNotification` as an invariant of the `fmsmoov` run too.
