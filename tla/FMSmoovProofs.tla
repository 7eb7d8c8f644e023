--------------------------- MODULE FMSmoovProofs ---------------------------
(***************************************************************************)
(* Proofs of the safety of start-up and shut-down (FMSmoov), for any set   *)
(* of block sizes, any number of waiting requests, and condition variables *)
(* with spurious wake-ups or without.                                      *)
(*                                                                         *)
(* Most of the invariant is about where main is, for main is what creates, *)
(* waits for, joins and deletes everything else.                           *)
(***************************************************************************)
EXTENDS FMSmoov, TLAPS

(* main, in the order of the code; each set is one stretch of its way.     *)
BeforeJack      == {"go", "waitJack"}
BeforeServer    == BeforeJack \cup {"newPublisher"}
BeforePublisher == BeforeServer \cup {"waitPublisher"}
BeforeResponder == BeforePublisher \cup {"newResponder"}
BeforeServing   == BeforeResponder \cup {"waitResponder"}
BeforeReturn    == BeforeServing \cup {"startReturns"}
BeforeProcPtr   == BeforeReturn \cup {"setProcessor"}
BeforeCmdServer == BeforeProcPtr \cup {"setCmdServer"}
BeforeOnAir     == BeforeCmdServer \cup {"goReturns"}
BeforeQuit      == BeforeOnAir \cup {"onTheAir", "stopResponder"}
BeforeJoin1     == BeforeQuit \cup {"joinResponder"}
BeforeStop2     == BeforeJoin1 \cup {"stopPublisher"}
BeforeJoin2     == BeforeStop2 \cup {"joinPublisher"}
BeforeDelete    == BeforeJoin2 \cup {"deleteCommandServer"}
BeforeSignal    == BeforeDelete \cup {"signalShutdown"}
BeforeJoin3     == BeforeSignal
                     \cup {"notifyShutdown", "waitShutdown", "joinProcessor"}

(* The processor thread, likewise.                                         *)
Starting    == {"begin", "lockStartup"}
OpeningJack == {"openJack", "buildCore", "activateJack", "connectPorts"}
Serving     == {"notifyStarted", "waitSignal"}
ClosingJack == {"deactivateJack", "closeJack"}

(* Each thread is alive from its creation by main to its join.             *)
Lifetimes ==
  /\ pc["processor"] = "unborn" <=> pc["main"] = "go"
  /\ pc["publisher"] = "unborn" <=> pc["main"] \in BeforeServer
  /\ pc["responder"] = "unborn" <=> pc["main"] \in BeforeResponder
  /\ pc["main"] \notin BeforeJoin1 => pc["responder"] = "done"
  /\ pc["main"] \notin BeforeJoin2 => pc["publisher"] = "done"
  /\ pc["main"] \notin BeforeJoin3 => pc["processor"] = "done"

(* What each flag says about the thread that raises it and the one that    *)
(* waits for it.                                                           *)
Handshakes ==
  /\ flag["jack_started"] =>
       pc["processor"] \notin {"unborn"} \cup Starting \cup OpeningJack
  /\ flag["jack_started"] \/ pc["main"] \in BeforeJack
  /\ flag["publisher_started"] => pc["publisher"] \notin {"unborn", "begin"}
  /\ flag["publisher_started"] \/ pc["main"] \in BeforePublisher
  /\ flag["responder_started"] => pc["responder"] \notin {"unborn", "begin"}
  /\ flag["responder_started"] \/ pc["main"] \in BeforeServing
  /\ flag["responder_stop"] => pc["main"] \notin BeforeQuit
  /\ pc["responder"] = "done" => flag["responder_stop"]
  /\ flag["publisher_stop"] => pc["main"] \notin BeforeStop2
  /\ pc["publisher"] = "done" => flag["publisher_stop"]
  /\ flag["shutdown_signalled"] => pc["main"] \notin BeforeSignal
  /\ pc["processor"] \in ClosingJack \cup {"notifyComplete", "done"}
       => flag["shutdown_signalled"]

(* Who can hold which mutex, and where.                                    *)
Holders ==
  /\ owner["startup"] = "main" => InGo
  /\ owner["startup"] = "processor" => pc["processor"] \in OpeningJack
  /\ owner["shutdown"] = "main" => pc["main"] = "waitShutdown"
  /\ owner["shutdown"] = "processor" =>
       pc["processor"] \in {"lockStartup"} \cup OpeningJack \cup Serving
                             \cup ClosingJack
  /\ owner["publisher"] = "main" => InStart
  /\ owner["responder"] = "main" => InStart
  /\ \A m \in {"startup", "shutdown"} : owner[m] \in {None, "main", "processor"}
  /\ \A m \in {"publisher", "responder"} : owner[m] \in {None, "main"}

(* The objects that exist, and the pointers that lead to them.             *)
Objects ==
  /\ "ProcessorMain" \in live <=> pc["main"] \notin {"go", "done"}
  /\ "CommandServer" \in live <=> pc["main"] \in BeforeDelete \ BeforeServer
  /\ pc["processor"] \in {"activateJack", "connectPorts"} \cup Serving
                            \cup ClosingJack
       => {"ProcessorCore", "JackBufs"} \subseteq live
  /\ jackActive <=>
       pc["processor"] \in {"connectPorts", "deactivateJack"} \cup Serving
  /\ pc["rt"] # "idle" =>
       pc["processor"] \in {"connectPorts"} \cup Serving \cup ClosingJack
  /\ cmdServer \/ pc["main"] \in BeforeCmdServer
  /\ procPtr \/ pc["main"] \in BeforeProcPtr

(* As long as no wake-up has been spurious, main sleeps from the time it   *)
(* gives a mutex away to the time it is notified.                          *)
Asleep(m, wait) == pc["main"] = wait /\ "main" \in sleeping[m]

AsleepOrHolding(m, wait) ==
  pc["main"] = wait /\ (owner[m] = "main" \/ "main" \in sleeping[m])

Undisturbed ==
  ~flag["spuriously_woken"] =>
    /\ pc["processor"] \in Starting => AsleepOrHolding("startup", "waitJack")
    /\ pc["processor"] \in OpeningJack \cup {"notifyStarted"}
         => Asleep("startup", "waitJack")
    /\ pc["publisher"] = "begin"
         => AsleepOrHolding("publisher", "waitPublisher")
    /\ pc["publisher"] = "notify"
         => Asleep("publisher", "waitPublisher")
    /\ pc["responder"] = "begin"
         => AsleepOrHolding("responder", "waitResponder")
    /\ pc["responder"] = "notify"
         => Asleep("responder", "waitResponder")

Order == Lifetimes /\ Handshakes /\ Holders /\ Objects /\ Undisturbed

IInv == TypeOK /\ Order

-----------------------------------------------------------------------------
(* The three things that a step of a waiting thread can be: the predicate  *)
(* holds and it goes on; it does not, and the thread has still the mutex;  *)
(* the thread gives the mutex away and sleeps.                             *)
GoesOn(t, m, from, to, after) ==
  /\ t \notin sleeping[m] \cup checked
  /\ owner[m] \in {t, None}
  /\ Goto(t, from, to)
  /\ owner' = [owner EXCEPT ![m] = after]
  /\ UNCHANGED <<sleeping, checked>>

Looks(t, m, from) ==
  /\ pc[t] = from
  /\ t \notin sleeping[m] \cup checked
  /\ owner[m] \in {t, None}
  /\ owner' = [owner EXCEPT ![m] = t]
  /\ checked' = checked \cup {t}
  /\ UNCHANGED <<pc, sleeping>>

Blocks(t, m, from) ==
  /\ pc[t] = from
  /\ t \in checked
  /\ checked' = checked \ {t}
  /\ sleeping' = [sleeping EXCEPT ![m] = @ \cup {t}]
  /\ Release(m)
  /\ UNCHANGED pc

-----------------------------------------------------------------------------
(* A flag that is raised is still one.                                     *)
LEMMA RaiseType ==
  ASSUME TypeOK, NEW f \in Flag, Raise(f)
  PROVE  flag' \in [Flag -> BOOLEAN]
BY DEF TypeOK, Raise

(* Types: every step of main, ...                                          *)
LEMMA MainType ==
  ASSUME TypeOK, MainStep
  PROVE  TypeOK'
<1> USE ConstantsAssumption
    DEF TypeOK, Thread, Monitor, Flag, Object, None, PlaceOf, MainPC,
        ProcessorPC, RtPC, PublisherPC, ResponderPC, sync, ptrs, env
<1>1. CASE StartProcessor
  BY <1>1 DEF StartProcessor, Spawn, Acquire
<1>2. CASE WaitJackStarted
  <2>1. \/ /\ flag["jack_started"]
           /\ GoesOn("main", "startup", "waitJack", "newPublisher", "main")
        \/ Looks("main", "startup", "waitJack")
        \/ Blocks("main", "startup", "waitJack")
    BY <1>2, Zenon DEF WaitJackStarted, CondWait, GoesOn, Looks, Blocks
  <2> USE <1>2 DEF WaitJackStarted, Release, Goto
  <2>2. CASE /\ flag["jack_started"]
             /\ GoesOn("main", "startup", "waitJack", "newPublisher", "main")
    BY <2>2 DEF GoesOn
  <2>3. CASE Looks("main", "startup", "waitJack")
    BY <2>3 DEF Looks
  <2>4. CASE Blocks("main", "startup", "waitJack")
    BY <2>4 DEF Blocks
  <2> QED BY <2>1, <2>2, <2>3, <2>4
<1>3. CASE StartPublisher
  BY <1>3 DEF StartPublisher, Spawn, Acquire
<1>4. CASE WaitPublisherStarted
  <2>1. \/ /\ flag["publisher_started"]
           /\ GoesOn("main", "publisher", "waitPublisher",
                     "newResponder", "main")
        \/ Looks("main", "publisher", "waitPublisher")
        \/ Blocks("main", "publisher", "waitPublisher")
    BY <1>4, Zenon DEF WaitPublisherStarted, CondWait, GoesOn, Looks, Blocks
  <2> USE <1>4 DEF WaitPublisherStarted, Release, Goto
  <2>2. CASE /\ flag["publisher_started"]
             /\ GoesOn("main", "publisher", "waitPublisher",
                       "newResponder", "main")
    BY <2>2 DEF GoesOn
  <2>3. CASE Looks("main", "publisher", "waitPublisher")
    BY <2>3 DEF Looks
  <2>4. CASE Blocks("main", "publisher", "waitPublisher")
    BY <2>4 DEF Blocks
  <2> QED BY <2>1, <2>2, <2>3, <2>4
<1>5. CASE StartResponder
  BY <1>5 DEF StartResponder, Spawn, Acquire
<1>6. CASE WaitResponderStarted
  <2>1. \/ /\ flag["responder_started"]
           /\ GoesOn("main", "responder", "waitResponder",
                     "startReturns", "main")
        \/ Looks("main", "responder", "waitResponder")
        \/ Blocks("main", "responder", "waitResponder")
    BY <1>6, Zenon DEF WaitResponderStarted, CondWait, GoesOn, Looks, Blocks
  <2> USE <1>6 DEF WaitResponderStarted, Release, Goto
  <2>2. CASE /\ flag["responder_started"]
             /\ GoesOn("main", "responder", "waitResponder",
                       "startReturns", "main")
    BY <2>2 DEF GoesOn
  <2>3. CASE Looks("main", "responder", "waitResponder")
    BY <2>3 DEF Looks
  <2>4. CASE Blocks("main", "responder", "waitResponder")
    BY <2>4 DEF Blocks
  <2> QED BY <2>1, <2>2, <2>3, <2>4
<1>7. CASE StartReturns
  BY <1>7 DEF StartReturns, Goto
<1>8. CASE SetProcessor
  BY <1>8 DEF SetProcessor, Goto
<1>9. CASE SetCmdServer
  BY <1>9 DEF SetCmdServer, Goto
<1>10. CASE GoReturns
  BY <1>10 DEF GoReturns, Goto, Release
<1>11. CASE StopResponder
  BY <1>11 DEF StopResponder, Goto, Raise
<1>12. CASE JoinResponder
  BY <1>12 DEF JoinResponder, Goto
<1>13. CASE StopPublisher
  BY <1>13 DEF StopPublisher, Goto, Raise
<1>14. CASE JoinPublisher
  BY <1>14 DEF JoinPublisher, Goto
<1>15. CASE DeleteCommandServer
  BY <1>15 DEF DeleteCommandServer, Goto
<1>16. CASE SignalShutdown
  BY <1>16 DEF SignalShutdown, Goto, Raise
<1>17. CASE NotifyShutdown
  BY <1>17 DEF NotifyShutdown, Goto, NotifyOne
<1>18. CASE WaitShutdownComplete
  <2>1. \/ /\ flag["jack_shutdown_complete"]
           /\ GoesOn("main", "shutdown", "waitShutdown", "joinProcessor", None)
        \/ Looks("main", "shutdown", "waitShutdown")
        \/ Blocks("main", "shutdown", "waitShutdown")
    BY <1>18, Zenon DEF WaitShutdownComplete, CondWait, GoesOn, Looks, Blocks
  <2> USE <1>18 DEF WaitShutdownComplete, Release, Goto
  <2>2. CASE /\ flag["jack_shutdown_complete"]
             /\ GoesOn("main", "shutdown", "waitShutdown",
                       "joinProcessor", None)
    BY <2>2 DEF GoesOn
  <2>3. CASE Looks("main", "shutdown", "waitShutdown")
    BY <2>3 DEF Looks
  <2>4. CASE Blocks("main", "shutdown", "waitShutdown")
    BY <2>4 DEF Blocks
  <2> QED BY <2>1, <2>2, <2>3, <2>4
<1>19. CASE JoinProcessor
  BY <1>19 DEF JoinProcessor, Goto
<1>20. CASE DeleteProcessor
  BY <1>20 DEF DeleteProcessor, Goto
<1> QED BY <1>1, <1>2, <1>3, <1>4, <1>5, <1>6, <1>7, <1>8, <1>9, <1>10, <1>11,
   <1>12, <1>13, <1>14, <1>15, <1>16, <1>17, <1>18, <1>19, <1>20
        DEF MainStep

(* ... of the processor thread, ...                                        *)
LEMMA ProcessorType ==
  ASSUME TypeOK, ProcessorStep
  PROVE  TypeOK'
<1> USE ConstantsAssumption
    DEF TypeOK, Thread, Monitor, Flag, Object, None, PlaceOf, MainPC,
        ProcessorPC, RtPC, PublisherPC, ResponderPC, sync, ptrs, env
<1>1. CASE HoldShutdown
  BY <1>1 DEF HoldShutdown, Goto, Acquire
<1>2. CASE LockStartup
  BY <1>2 DEF LockStartup, Goto, Acquire
<1>3. CASE OpenJack
  BY <1>3 DEF OpenJack, Goto, End
<1>4. CASE BuildCore
  BY <1>4 DEF BuildCore, Goto, End
<1>5. CASE ActivateJack
  <2> USE <1>5 DEF ActivateJack, Goto, End
  <2>1. pc' \in [Thread -> UNION {PlaceOf(t) : t \in Thread}]
    OBVIOUS
  <2>2. \A t \in Thread : pc'[t] \in PlaceOf(t)
    OBVIOUS
  <2>3. flag' \in [Flag -> BOOLEAN]
    BY RaiseType
  <2> QED BY <2>1, <2>2, <2>3, ZenonT(30)
<1>6. CASE ConnectPorts
  <2> USE <1>6 DEF ConnectPorts, Goto, Release, End
  <2>1. pc' \in [Thread -> UNION {PlaceOf(t) : t \in Thread}]
    OBVIOUS
  <2>2. \A t \in Thread : pc'[t] \in PlaceOf(t)
    OBVIOUS
  <2>3. flag' \in [Flag -> BOOLEAN]
    BY RaiseType
  <2> QED BY <2>1, <2>2, <2>3
<1>7. CASE NotifyJackStarted
  BY <1>7 DEF NotifyJackStarted, Goto, NotifyOne
<1>8. CASE WaitShutdownSignal
  <2>1. \/ /\ flag["shutdown_signalled"]
           /\ GoesOn("processor", "shutdown", "waitSignal",
                     "deactivateJack", "processor")
        \/ Looks("processor", "shutdown", "waitSignal")
        \/ Blocks("processor", "shutdown", "waitSignal")
    BY <1>8, Zenon DEF WaitShutdownSignal, CondWait, GoesOn, Looks, Blocks
  <2> USE <1>8 DEF WaitShutdownSignal, Release, Goto
  <2>2. CASE /\ flag["shutdown_signalled"]
             /\ GoesOn("processor", "shutdown", "waitSignal",
                       "deactivateJack", "processor")
    BY <2>2 DEF GoesOn
  <2>3. CASE Looks("processor", "shutdown", "waitSignal")
    BY <2>3 DEF Looks
  <2>4. CASE Blocks("processor", "shutdown", "waitSignal")
    BY <2>4 DEF Blocks
  <2> QED BY <2>1, <2>2, <2>3, <2>4
<1>9. CASE DeactivateJack
  <2> USE <1>9 DEF DeactivateJack, Goto
  <2>1. pc' \in [Thread -> UNION {PlaceOf(t) : t \in Thread}]
    OBVIOUS
  <2>2. \A t \in Thread : pc'[t] \in PlaceOf(t)
    OBVIOUS
  <2>3. flag' \in [Flag -> BOOLEAN]
    BY RaiseType
  <2> QED BY <2>1, <2>2, <2>3
<1>10. CASE CloseJack
  BY <1>10 DEF CloseJack, Goto, Raise, Release
<1>11. CASE NotifyShutdownComplete
  BY <1>11 DEF NotifyShutdownComplete, Goto, NotifyOne
<1> QED BY <1>1, <1>2, <1>3, <1>4, <1>5, <1>6, <1>7, <1>8, <1>9, <1>10, <1>11
        DEF ProcessorStep

(* ... of JACK's real-time thread, ...                                     *)
LEMMA RtType ==
  ASSUME TypeOK, RtStep
  PROVE  TypeOK'
<1> USE ConstantsAssumption
    DEF TypeOK, Thread, Monitor, Flag, Object, None, PlaceOf, MainPC,
        ProcessorPC, RtPC, PublisherPC, ResponderPC, sync, ptrs, env
<1>1. CASE ProcessBlock
  BY <1>1 DEF ProcessBlock, Goto
<1>2. CASE PublishLiveData
  BY <1>2 DEF PublishLiveData, Goto, End
<1> QED BY <1>1, <1>2
        DEF RtStep

(* ... of the publisher, ...                                               *)
LEMMA PublisherType ==
  ASSUME TypeOK, PublisherStep
  PROVE  TypeOK'
<1> USE ConstantsAssumption
    DEF TypeOK, Thread, Monitor, Flag, Object, None, PlaceOf, MainPC,
        ProcessorPC, RtPC, PublisherPC, ResponderPC, sync, ptrs, env
<1>1. CASE PublisherStarts
  <2> USE <1>1 DEF PublisherStarts, Goto, End
  <2>1. pc' \in [Thread -> UNION {PlaceOf(t) : t \in Thread}]
    OBVIOUS
  <2>2. \A t \in Thread : pc'[t] \in PlaceOf(t)
    OBVIOUS
  <2>3. flag' \in [Flag -> BOOLEAN]
    BY RaiseType
  <2> QED BY <2>1, <2>2, <2>3
<1>2. CASE PublisherNotifies
  BY <1>2 DEF PublisherNotifies, Goto, NotifyOne
<1>3. CASE PublisherAnnounces
  BY <1>3 DEF PublisherAnnounces, Goto
<1>4. CASE PublisherLoops
  BY <1>4 DEF PublisherLoops, Goto
<1>5. CASE PublisherSends
  BY <1>5 DEF PublisherSends, Goto
<1> QED BY <1>1, <1>2, <1>3, <1>4, <1>5
        DEF PublisherStep

(* ... of the responder ...                                                *)
LEMMA ResponderType ==
  ASSUME TypeOK, ResponderStep
  PROVE  TypeOK'
<1> USE ConstantsAssumption
    DEF TypeOK, Thread, Monitor, Flag, Object, None, PlaceOf, MainPC,
        ProcessorPC, RtPC, PublisherPC, ResponderPC, sync, ptrs, env
<1>1. CASE ResponderStarts
  <2> USE <1>1 DEF ResponderStarts, Goto, End
  <2>1. pc' \in [Thread -> UNION {PlaceOf(t) : t \in Thread}]
    OBVIOUS
  <2>2. \A t \in Thread : pc'[t] \in PlaceOf(t)
    OBVIOUS
  <2>3. flag' \in [Flag -> BOOLEAN]
    BY RaiseType
  <2> QED BY <2>1, <2>2, <2>3
<1>2. CASE ResponderNotifies
  BY <1>2 DEF ResponderNotifies, Goto, NotifyOne
<1>3. CASE ResponderLoops
  BY <1>3 DEF ResponderLoops, Goto
<1>4. CASE ResponderReceives
  BY <1>4 DEF ResponderReceives, Goto
<1>5. CASE ResponderHandles
  BY <1>5 DEF ResponderHandles, Goto, End
<1> QED BY <1>1, <1>2, <1>3, <1>4, <1>5
        DEF ResponderStep

(* ... and whatever comes from outside leave values of the same kind.      *)
LEMMA EnvironmentType ==
  ASSUME TypeOK, Environment
  PROVE  TypeOK'
<1> USE ConstantsAssumption
    DEF TypeOK, Thread, Monitor, Flag, Object, None, PlaceOf, MainPC,
        ProcessorPC, RtPC, PublisherPC, ResponderPC, sync, ptrs, env
<1>1. CASE PressQ
  BY <1>1 DEF PressQ, Goto
<1>2. ASSUME NEW n \in NFrames, BeginCallback(n) PROVE TypeOK'
  <2>1. CASE n = 1024
    <3>1. /\ Goto("rt", "idle", "process")
          /\ UNCHANGED <<sync, flag, live, jackActive, ptrs, retval, env>>
      BY <1>2, <2>1, Zenon DEF BeginCallback
    <3>2. jackActive
      BY <1>2, Zenon DEF BeginCallback
    <3> QED BY <3>1, <3>2 DEF Goto
  <2>2. CASE n # 1024
    <3>1. End("exited")
      BY <1>2, <2>2, Zenon DEF BeginCallback
    <3> QED BY <3>1 DEF End
  <2> QED BY <2>1, <2>2
<1>3. CASE JackServerDies
  BY <1>3 DEF JackServerDies, End
<1>4. CASE ClientRequests
  BY <1>4 DEF ClientRequests
<1>5. ASSUME NEW m \in Monitor, SpuriousWakeup(m) PROVE TypeOK'
  <2> USE <1>5 DEF SpuriousWakeup
  <2>1. flag' \in [Flag -> BOOLEAN]
    BY RaiseType
  <2> QED BY <2>1
<1> QED BY <1>1, <1>2, <1>3, <1>4, <1>5 DEF Environment

-----------------------------------------------------------------------------

(* Order: main creates a thread before it waits for it, waits before it goes *)
(* on, and joins before it deletes.                                        *)
LEMMA MainKeeps ==
  ASSUME IInv, MainStep
  PROVE  Order'
<1> USE DEF IInv, TypeOK, Order, Lifetimes, Handshakes, Holders, Objects,
    Undisturbed, Asleep, AsleepOrHolding, Thread, Monitor, Flag, None,
    BeforeJack, BeforeServer, BeforePublisher, BeforeResponder, BeforeServing,
    BeforeReturn, BeforeProcPtr, BeforeCmdServer, BeforeOnAir, BeforeQuit,
    BeforeJoin1, BeforeStop2, BeforeJoin2, BeforeDelete, BeforeSignal,
    BeforeJoin3, Starting, OpeningJack, Serving, ClosingJack, InGo, InStart,
    sync, ptrs, env
<1>1. CASE StartProcessor
  BY <1>1 DEF StartProcessor, Spawn, Acquire
<1>2. CASE WaitJackStarted
  <2>1. \/ /\ flag["jack_started"]
           /\ GoesOn("main", "startup", "waitJack", "newPublisher", "main")
        \/ Looks("main", "startup", "waitJack")
        \/ Blocks("main", "startup", "waitJack")
    BY <1>2, Zenon DEF WaitJackStarted, CondWait, GoesOn, Looks, Blocks
  <2> USE <1>2 DEF WaitJackStarted, Release, Goto
  <2>2. CASE /\ flag["jack_started"]
             /\ GoesOn("main", "startup", "waitJack", "newPublisher", "main")
    BY <2>2 DEF GoesOn
  <2>3. CASE Looks("main", "startup", "waitJack")
    BY <2>3 DEF Looks
  <2>4. CASE Blocks("main", "startup", "waitJack")
    BY <2>4 DEF Blocks
  <2> QED BY <2>1, <2>2, <2>3, <2>4
<1>3. CASE StartPublisher
  BY <1>3 DEF StartPublisher, Spawn, Acquire
<1>4. CASE WaitPublisherStarted
  <2>1. \/ /\ flag["publisher_started"]
           /\ GoesOn("main", "publisher", "waitPublisher",
                     "newResponder", "main")
        \/ Looks("main", "publisher", "waitPublisher")
        \/ Blocks("main", "publisher", "waitPublisher")
    BY <1>4, Zenon DEF WaitPublisherStarted, CondWait, GoesOn, Looks, Blocks
  <2> USE <1>4 DEF WaitPublisherStarted, Release, Goto
  <2>2. CASE /\ flag["publisher_started"]
             /\ GoesOn("main", "publisher", "waitPublisher",
                       "newResponder", "main")
    BY <2>2 DEF GoesOn
  <2>3. CASE Looks("main", "publisher", "waitPublisher")
    BY <2>3 DEF Looks
  <2>4. CASE Blocks("main", "publisher", "waitPublisher")
    BY <2>4 DEF Blocks
  <2> QED BY <2>1, <2>2, <2>3, <2>4
<1>5. CASE StartResponder
  BY <1>5 DEF StartResponder, Spawn, Acquire
<1>6. CASE WaitResponderStarted
  <2>1. \/ /\ flag["responder_started"]
           /\ GoesOn("main", "responder", "waitResponder",
                     "startReturns", "main")
        \/ Looks("main", "responder", "waitResponder")
        \/ Blocks("main", "responder", "waitResponder")
    BY <1>6, Zenon DEF WaitResponderStarted, CondWait, GoesOn, Looks, Blocks
  <2> USE <1>6 DEF WaitResponderStarted, Release, Goto
  <2>2. CASE /\ flag["responder_started"]
             /\ GoesOn("main", "responder", "waitResponder",
                       "startReturns", "main")
    BY <2>2 DEF GoesOn
  <2>3. CASE Looks("main", "responder", "waitResponder")
    BY <2>3 DEF Looks
  <2>4. CASE Blocks("main", "responder", "waitResponder")
    BY <2>4 DEF Blocks
  <2> QED BY <2>1, <2>2, <2>3, <2>4
<1>7. CASE StartReturns
  BY <1>7 DEF StartReturns, Goto
<1>8. CASE SetProcessor
  BY <1>8 DEF SetProcessor, Goto
<1>9. CASE SetCmdServer
  BY <1>9 DEF SetCmdServer, Goto
<1>10. CASE GoReturns
  BY <1>10 DEF GoReturns, Goto, Release
<1>11. CASE StopResponder
  BY <1>11 DEF StopResponder, Goto, Raise
<1>12. CASE JoinResponder
  BY <1>12 DEF JoinResponder, Goto
<1>13. CASE StopPublisher
  BY <1>13 DEF StopPublisher, Goto, Raise
<1>14. CASE JoinPublisher
  BY <1>14 DEF JoinPublisher, Goto
<1>15. CASE DeleteCommandServer
  BY <1>15 DEF DeleteCommandServer, Goto
<1>16. CASE SignalShutdown
  BY <1>16 DEF SignalShutdown, Goto, Raise
<1>17. CASE NotifyShutdown
  BY <1>17 DEF NotifyShutdown, Goto, NotifyOne
<1>18. CASE WaitShutdownComplete
  <2>1. \/ /\ flag["jack_shutdown_complete"]
           /\ GoesOn("main", "shutdown", "waitShutdown", "joinProcessor", None)
        \/ Looks("main", "shutdown", "waitShutdown")
        \/ Blocks("main", "shutdown", "waitShutdown")
    BY <1>18, Zenon DEF WaitShutdownComplete, CondWait, GoesOn, Looks, Blocks
  <2> USE <1>18 DEF WaitShutdownComplete, Release, Goto
  <2>2. CASE /\ flag["jack_shutdown_complete"]
             /\ GoesOn("main", "shutdown", "waitShutdown",
                       "joinProcessor", None)
    BY <2>2 DEF GoesOn
  <2>3. CASE Looks("main", "shutdown", "waitShutdown")
    BY <2>3 DEF Looks
  <2>4. CASE Blocks("main", "shutdown", "waitShutdown")
    BY <2>4 DEF Blocks
  <2> QED BY <2>1, <2>2, <2>3, <2>4
<1>19. CASE JoinProcessor
  BY <1>19 DEF JoinProcessor, Goto
<1>20. CASE DeleteProcessor
  BY <1>20 DEF DeleteProcessor, Goto
<1> QED BY <1>1, <1>2, <1>3, <1>4, <1>5, <1>6, <1>7, <1>8, <1>9, <1>10, <1>11,
   <1>12, <1>13, <1>14, <1>15, <1>16, <1>17, <1>18, <1>19, <1>20
        DEF MainStep

(* The processor thread says that JACK has started when it has, and gives  *)
(* back both mutexes before it notifies.                                   *)
LEMMA ProcessorKeeps ==
  ASSUME IInv, ProcessorStep
  PROVE  Order'
<1> USE DEF IInv, TypeOK, Order, Lifetimes, Handshakes, Holders, Objects,
    Undisturbed, Asleep, AsleepOrHolding, Thread, Monitor, Flag, None,
    BeforeJack, BeforeServer, BeforePublisher, BeforeResponder, BeforeServing,
    BeforeReturn, BeforeProcPtr, BeforeCmdServer, BeforeOnAir, BeforeQuit,
    BeforeJoin1, BeforeStop2, BeforeJoin2, BeforeDelete, BeforeSignal,
    BeforeJoin3, Starting, OpeningJack, Serving, ClosingJack, InGo, InStart,
    sync, ptrs, env
<1>1. CASE HoldShutdown
  BY <1>1 DEF HoldShutdown, Goto, Acquire
<1>2. CASE LockStartup
  BY <1>2 DEF LockStartup, Goto, Acquire
<1>3. CASE OpenJack
  BY <1>3 DEF OpenJack, Goto, End
<1>4. CASE BuildCore
  BY <1>4 DEF BuildCore, Goto, End
<1>5. CASE ActivateJack
  BY <1>5 DEF ActivateJack, Goto, End
<1>6. CASE ConnectPorts
  BY <1>6 DEF ConnectPorts, Goto, Raise, Release, End
<1>7. CASE NotifyJackStarted
  BY <1>7 DEF NotifyJackStarted, Goto, NotifyOne
<1>8. CASE WaitShutdownSignal
  <2>1. \/ /\ flag["shutdown_signalled"]
           /\ GoesOn("processor", "shutdown", "waitSignal",
                     "deactivateJack", "processor")
        \/ Looks("processor", "shutdown", "waitSignal")
        \/ Blocks("processor", "shutdown", "waitSignal")
    BY <1>8, Zenon DEF WaitShutdownSignal, CondWait, GoesOn, Looks, Blocks
  <2> USE <1>8 DEF WaitShutdownSignal, Release, Goto
  <2>2. CASE /\ flag["shutdown_signalled"]
             /\ GoesOn("processor", "shutdown", "waitSignal",
                       "deactivateJack", "processor")
    BY <2>2 DEF GoesOn
  <2>3. CASE Looks("processor", "shutdown", "waitSignal")
    BY <2>3 DEF Looks
  <2>4. CASE Blocks("processor", "shutdown", "waitSignal")
    BY <2>4 DEF Blocks
  <2> QED BY <2>1, <2>2, <2>3, <2>4
<1>9. CASE DeactivateJack
  BY <1>9 DEF DeactivateJack, Goto
<1>10. CASE CloseJack
  BY <1>10 DEF CloseJack, Goto, Raise, Release
<1>11. CASE NotifyShutdownComplete
  BY <1>11 DEF NotifyShutdownComplete, Goto, NotifyOne
<1> QED BY <1>1, <1>2, <1>3, <1>4, <1>5, <1>6, <1>7, <1>8, <1>9, <1>10, <1>11
        DEF ProcessorStep

(* The real-time thread changes nothing that the others look at.           *)
LEMMA RtKeeps ==
  ASSUME IInv, RtStep
  PROVE  Order'
<1> USE DEF IInv, TypeOK, Order, Lifetimes, Handshakes, Holders, Objects,
    Undisturbed, Asleep, AsleepOrHolding, Thread, Monitor, Flag, None,
    BeforeJack, BeforeServer, BeforePublisher, BeforeResponder, BeforeServing,
    BeforeReturn, BeforeProcPtr, BeforeCmdServer, BeforeOnAir, BeforeQuit,
    BeforeJoin1, BeforeStop2, BeforeJoin2, BeforeDelete, BeforeSignal,
    BeforeJoin3, Starting, OpeningJack, Serving, ClosingJack, InGo, InStart,
    sync, ptrs, env
<1>1. CASE ProcessBlock
  BY <1>1 DEF ProcessBlock, Goto
<1>2. CASE PublishLiveData
  BY <1>2 DEF PublishLiveData, Goto, End
<1> QED BY <1>1, <1>2
        DEF RtStep

(* The publisher leaves its loop only when it has been told to, ...        *)
LEMMA PublisherKeeps ==
  ASSUME IInv, PublisherStep
  PROVE  Order'
<1> USE DEF IInv, TypeOK, Order, Lifetimes, Handshakes, Holders, Objects,
    Undisturbed, Asleep, AsleepOrHolding, Thread, Monitor, Flag, None,
    BeforeJack, BeforeServer, BeforePublisher, BeforeResponder, BeforeServing,
    BeforeReturn, BeforeProcPtr, BeforeCmdServer, BeforeOnAir, BeforeQuit,
    BeforeJoin1, BeforeStop2, BeforeJoin2, BeforeDelete, BeforeSignal,
    BeforeJoin3, Starting, OpeningJack, Serving, ClosingJack, InGo, InStart,
    sync, ptrs, env
<1>1. CASE PublisherStarts
  BY <1>1 DEF PublisherStarts, Goto, Raise, End
<1>2. CASE PublisherNotifies
  BY <1>2 DEF PublisherNotifies, Goto, NotifyOne
<1>3. CASE PublisherAnnounces
  BY <1>3 DEF PublisherAnnounces, Goto
<1>4. CASE PublisherLoops
  BY <1>4 DEF PublisherLoops, Goto
<1>5. CASE PublisherSends
  BY <1>5 DEF PublisherSends, Goto
<1> QED BY <1>1, <1>2, <1>3, <1>4, <1>5
        DEF PublisherStep

(* ... and so does the responder.                                          *)
LEMMA ResponderKeeps ==
  ASSUME IInv, ResponderStep
  PROVE  Order'
<1> USE DEF IInv, TypeOK, Order, Lifetimes, Handshakes, Holders, Objects,
    Undisturbed, Asleep, AsleepOrHolding, Thread, Monitor, Flag, None,
    BeforeJack, BeforeServer, BeforePublisher, BeforeResponder, BeforeServing,
    BeforeReturn, BeforeProcPtr, BeforeCmdServer, BeforeOnAir, BeforeQuit,
    BeforeJoin1, BeforeStop2, BeforeJoin2, BeforeDelete, BeforeSignal,
    BeforeJoin3, Starting, OpeningJack, Serving, ClosingJack, InGo, InStart,
    sync, ptrs, env
<1>1. CASE ResponderStarts
  BY <1>1 DEF ResponderStarts, Goto, Raise, End
<1>2. CASE ResponderNotifies
  BY <1>2 DEF ResponderNotifies, Goto, NotifyOne
<1>3. CASE ResponderLoops
  BY <1>3 DEF ResponderLoops, Goto
<1>4. CASE ResponderReceives
  BY <1>4 DEF ResponderReceives, Goto
<1>5. CASE ResponderHandles
  BY <1>5 DEF ResponderHandles, Goto, End
<1> QED BY <1>1, <1>2, <1>3, <1>4, <1>5
        DEF ResponderStep

(* What comes from outside: a user, JACK, clients, spurious wake-ups.      *)
LEMMA EnvironmentKeeps ==
  ASSUME IInv, Environment
  PROVE  Order'
<1> USE DEF IInv, TypeOK, Order, Lifetimes, Handshakes, Holders, Objects,
    Undisturbed, Asleep, AsleepOrHolding, Thread, Monitor, Flag, None,
    BeforeJack, BeforeServer, BeforePublisher, BeforeResponder, BeforeServing,
    BeforeReturn, BeforeProcPtr, BeforeCmdServer, BeforeOnAir, BeforeQuit,
    BeforeJoin1, BeforeStop2, BeforeJoin2, BeforeDelete, BeforeSignal,
    BeforeJoin3, Starting, OpeningJack, Serving, ClosingJack, InGo, InStart,
    sync, ptrs, env
<1>1. CASE PressQ
  BY <1>1 DEF PressQ, Goto
<1>2. ASSUME NEW n \in NFrames, BeginCallback(n) PROVE Order'
  <2>1. CASE n = 1024
    <3>1. /\ Goto("rt", "idle", "process")
          /\ UNCHANGED <<sync, flag, live, jackActive, ptrs, retval, env>>
      BY <1>2, <2>1, Zenon DEF BeginCallback
    <3>2. jackActive
      BY <1>2, Zenon DEF BeginCallback
    <3> QED BY <3>1, <3>2 DEF Goto
  <2>2. CASE n # 1024
    <3>1. End("exited")
      BY <1>2, <2>2, Zenon DEF BeginCallback
    <3> QED BY <3>1 DEF End
  <2> QED BY <2>1, <2>2
<1>3. CASE JackServerDies
  BY <1>3 DEF JackServerDies, End
<1>4. CASE ClientRequests
  BY <1>4 DEF ClientRequests
<1>5. ASSUME NEW m \in Monitor, SpuriousWakeup(m) PROVE Order'
  BY <1>5 DEF SpuriousWakeup, Raise
<1> QED BY <1>1, <1>2, <1>3, <1>4, <1>5 DEF Environment

-----------------------------------------------------------------------------
LEMMA InitIInv ==
  Init => IInv
<1> SUFFICES ASSUME Init PROVE IInv
  OBVIOUS
<1> USE DEF Init, Thread, Monitor, Flag, Object, None
<1>1. TypeOK
  <2> USE DEF PlaceOf, MainPC, ProcessorPC, RtPC, PublisherPC, ResponderPC
  <2>1. /\ pc["main"] = "go" /\ pc["rt"] = "idle"
        /\ \A t \in {"processor", "publisher", "responder"} : pc[t] = "unborn"
    OBVIOUS
  <2>2. \A t \in Thread : pc[t] \in PlaceOf(t)
    BY <2>1
  <2>3. pc \in [Thread -> UNION {PlaceOf(t) : t \in Thread}]
    BY <2>2
  <2>4. owner \in [Monitor -> Thread \cup {None}]
    OBVIOUS
  <2>5. sleeping \in [Monitor -> SUBSET Thread]
    OBVIOUS
  <2>6. flag \in [Flag -> BOOLEAN] /\ pending \in 0..MaxPending
    BY ConstantsAssumption
  <2> QED BY <2>2, <2>3, <2>4, <2>5, <2>6 DEF TypeOK
<1>2. Lifetimes
  BY DEF Lifetimes, BeforeJack, BeforeServer, BeforePublisher, BeforeResponder,
         BeforeServing, BeforeReturn, BeforeProcPtr, BeforeCmdServer,
         BeforeOnAir, BeforeQuit, BeforeJoin1, BeforeStop2, BeforeJoin2,
         BeforeDelete, BeforeSignal, BeforeJoin3
<1>3. Handshakes
  BY DEF Handshakes, BeforeJack, BeforeServer, BeforePublisher,
         BeforeResponder, BeforeServing, ClosingJack
<1>4. Holders
  BY DEF Holders
<1>5. Objects
  BY DEF Objects, BeforeJack, BeforeServer, BeforePublisher, BeforeResponder,
         BeforeServing, BeforeReturn, BeforeProcPtr, BeforeCmdServer, Serving,
         ClosingJack
<1>6. Undisturbed
  BY DEF Undisturbed, Starting, OpeningJack
<1> QED BY <1>1, <1>2, <1>3, <1>4, <1>5, <1>6 DEF IInv, Order

LEMMA NextIInv ==
  IInv /\ [Next]_vars => IInv'
<1> SUFFICES ASSUME IInv, [Next]_vars PROVE IInv'
  OBVIOUS
<1>1. TypeOK
  BY DEF IInv
<1>2. CASE ThreadStep
  BY <1>1, <1>2, MainType, ProcessorType, RtType, PublisherType, ResponderType,
     MainKeeps, ProcessorKeeps, RtKeeps, PublisherKeeps, ResponderKeeps
  DEF ThreadStep, IInv
<1>3. CASE Environment
  BY <1>1, <1>3, EnvironmentType, EnvironmentKeeps DEF IInv
<1>4. CASE UNCHANGED vars
  BY <1>4 DEF vars, IInv, Order, TypeOK, Lifetimes, Handshakes, Holders,
              Objects, Undisturbed, Asleep, AsleepOrHolding, InGo, InStart
<1> QED BY <1>2, <1>3, <1>4 DEF Next, Terminated

(* What all the theorems rest on.                                          *)
LEMMA Invariance ==
  Spec => []IInv
BY InitIInv, NextIInv, PTL DEF Spec

-----------------------------------------------------------------------------
(* Every thread stays within its own code and every variable in its range. *)
THEOREM TypeCorrect ==
  Spec => []TypeOK
<1>1. IInv => TypeOK
  BY DEF IInv
<1> QED BY <1>1, Invariance, PTL

(* JACK's thread is in the process callback only while the ProcessorMain,  *)
(* its core and its buffers exist.                                         *)
THEOREM CallbackFindsItsObjects ==
  Spec => []CallbackOnLiveObjects
<1>1. IInv => CallbackOnLiveObjects
  <2> SUFFICES ASSUME IInv, pc["rt"] # "idle"
               PROVE  {"ProcessorMain", "ProcessorCore", "JackBufs"}
                        \subseteq live
    BY DEF CallbackOnLiveObjects
  <2>1. pc["processor"] \in {"connectPorts"} \cup Serving \cup ClosingJack
    BY DEF IInv, Order, Objects
  <2>2. {"ProcessorCore", "JackBufs"} \subseteq live
    BY <2>1 DEF IInv, Order, Objects
  <2>3. pc["processor"] \notin {"unborn", "done"}
    BY <2>1 DEF Serving, ClosingJack
  <2>4. pc["main"] \notin {"go", "done"}
    BY <2>3 DEF IInv, Order, Lifetimes, BeforeJoin3, BeforeSignal, BeforeDelete,
                BeforeJoin2, BeforeStop2, BeforeJoin1, BeforeQuit, BeforeOnAir,
                BeforeCmdServer, BeforeProcPtr, BeforeReturn, BeforeServing,
                BeforeResponder, BeforePublisher, BeforeServer, BeforeJack
  <2> QED BY <2>2, <2>4 DEF IInv, Order, Objects
<1> QED BY <1>1, Invariance, PTL

(* No mutex dies while a thread holds it: not those in the frames of go()  *)
(* and start(), nor that of ProcessorMain.                                 *)
THEOREM HeldMutexExists ==
  Spec => []HeldMutexInScope
<1>1. IInv => HeldMutexInScope
  <2> SUFFICES ASSUME IInv, NEW m \in Monitor, owner[m] # None
               PROVE  InScope(m)
    BY DEF HeldMutexInScope
  <2> USE DEF IInv, Order, Holders, Lifetimes, Handshakes
  <2>1. CASE m = "startup"
    <3>1. CASE owner["startup"] = "main"
      BY <2>1, <3>1 DEF InScope
    <3>2. CASE owner["startup"] = "processor"
      BY <2>1, <3>2 DEF InScope, OpeningJack, BeforeJack, InGo
    <3> QED BY <2>1, <3>1, <3>2
  <2>2. CASE m = "shutdown"
    <3>1. pc["main"] \notin {"go", "done"}
      <4>1. CASE owner["shutdown"] = "main"
        BY <4>1
      <4>2. CASE owner["shutdown"] = "processor"
        <5>1. pc["processor"] \notin {"unborn", "done"}
          BY <4>2 DEF OpeningJack, Serving, ClosingJack
        <5> QED
          BY <5>1 DEF BeforeJoin3, BeforeSignal, BeforeDelete, BeforeJoin2,
                BeforeStop2, BeforeJoin1, BeforeQuit, BeforeOnAir,
                BeforeCmdServer, BeforeProcPtr, BeforeReturn, BeforeServing,
                BeforeResponder, BeforePublisher, BeforeServer, BeforeJack
      <4> QED BY <2>2, <4>1, <4>2
    <3> QED BY <2>2, <3>1 DEF InScope, Objects
  <2>3. CASE m \in {"publisher", "responder"}
    BY <2>3 DEF InScope
  <2> QED BY <2>1, <2>2, <2>3 DEF Monitor
<1> QED BY <1>1, Invariance, PTL

(* No thread notifies a condition variable that is gone: cv_shutdown never *)
(* is, those in the frames of go() and start() are not unless some wait    *)
(* has been woken spuriously.                                              *)
THEOREM NotifiedCondvarExists ==
  Spec => []NotifiedCondvarInScope
<1>1. IInv => NotifiedCondvarInScope
  <2> SUFFICES ASSUME IInv PROVE NotifiedCondvarInScope
    OBVIOUS
  <2>1. pc["processor"] = "notifyComplete" => InScope("shutdown")
    BY DEF IInv, Order, Lifetimes, Objects, InScope, BeforeJoin3, BeforeSignal,
           BeforeDelete, BeforeJoin2, BeforeStop2, BeforeJoin1, BeforeQuit,
           BeforeOnAir, BeforeCmdServer, BeforeProcPtr, BeforeReturn,
           BeforeServing, BeforeResponder, BeforePublisher, BeforeServer,
           BeforeJack
  <2>2. ASSUME ~flag["spuriously_woken"]
        PROVE  /\ pc["processor"] = "notifyStarted" => InScope("startup")
               /\ pc["publisher"] = "notify"        => InScope("publisher")
               /\ pc["responder"] = "notify"        => InScope("responder")
    BY <2>2 DEF IInv, Order, Undisturbed, Asleep, InScope, InGo, InStart
  <2> QED BY <2>1, <2>2 DEF NotifiedCondvarInScope
<1> QED BY <1>1, Invariance, PTL

(* Once go() has returned and until the user quits, JACK calls back, both  *)
(* raw pointers lead to live objects and all threads serve.                *)
THEOREM OnTheAirIsWired ==
  Spec => []OnTheAirMeansWired
<1>1. IInv => OnTheAirMeansWired
  <2> SUFFICES ASSUME IInv, pc["main"] = "onTheAir" PROVE OnTheAirMeansWired
    BY DEF OnTheAirMeansWired
  <2> USE DEF IInv, Order, BeforeSignal, BeforeDelete, BeforeJoin2, BeforeStop2,
              BeforeJoin1, BeforeQuit, BeforeOnAir, BeforeCmdServer,
              BeforeProcPtr, BeforeReturn, BeforeServing, BeforeResponder,
              BeforePublisher, BeforeServer, BeforeJack
  <2>1. /\ cmdServer /\ procPtr
        /\ {"ProcessorMain", "CommandServer"} \subseteq live
    BY DEF Objects
  <2>2. pc["processor"] \in Serving
    BY DEF Handshakes, TypeOK, Thread, PlaceOf, ProcessorPC, Starting,
           OpeningJack, Serving, ClosingJack
  <2>3. jackActive
    BY <2>2 DEF Objects
  <2>4. pc["publisher"] \in {"notify", "announce", "loop", "send"}
    BY DEF Handshakes, TypeOK, Thread, PlaceOf, PublisherPC
  <2>5. pc["responder"] \in {"notify", "loop", "poll", "handle"}
    BY DEF Handshakes, TypeOK, Thread, PlaceOf, ResponderPC
  <2> QED BY <2>1, <2>2, <2>3, <2>4, <2>5 DEF OnTheAirMeansWired, Serving
<1> QED BY <1>1, Invariance, PTL

(* Both threads of the command server have ended before it is deleted.     *)
THEOREM ServerDeletedLast ==
  Spec => []ServerOutlivesItsThreads
<1>1. IInv => ServerOutlivesItsThreads
  BY DEF IInv, Order, Lifetimes, Objects, ServerOutlivesItsThreads,
         BeforeDelete, BeforeJoin2, BeforeStop2, BeforeJoin1, BeforeQuit,
         BeforeOnAir, BeforeCmdServer, BeforeProcPtr, BeforeReturn,
         BeforeServing, BeforeResponder, BeforePublisher, BeforeServer,
         BeforeJack
<1> QED BY <1>1, Invariance, PTL

-----------------------------------------------------------------------------
(* A thread that is about to block has the mutex, and what it waits for    *)
(* has not happened; one that sleeps is in the wait; and the processor     *)
(* thread has its mutexes all along its critical sections.                 *)
AboutToBlock(t, m, wait, f) ==
  pc[t] = wait /\ owner[m] = t /\ ~flag[f]

Waiting ==
  /\ checked \subseteq {"main", "processor"}
  /\ "main" \in checked =>
       \/ AboutToBlock("main", "startup", "waitJack", "jack_started")
       \/ AboutToBlock("main", "publisher", "waitPublisher", "publisher_started")
       \/ AboutToBlock("main", "responder", "waitResponder", "responder_started")
       \/ AboutToBlock("main", "shutdown", "waitShutdown",
                       "jack_shutdown_complete")
  /\ "processor" \in checked =>
       AboutToBlock("processor", "shutdown", "waitSignal", "shutdown_signalled")
  /\ \A t \in sleeping["startup"]   : t = "main" /\ pc["main"] = "waitJack"
  /\ \A t \in sleeping["publisher"] : t = "main" /\ pc["main"] = "waitPublisher"
  /\ \A t \in sleeping["responder"] : t = "main" /\ pc["main"] = "waitResponder"
  /\ \A t \in sleeping["shutdown"]  :
       \/ t = "main" /\ pc["main"] = "waitShutdown"
       \/ t = "processor" /\ pc["processor"] = "waitSignal"
  /\ pc["processor"] \in OpeningJack => owner["startup"] = "processor"
  /\ pc["processor"] \in {"lockStartup", "notifyStarted"} \cup OpeningJack
                           \cup ClosingJack
       => owner["shutdown"] = "processor"

(* No notification is lost: a thread that sleeps although what it waits    *)
(* for has happened is still going to be notified.                         *)
NoLostNotification ==
  /\ "main" \in sleeping["startup"] /\ flag["jack_started"]
       => pc["processor"] = "notifyStarted"
  /\ "main" \in sleeping["publisher"] /\ flag["publisher_started"]
       => pc["publisher"] = "notify"
  /\ "main" \in sleeping["responder"] /\ flag["responder_started"]
       => pc["responder"] = "notify"
  /\ "processor" \in sleeping["shutdown"] /\ flag["shutdown_signalled"]
       => pc["main"] = "notifyShutdown"
  /\ "main" \in sleeping["shutdown"] /\ flag["jack_shutdown_complete"]
       => pc["processor"] = "notifyComplete"

(* Waiting: main looks at its predicates with the mutex, and nobody can    *)
(* make one true between the look and the sleep.                           *)
LEMMA MainWaits ==
  ASSUME IInv, Waiting, NoLostNotification, MainStep
  PROVE  Waiting' /\ NoLostNotification'
<1> USE DEF IInv, TypeOK, Order, Lifetimes, Handshakes, Holders, Waiting,
    AboutToBlock, NoLostNotification, Thread, Monitor, Flag, None, BeforeJack,
    BeforeServer, BeforePublisher, BeforeResponder, BeforeServing, BeforeReturn,
    BeforeProcPtr, BeforeCmdServer, BeforeOnAir, BeforeQuit, BeforeJoin1,
    BeforeStop2, BeforeJoin2, BeforeDelete, BeforeSignal, BeforeJoin3, Starting,
    OpeningJack, Serving, ClosingJack, InGo, InStart, sync, ptrs, env
<1>1. CASE StartProcessor
  BY <1>1 DEF StartProcessor, Spawn, Acquire
<1>2. CASE WaitJackStarted
  <2>1. \/ /\ flag["jack_started"]
           /\ GoesOn("main", "startup", "waitJack", "newPublisher", "main")
        \/ /\ ~flag["jack_started"]
           /\ Looks("main", "startup", "waitJack")
        \/ Blocks("main", "startup", "waitJack")
    BY <1>2, Zenon DEF WaitJackStarted, CondWait, GoesOn, Looks, Blocks
  <2> USE <1>2 DEF WaitJackStarted, Release, Goto
  <2>2. CASE /\ flag["jack_started"]
             /\ GoesOn("main", "startup", "waitJack", "newPublisher", "main")
    BY <2>2 DEF GoesOn
  <2>3. CASE /\ ~flag["jack_started"]
             /\ Looks("main", "startup", "waitJack")
    BY <2>3 DEF Looks
  <2>4. CASE Blocks("main", "startup", "waitJack")
    BY <2>4 DEF Blocks
  <2> QED BY <2>1, <2>2, <2>3, <2>4
<1>3. CASE StartPublisher
  BY <1>3 DEF StartPublisher, Spawn, Acquire
<1>4. CASE WaitPublisherStarted
  <2>1. \/ /\ flag["publisher_started"]
           /\ GoesOn("main", "publisher", "waitPublisher",
                     "newResponder", "main")
        \/ /\ ~flag["publisher_started"]
           /\ Looks("main", "publisher", "waitPublisher")
        \/ Blocks("main", "publisher", "waitPublisher")
    BY <1>4, Zenon DEF WaitPublisherStarted, CondWait, GoesOn, Looks, Blocks
  <2> USE <1>4 DEF WaitPublisherStarted, Release, Goto
  <2>2. CASE /\ flag["publisher_started"]
             /\ GoesOn("main", "publisher", "waitPublisher",
                       "newResponder", "main")
    BY <2>2 DEF GoesOn
  <2>3. CASE /\ ~flag["publisher_started"]
             /\ Looks("main", "publisher", "waitPublisher")
    BY <2>3 DEF Looks
  <2>4. CASE Blocks("main", "publisher", "waitPublisher")
    BY <2>4 DEF Blocks
  <2> QED BY <2>1, <2>2, <2>3, <2>4
<1>5. CASE StartResponder
  BY <1>5 DEF StartResponder, Spawn, Acquire
<1>6. CASE WaitResponderStarted
  <2>1. \/ /\ flag["responder_started"]
           /\ GoesOn("main", "responder", "waitResponder",
                     "startReturns", "main")
        \/ /\ ~flag["responder_started"]
           /\ Looks("main", "responder", "waitResponder")
        \/ Blocks("main", "responder", "waitResponder")
    BY <1>6, Zenon DEF WaitResponderStarted, CondWait, GoesOn, Looks, Blocks
  <2> USE <1>6 DEF WaitResponderStarted, Release, Goto
  <2>2. CASE /\ flag["responder_started"]
             /\ GoesOn("main", "responder", "waitResponder",
                       "startReturns", "main")
    BY <2>2 DEF GoesOn
  <2>3. CASE /\ ~flag["responder_started"]
             /\ Looks("main", "responder", "waitResponder")
    BY <2>3 DEF Looks
  <2>4. CASE Blocks("main", "responder", "waitResponder")
    BY <2>4 DEF Blocks
  <2> QED BY <2>1, <2>2, <2>3, <2>4
<1>7. CASE StartReturns
  BY <1>7 DEF StartReturns, Goto
<1>8. CASE SetProcessor
  BY <1>8 DEF SetProcessor, Goto
<1>9. CASE SetCmdServer
  BY <1>9 DEF SetCmdServer, Goto
<1>10. CASE GoReturns
  BY <1>10 DEF GoReturns, Goto, Release
<1>11. CASE StopResponder
  BY <1>11 DEF StopResponder, Goto, Raise
<1>12. CASE JoinResponder
  BY <1>12 DEF JoinResponder, Goto
<1>13. CASE StopPublisher
  BY <1>13 DEF StopPublisher, Goto, Raise
<1>14. CASE JoinPublisher
  BY <1>14 DEF JoinPublisher, Goto
<1>15. CASE DeleteCommandServer
  BY <1>15 DEF DeleteCommandServer, Goto
<1>16. CASE SignalShutdown
  BY <1>16 DEF SignalShutdown, Goto, Raise
<1>17. CASE NotifyShutdown
  BY <1>17 DEF NotifyShutdown, Goto, NotifyOne
<1>18. CASE WaitShutdownComplete
  <2>1. \/ /\ flag["jack_shutdown_complete"]
           /\ GoesOn("main", "shutdown", "waitShutdown", "joinProcessor", None)
        \/ /\ ~flag["jack_shutdown_complete"]
           /\ Looks("main", "shutdown", "waitShutdown")
        \/ Blocks("main", "shutdown", "waitShutdown")
    BY <1>18, Zenon DEF WaitShutdownComplete, CondWait, GoesOn, Looks, Blocks
  <2> USE <1>18 DEF WaitShutdownComplete, Release, Goto
  <2>2. CASE /\ flag["jack_shutdown_complete"]
             /\ GoesOn("main", "shutdown", "waitShutdown",
                       "joinProcessor", None)
    BY <2>2 DEF GoesOn
  <2>3. CASE /\ ~flag["jack_shutdown_complete"]
             /\ Looks("main", "shutdown", "waitShutdown")
    BY <2>3 DEF Looks
  <2>4. CASE Blocks("main", "shutdown", "waitShutdown")
    BY <2>4 DEF Blocks
  <2> QED BY <2>1, <2>2, <2>3, <2>4
<1>19. CASE JoinProcessor
  BY <1>19 DEF JoinProcessor, Goto
<1>20. CASE DeleteProcessor
  BY <1>20 DEF DeleteProcessor, Goto
<1> QED BY <1>1, <1>2, <1>3, <1>4, <1>5, <1>6, <1>7, <1>8, <1>9, <1>10, <1>11,
   <1>12, <1>13, <1>14, <1>15, <1>16, <1>17, <1>18, <1>19, <1>20
        DEF MainStep

(* The processor thread raises its flags with the mutex that main waits    *)
(* with, and notifies when nobody but main can sleep there.                *)
LEMMA ProcessorWaits ==
  ASSUME IInv, Waiting, NoLostNotification, ProcessorStep
  PROVE  Waiting' /\ NoLostNotification'
<1> USE DEF IInv, TypeOK, Order, Lifetimes, Handshakes, Holders, Waiting,
    AboutToBlock, NoLostNotification, Thread, Monitor, Flag, None, BeforeJack,
    BeforeServer, BeforePublisher, BeforeResponder, BeforeServing, BeforeReturn,
    BeforeProcPtr, BeforeCmdServer, BeforeOnAir, BeforeQuit, BeforeJoin1,
    BeforeStop2, BeforeJoin2, BeforeDelete, BeforeSignal, BeforeJoin3, Starting,
    OpeningJack, Serving, ClosingJack, InGo, InStart, sync, ptrs, env
<1>1. CASE HoldShutdown
  BY <1>1 DEF HoldShutdown, Goto, Acquire
<1>2. CASE LockStartup
  BY <1>2 DEF LockStartup, Goto, Acquire
<1>3. CASE OpenJack
  BY <1>3 DEF OpenJack, Goto, End
<1>4. CASE BuildCore
  BY <1>4 DEF BuildCore, Goto, End
<1>5. CASE ActivateJack
  BY <1>5 DEF ActivateJack, Goto, End
<1>6. CASE ConnectPorts
  BY <1>6 DEF ConnectPorts, Goto, Raise, Release, End
<1>7. CASE NotifyJackStarted
  BY <1>7 DEF NotifyJackStarted, Goto, NotifyOne
<1>8. CASE WaitShutdownSignal
  <2>1. \/ /\ flag["shutdown_signalled"]
           /\ GoesOn("processor", "shutdown", "waitSignal",
                     "deactivateJack", "processor")
        \/ /\ ~flag["shutdown_signalled"]
           /\ Looks("processor", "shutdown", "waitSignal")
        \/ Blocks("processor", "shutdown", "waitSignal")
    BY <1>8, Zenon DEF WaitShutdownSignal, CondWait, GoesOn, Looks, Blocks
  <2> USE <1>8 DEF WaitShutdownSignal, Release, Goto
  <2>2. CASE /\ flag["shutdown_signalled"]
             /\ GoesOn("processor", "shutdown", "waitSignal",
                       "deactivateJack", "processor")
    BY <2>2 DEF GoesOn
  <2>3. CASE /\ ~flag["shutdown_signalled"]
             /\ Looks("processor", "shutdown", "waitSignal")
    BY <2>3 DEF Looks
  <2>4. CASE Blocks("processor", "shutdown", "waitSignal")
    BY <2>4 DEF Blocks
  <2> QED BY <2>1, <2>2, <2>3, <2>4
<1>9. CASE DeactivateJack
  BY <1>9 DEF DeactivateJack, Goto
<1>10. CASE CloseJack
  BY <1>10 DEF CloseJack, Goto, Raise, Release
<1>11. CASE NotifyShutdownComplete
  BY <1>11 DEF NotifyShutdownComplete, Goto, NotifyOne
<1> QED BY <1>1, <1>2, <1>3, <1>4, <1>5, <1>6, <1>7, <1>8, <1>9, <1>10, <1>11
        DEF ProcessorStep

(* The real-time thread does not wait.                                     *)
LEMMA RtWaits ==
  ASSUME IInv, Waiting, NoLostNotification, RtStep
  PROVE  Waiting' /\ NoLostNotification'
<1> USE DEF IInv, TypeOK, Order, Lifetimes, Handshakes, Holders, Waiting,
    AboutToBlock, NoLostNotification, Thread, Monitor, Flag, None, BeforeJack,
    BeforeServer, BeforePublisher, BeforeResponder, BeforeServing, BeforeReturn,
    BeforeProcPtr, BeforeCmdServer, BeforeOnAir, BeforeQuit, BeforeJoin1,
    BeforeStop2, BeforeJoin2, BeforeDelete, BeforeSignal, BeforeJoin3, Starting,
    OpeningJack, Serving, ClosingJack, InGo, InStart, sync, ptrs, env
<1>1. CASE ProcessBlock
  BY <1>1 DEF ProcessBlock, Goto
<1>2. CASE PublishLiveData
  BY <1>2 DEF PublishLiveData, Goto, End
<1> QED BY <1>1, <1>2
        DEF RtStep

(* The publisher's critical section excludes main's, ...                   *)
LEMMA PublisherWaits ==
  ASSUME IInv, Waiting, NoLostNotification, PublisherStep
  PROVE  Waiting' /\ NoLostNotification'
<1> USE DEF IInv, TypeOK, Order, Lifetimes, Handshakes, Holders, Waiting,
    AboutToBlock, NoLostNotification, Thread, Monitor, Flag, None, BeforeJack,
    BeforeServer, BeforePublisher, BeforeResponder, BeforeServing, BeforeReturn,
    BeforeProcPtr, BeforeCmdServer, BeforeOnAir, BeforeQuit, BeforeJoin1,
    BeforeStop2, BeforeJoin2, BeforeDelete, BeforeSignal, BeforeJoin3, Starting,
    OpeningJack, Serving, ClosingJack, InGo, InStart, sync, ptrs, env
<1>1. CASE PublisherStarts
  BY <1>1 DEF PublisherStarts, Goto, Raise, End
<1>2. CASE PublisherNotifies
  BY <1>2 DEF PublisherNotifies, Goto, NotifyOne
<1>3. CASE PublisherAnnounces
  BY <1>3 DEF PublisherAnnounces, Goto
<1>4. CASE PublisherLoops
  BY <1>4 DEF PublisherLoops, Goto
<1>5. CASE PublisherSends
  BY <1>5 DEF PublisherSends, Goto
<1> QED BY <1>1, <1>2, <1>3, <1>4, <1>5
        DEF PublisherStep

(* ... and so does the responder's.                                        *)
LEMMA ResponderWaits ==
  ASSUME IInv, Waiting, NoLostNotification, ResponderStep
  PROVE  Waiting' /\ NoLostNotification'
<1> USE DEF IInv, TypeOK, Order, Lifetimes, Handshakes, Holders, Waiting,
    AboutToBlock, NoLostNotification, Thread, Monitor, Flag, None, BeforeJack,
    BeforeServer, BeforePublisher, BeforeResponder, BeforeServing, BeforeReturn,
    BeforeProcPtr, BeforeCmdServer, BeforeOnAir, BeforeQuit, BeforeJoin1,
    BeforeStop2, BeforeJoin2, BeforeDelete, BeforeSignal, BeforeJoin3, Starting,
    OpeningJack, Serving, ClosingJack, InGo, InStart, sync, ptrs, env
<1>1. CASE ResponderStarts
  BY <1>1 DEF ResponderStarts, Goto, Raise, End
<1>2. CASE ResponderNotifies
  BY <1>2 DEF ResponderNotifies, Goto, NotifyOne
<1>3. CASE ResponderLoops
  BY <1>3 DEF ResponderLoops, Goto
<1>4. CASE ResponderReceives
  BY <1>4 DEF ResponderReceives, Goto
<1>5. CASE ResponderHandles
  BY <1>5 DEF ResponderHandles, Goto, End
<1> QED BY <1>1, <1>2, <1>3, <1>4, <1>5
        DEF ResponderStep

(* A spurious wake-up ends a sleep, and nothing else.                      *)
LEMMA EnvironmentWaits ==
  ASSUME IInv, Waiting, NoLostNotification, Environment
  PROVE  Waiting' /\ NoLostNotification'
<1> USE DEF IInv, TypeOK, Order, Lifetimes, Handshakes, Holders, Waiting,
    AboutToBlock, NoLostNotification, Thread, Monitor, Flag, None, BeforeJack,
    BeforeServer, BeforePublisher, BeforeResponder, BeforeServing, BeforeReturn,
    BeforeProcPtr, BeforeCmdServer, BeforeOnAir, BeforeQuit, BeforeJoin1,
    BeforeStop2, BeforeJoin2, BeforeDelete, BeforeSignal, BeforeJoin3, Starting,
    OpeningJack, Serving, ClosingJack, InGo, InStart, sync, ptrs, env
<1>1. CASE PressQ
  BY <1>1 DEF PressQ, Goto
<1>2. ASSUME NEW n \in NFrames, BeginCallback(n)
      PROVE  Waiting' /\ NoLostNotification'
  <2>1. CASE n = 1024
    <3>1. /\ Goto("rt", "idle", "process")
          /\ UNCHANGED <<sync, flag, live, jackActive, ptrs, retval, env>>
      BY <1>2, <2>1, Zenon DEF BeginCallback
    <3>2. jackActive
      BY <1>2, Zenon DEF BeginCallback
    <3> QED BY <3>1, <3>2 DEF Goto
  <2>2. CASE n # 1024
    <3>1. End("exited")
      BY <1>2, <2>2, Zenon DEF BeginCallback
    <3> QED BY <3>1 DEF End
  <2> QED BY <2>1, <2>2
<1>3. CASE JackServerDies
  BY <1>3 DEF JackServerDies, End
<1>4. CASE ClientRequests
  BY <1>4 DEF ClientRequests
<1>5. ASSUME NEW m \in Monitor, SpuriousWakeup(m)
      PROVE  Waiting' /\ NoLostNotification'
  BY <1>5 DEF SpuriousWakeup, Raise
<1> QED BY <1>1, <1>2, <1>3, <1>4, <1>5 DEF Environment

LEMMA WaitingInvariance ==
  Spec => [](Waiting /\ NoLostNotification)
<1>1. Init => Waiting /\ NoLostNotification
  BY DEF Init, Waiting, NoLostNotification, Thread, Monitor, Flag, OpeningJack,
         ClosingJack
<1>2. IInv /\ Waiting /\ NoLostNotification /\ [Next]_vars
        => Waiting' /\ NoLostNotification'
  <2> SUFFICES ASSUME IInv, Waiting, NoLostNotification, [Next]_vars
               PROVE  Waiting' /\ NoLostNotification'
    OBVIOUS
  <2>1. CASE ThreadStep
    BY <2>1, MainWaits, ProcessorWaits, RtWaits, PublisherWaits, ResponderWaits
    DEF ThreadStep
  <2>2. CASE Environment
    BY <2>2, EnvironmentWaits
  <2>3. CASE UNCHANGED vars
    BY <2>3 DEF vars, Waiting, AboutToBlock, NoLostNotification
  <2> QED BY <2>1, <2>2, <2>3 DEF Next, Terminated
<1> QED BY <1>1, <1>2, Invariance, PTL DEF Spec

(* No notification is lost in any of the four handshakes, although all are *)
(* sent after the mutex has been released, and those on cv_shutdown may    *)
(* find either of two threads asleep.                                      *)
THEOREM NothingLost ==
  Spec => []NoLostNotification
BY WaitingInvariance, PTL
=============================================================================
