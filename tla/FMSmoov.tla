------------------------------ MODULE FMSmoov ------------------------------
(***************************************************************************)
(* Start-up and shut-down of fm_smoov: the main thread (FMSmoov::go and    *)
(* FMSmoov::stop), the "processor" thread that owns the JACK client        *)
(* (ProcessorMain::operator()), the JACK real-time thread that runs the    *)
(* process callback, and the publisher and responder threads of the        *)
(* CommandServer.  The threads meet in four mutex / condition variable     *)
(* handshakes and through two raw pointers that main fills in late and     *)
(* never clears.                                                           *)
(*                                                                         *)
(* One action per stretch of code between two points where another thread *)
(* can intervene.  Audio and the contents of messages are left out.        *)
(***************************************************************************)
EXTENDS Integers

CONSTANTS
  NFrames,     \* block sizes JACK may hand to the process callback
  MaxPending,  \* bound: requests queued at the reply socket
  Spurious     \* whether condition variables may wake up without a notify

ASSUME ConstantsAssumption ==
  /\ NFrames \subseteq Nat
  /\ MaxPending \in Nat \ {0}
  /\ Spurious \in BOOLEAN

None == "none"

Thread == {"main", "processor", "rt", "publisher", "responder"}

(* Each mutex is named with its condition variable: "startup", "publisher" *)
(* and "responder" are locals of go() and CommandServer::start(), while    *)
(* "shutdown" is a member of ProcessorMain.                                *)
Monitor == {"startup", "shutdown", "publisher", "responder"}

Flag == {"jack_started", "shutdown_signalled", "jack_shutdown_complete",
         "publisher_started", "publisher_stop",
         "responder_started", "responder_stop",
         "spuriously_woken"}   \* history: no variable of the code

Object == {"ProcessorMain", "ProcessorCore", "JackBufs", "CommandServer"}

VARIABLES
  pc,          \* where each thread is; "unborn" before it is created
  owner,       \* the thread that holds each mutex, or None
  sleeping,    \* the threads blocked in a wait on each condition variable
  checked,     \* the threads that found their predicate false, about to block
  flag,        \* the booleans the threads signal each other with
  live,        \* heap objects that are constructed and not yet deleted
  jackActive,  \* jack_activate has succeeded, jack_deactivate not been called
  cmdServer,   \* ProcessorMain::m_cmd_server is not null
  procPtr,     \* Responder::m_processor has been assigned
  retval,      \* what the last finished process callback returned to JACK
  pending,     \* requests waiting at the reply socket
  process      \* the operating system process: running, exited or crashed

vars == <<pc, owner, sleeping, checked, flag, live, jackActive, cmdServer,
          procPtr, retval, pending, process>>

sync == <<owner, sleeping, checked>>
ptrs == <<cmdServer, procPtr>>
env  == <<pending, process>>

-----------------------------------------------------------------------------
(* Threads, mutexes and condition variables.                               *)

Goto(t, from, to) == pc[t] = from /\ pc' = [pc EXCEPT ![t] = to]

Spawn(from, to, t) ==
  /\ pc["main"] = from
  /\ pc' = [pc EXCEPT !["main"] = to, ![t] = "begin"]

Raise(f) == flag' = [flag EXCEPT ![f] = TRUE]

Acquire(t, m) == owner[m] = None /\ owner' = [owner EXCEPT ![m] = t]

Release(m) == owner' = [owner EXCEPT ![m] = None]

(* cv.wait(lk, pred): with the mutex, t goes on if pred holds; if it does  *)
(* not, t releases the mutex and blocks in one step.  A woken thread gets  *)
(* the mutex back before it looks at pred again.  Only the mutex keeps     *)
(* others from making pred true between the look and the blocking.         *)
(* `after' is the owner of the mutex once the wait is over.                *)
CondWait(t, m, pred, from, to, after) ==
  \/ /\ pc[t] = from
     /\ t \notin sleeping[m] \cup checked
     /\ owner[m] \in {t, None}
     /\ UNCHANGED sleeping
     /\ \/ /\ pred
           /\ Goto(t, from, to)
           /\ owner' = [owner EXCEPT ![m] = after]
           /\ UNCHANGED checked
        \/ /\ ~pred
           /\ owner' = [owner EXCEPT ![m] = t]
           /\ checked' = checked \cup {t}
           /\ UNCHANGED pc
  \/ /\ pc[t] = from
     /\ t \in checked
     /\ checked' = checked \ {t}
     /\ sleeping' = [sleeping EXCEPT ![m] = @ \cup {t}]
     /\ Release(m)
     /\ UNCHANGED pc

NotifyOne(m) ==
  \/ sleeping[m] = {} /\ UNCHANGED sleeping
  \/ \E t \in sleeping[m] : sleeping' = [sleeping EXCEPT ![m] = @ \ {t}]

SpuriousWakeup(m) ==
  /\ Spurious
  /\ \E t \in sleeping[m] : sleeping' = [sleeping EXCEPT ![m] = @ \ {t}]
  /\ Raise("spuriously_woken")
  /\ UNCHANGED <<pc, owner, checked, live, jackActive, ptrs, retval, env>>

(* exit(1), std::terminate or SIGSEGV (whose handler calls exit) end every *)
(* thread at once.                                                         *)
End(how) ==
  /\ process' = how
  /\ UNCHANGED <<pc, sync, flag, live, jackActive, ptrs, retval, pending>>

-----------------------------------------------------------------------------
(* The main thread: FMSmoov::go().                                         *)

StartProcessor ==
  /\ Spawn("go", "waitJack", "processor")
  /\ Acquire("main", "startup")
  /\ live' = live \cup {"ProcessorMain"}
  /\ UNCHANGED <<sleeping, checked, flag, jackActive, ptrs, retval, env>>

(* Slip: go() does not wait for jack_started.                              *)
WaitJackStarted_NoWait ==
  /\ Goto("main", "waitJack", "newPublisher")
  /\ UNCHANGED <<sync, flag, live, jackActive, ptrs, retval, env>>

WaitJackStarted ==
  /\ CondWait("main", "startup", flag["jack_started"],
              "waitJack", "newPublisher", "main")
  /\ UNCHANGED <<flag, live, jackActive, ptrs, retval, env>>

(* new CommandServer() and the first half of CommandServer::start().       *)
StartPublisher ==
  /\ Spawn("newPublisher", "waitPublisher", "publisher")
  /\ Acquire("main", "publisher")
  /\ live' = live \cup {"CommandServer"}
  /\ UNCHANGED <<sleeping, checked, flag, jackActive, ptrs, retval, env>>

WaitPublisherStarted ==
  /\ CondWait("main", "publisher", flag["publisher_started"],
              "waitPublisher", "newResponder", "main")
  /\ UNCHANGED <<flag, live, jackActive, ptrs, retval, env>>

(* The Responder's constructor leaves m_processor uninitialised.           *)
StartResponder ==
  /\ Spawn("newResponder", "waitResponder", "responder")
  /\ Acquire("main", "responder")
  /\ UNCHANGED <<sleeping, checked, flag, live, jackActive, ptrs, retval, env>>

(* Slip: start() does not wait for the responder.                          *)
WaitResponderStarted_NoWait ==
  /\ Goto("main", "waitResponder", "startReturns")
  /\ UNCHANGED <<sync, flag, live, jackActive, ptrs, retval, env>>

WaitResponderStarted ==
  /\ CondWait("main", "responder", flag["responder_started"],
              "waitResponder", "startReturns", "main")
  /\ UNCHANGED <<flag, live, jackActive, ptrs, retval, env>>

(* CommandServer::start() returns: its two mutexes are unlocked and die.   *)
StartReturns ==
  /\ Goto("main", "startReturns", "setProcessor")
  /\ owner' = [owner EXCEPT !["publisher"] = None, !["responder"] = None]
  /\ UNCHANGED <<sleeping, checked, flag, live, jackActive, ptrs, retval, env>>

SetProcessor ==
  /\ Goto("main", "setProcessor", "setCmdServer")
  /\ procPtr' = TRUE
  /\ UNCHANGED <<sync, flag, live, jackActive, cmdServer, retval, env>>

SetCmdServer ==
  /\ Goto("main", "setCmdServer", "goReturns")
  /\ cmdServer' = TRUE
  /\ UNCHANGED <<sync, flag, live, jackActive, procPtr, retval, env>>

GoReturns ==
  /\ Goto("main", "goReturns", "onTheAir")
  /\ Release("startup")
  /\ UNCHANGED <<sleeping, checked, flag, live, jackActive, ptrs, retval, env>>

-----------------------------------------------------------------------------
(* The main thread: the getchar() loop of main() and FMSmoov::stop().      *)

PressQ ==
  /\ Goto("main", "onTheAir", "stopResponder")
  /\ UNCHANGED <<sync, flag, live, jackActive, ptrs, retval, env>>

(* Slip: stop() forgets to raise the responder's flag.                     *)
StopResponder_NoFlag ==
  /\ Goto("main", "stopResponder", "joinResponder")
  /\ UNCHANGED <<sync, flag, live, jackActive, ptrs, retval, env>>

StopResponder ==
  /\ Goto("main", "stopResponder", "joinResponder")
  /\ Raise("responder_stop")
  /\ UNCHANGED <<sync, live, jackActive, ptrs, retval, env>>

JoinResponder ==
  /\ pc["responder"] = "done"
  /\ Goto("main", "joinResponder", "stopPublisher")
  /\ UNCHANGED <<sync, flag, live, jackActive, ptrs, retval, env>>

StopPublisher ==
  /\ Goto("main", "stopPublisher", "joinPublisher")
  /\ Raise("publisher_stop")
  /\ UNCHANGED <<sync, live, jackActive, ptrs, retval, env>>

(* Slip: the publisher thread is detached, not joined.                     *)
JoinPublisher_Detach ==
  /\ Goto("main", "joinPublisher", "deleteCommandServer")
  /\ UNCHANGED <<sync, flag, live, jackActive, ptrs, retval, env>>

JoinPublisher ==
  /\ pc["publisher"] = "done"
  /\ Goto("main", "joinPublisher", "deleteCommandServer")
  /\ UNCHANGED <<sync, flag, live, jackActive, ptrs, retval, env>>

(* m_audioproc's pointer to the server is left as it is.                   *)
DeleteCommandServer ==
  /\ Goto("main", "deleteCommandServer", "signalShutdown")
  /\ live' = live \ {"CommandServer"}
  /\ UNCHANGED <<sync, flag, jackActive, ptrs, retval, env>>

(* Slip: the flag is set without taking mutex_shutdown.                    *)
SignalShutdown_NoLock ==
  /\ Goto("main", "signalShutdown", "notifyShutdown")
  /\ Raise("shutdown_signalled")
  /\ UNCHANGED <<sync, live, jackActive, ptrs, retval, env>>

(* ProcessorMain::stop(): the flag is set in a critical section of its own *)
(* and the wait takes the mutex a second time.                             *)
SignalShutdown ==
  /\ owner["shutdown"] = None
  /\ Goto("main", "signalShutdown", "notifyShutdown")
  /\ Raise("shutdown_signalled")
  /\ UNCHANGED <<sync, live, jackActive, ptrs, retval, env>>

NotifyShutdown ==
  /\ Goto("main", "notifyShutdown", "waitShutdown")
  /\ NotifyOne("shutdown")
  /\ UNCHANGED <<owner, checked, flag, live, jackActive, ptrs, retval, env>>

WaitShutdownComplete ==
  /\ CondWait("main", "shutdown", flag["jack_shutdown_complete"],
              "waitShutdown", "joinProcessor", None)
  /\ UNCHANGED <<flag, live, jackActive, ptrs, retval, env>>

(* Slip: the processor thread is detached, not joined.                     *)
JoinProcessor_Detach ==
  /\ Goto("main", "joinProcessor", "deleteProcessor")
  /\ UNCHANGED <<sync, flag, live, jackActive, ptrs, retval, env>>

JoinProcessor ==
  /\ pc["processor"] = "done"
  /\ Goto("main", "joinProcessor", "deleteProcessor")
  /\ UNCHANGED <<sync, flag, live, jackActive, ptrs, retval, env>>

(* ~ProcessorMain deletes the JACK buffers and leaks the core.             *)
DeleteProcessor ==
  /\ Goto("main", "deleteProcessor", "done")
  /\ live' = live \ {"ProcessorMain", "JackBufs"}
  /\ UNCHANGED <<sync, flag, jackActive, ptrs, retval, env>>

MainStep ==
  \/ StartProcessor \/ WaitJackStarted
  \/ StartPublisher \/ WaitPublisherStarted
  \/ StartResponder \/ WaitResponderStarted \/ StartReturns
  \/ SetProcessor \/ SetCmdServer \/ GoReturns
  \/ StopResponder \/ JoinResponder \/ StopPublisher \/ JoinPublisher
  \/ DeleteCommandServer
  \/ SignalShutdown \/ NotifyShutdown \/ WaitShutdownComplete
  \/ JoinProcessor \/ DeleteProcessor

-----------------------------------------------------------------------------
(* The processor thread: ProcessorMain::operator() with start_jack() and   *)
(* stop_jack().  mutex_shutdown is held from the first line on, except     *)
(* while waiting for the shutdown signal.                                  *)

HoldShutdown ==
  /\ Goto("processor", "begin", "lockStartup")
  /\ Acquire("processor", "shutdown")
  /\ UNCHANGED <<sleeping, checked, flag, live, jackActive, ptrs, retval, env>>

LockStartup ==
  /\ Goto("processor", "lockStartup", "openJack")
  /\ Acquire("processor", "startup")
  /\ UNCHANGED <<sleeping, checked, flag, live, jackActive, ptrs, retval, env>>

(* Slip: the client is activated as soon as the callback is registered.    *)
OpenJack_ActivateEarly ==
  /\ Goto("processor", "openJack", "buildCore")
  /\ jackActive' = TRUE
  /\ UNCHANGED <<sync, flag, live, ptrs, retval, env>>

OpenJack ==
  \/ /\ Goto("processor", "openJack", "buildCore")
     /\ UNCHANGED <<sync, flag, live, jackActive, ptrs, retval, env>>
  \/ pc["processor"] = "openJack" /\ End("exited")

(* The callback is registered before the core exists, but JACK only calls  *)
(* it once the client is active.                                           *)
BuildCore ==
  \/ /\ Goto("processor", "buildCore", "activateJack")
     /\ live' = live \cup {"ProcessorCore", "JackBufs"}
     /\ UNCHANGED <<sync, flag, jackActive, ptrs, retval, env>>
  \/ pc["processor"] = "buildCore" /\ End("exited")

ActivateJack ==
  \/ /\ Goto("processor", "activateJack", "connectPorts")
     /\ jackActive' = TRUE
     /\ UNCHANGED <<sync, flag, live, ptrs, retval, env>>
  \/ pc["processor"] = "activateJack" /\ End("exited")

(* The rest of start_jack(), jack_started = true and the end of the        *)
(* critical section on mutex_startup.                                      *)
ConnectPorts ==
  \/ /\ Goto("processor", "connectPorts", "notifyStarted")
     /\ Raise("jack_started")
     /\ Release("startup")
     /\ UNCHANGED <<sleeping, checked, live, jackActive, ptrs, retval, env>>
  \/ pc["processor"] = "connectPorts" /\ End("exited")

(* Slip: nobody notifies cv_startup.                                       *)
NotifyJackStarted_Silent ==
  /\ Goto("processor", "notifyStarted", "waitSignal")
  /\ UNCHANGED <<sync, flag, live, jackActive, ptrs, retval, env>>

NotifyJackStarted ==
  /\ Goto("processor", "notifyStarted", "waitSignal")
  /\ NotifyOne("startup")
  /\ UNCHANGED <<owner, checked, flag, live, jackActive, ptrs, retval, env>>

WaitShutdownSignal ==
  /\ CondWait("processor", "shutdown", flag["shutdown_signalled"],
              "waitSignal", "deactivateJack", "processor")
  /\ UNCHANGED <<flag, live, jackActive, ptrs, retval, env>>

DeactivateJack ==
  /\ Goto("processor", "deactivateJack", "closeJack")
  /\ jackActive' = FALSE
  /\ UNCHANGED <<sync, flag, live, ptrs, retval, env>>

(* jack_deactivate() and jack_client_close() return when no callback runs; *)
(* then m_jack_shutdown_complete is set and mutex_shutdown unlocked.       *)
CloseJack ==
  /\ pc["rt"] = "idle"
  /\ Goto("processor", "closeJack", "notifyComplete")
  /\ Raise("jack_shutdown_complete")
  /\ Release("shutdown")
  /\ UNCHANGED <<sleeping, checked, live, jackActive, ptrs, retval, env>>

NotifyShutdownComplete ==
  /\ Goto("processor", "notifyComplete", "done")
  /\ NotifyOne("shutdown")
  /\ UNCHANGED <<owner, checked, flag, live, jackActive, ptrs, retval, env>>

ProcessorStep ==
  \/ HoldShutdown \/ LockStartup \/ OpenJack \/ BuildCore \/ ActivateJack
  \/ ConnectPorts \/ NotifyJackStarted \/ WaitShutdownSignal
  \/ DeactivateJack \/ CloseJack \/ NotifyShutdownComplete

-----------------------------------------------------------------------------
(* The JACK real-time thread: jack_process_callback() and process().       *)

BeginCallback(nframes) ==
  /\ jackActive
  /\ pc["rt"] = "idle"
  /\ \/ /\ nframes = 1024
        /\ Goto("rt", "idle", "process")
        /\ UNCHANGED <<sync, flag, live, jackActive, ptrs, retval, env>>
     \/ nframes # 1024 /\ End("exited")

(* m_core->process(), then the test of m_cmd_server.                       *)
ProcessBlock ==
  /\ pc["rt"] = "process"
  /\ \/ /\ cmdServer
        /\ Goto("rt", "process", "publish")
        /\ retval' = IF "ProcessorCore" \in live THEN 0 ELSE -1
     \/ /\ ~cmdServer
        /\ Goto("rt", "process", "idle")
        /\ retval' = -2
  /\ UNCHANGED <<sync, flag, live, jackActive, ptrs, env>>

(* m_cmd_server->publish_live_data(): reads m_publisher out of the server. *)
(* In freed memory it may still be there, or not.                          *)
PublishLiveData ==
  \/ /\ Goto("rt", "publish", "idle")
     /\ UNCHANGED <<sync, flag, live, jackActive, ptrs, retval, env>>
  \/ /\ pc["rt"] = "publish"
     /\ "CommandServer" \notin live
     /\ End("crashed")

RtStep == ProcessBlock \/ PublishLiveData

(* jack_shutdown_callback(): the JACK server goes away under an open       *)
(* client.                                                                 *)
JackServerDies ==
  /\ pc["processor"] \notin {"unborn", "begin", "lockStartup", "openJack",
                             "notifyComplete", "done"}
  /\ End("exited")

-----------------------------------------------------------------------------
(* The publisher thread.                                                   *)

(* The whole critical section; bind() throws if the port is taken, and     *)
(* nothing catches it.                                                     *)
PublisherStarts ==
  \/ /\ Goto("publisher", "begin", "notify")
     /\ owner["publisher"] = None
     /\ Raise("publisher_started")
     /\ UNCHANGED <<sync, live, jackActive, ptrs, retval, env>>
  \/ /\ pc["publisher"] = "begin"
     /\ owner["publisher"] = None
     /\ End("crashed")

PublisherNotifies ==
  /\ Goto("publisher", "notify", "announce")
  /\ NotifyOne("publisher")
  /\ UNCHANGED <<owner, checked, flag, live, jackActive, ptrs, retval, env>>

(* The startup message to smoovcontrol.                                    *)
PublisherAnnounces ==
  /\ Goto("publisher", "announce", "loop")
  /\ UNCHANGED <<sync, flag, live, jackActive, ptrs, retval, env>>

PublisherLoops ==
  /\ \/ ~flag["publisher_stop"] /\ Goto("publisher", "loop", "send")
     \/ flag["publisher_stop"] /\ Goto("publisher", "loop", "done")
  /\ UNCHANGED <<sync, flag, live, jackActive, ptrs, retval, env>>

PublisherSends ==
  /\ Goto("publisher", "send", "loop")
  /\ UNCHANGED <<sync, flag, live, jackActive, ptrs, retval, env>>

PublisherStep ==
  \/ PublisherStarts \/ PublisherNotifies \/ PublisherAnnounces
  \/ PublisherLoops \/ PublisherSends

-----------------------------------------------------------------------------
(* The responder thread and its clients.                                   *)

ResponderStarts ==
  \/ /\ Goto("responder", "begin", "notify")
     /\ owner["responder"] = None
     /\ Raise("responder_started")
     /\ UNCHANGED <<sync, live, jackActive, ptrs, retval, env>>
  \/ /\ pc["responder"] = "begin"
     /\ owner["responder"] = None
     /\ End("crashed")

ResponderNotifies ==
  /\ Goto("responder", "notify", "loop")
  /\ NotifyOne("responder")
  /\ UNCHANGED <<owner, checked, flag, live, jackActive, ptrs, retval, env>>

ResponderLoops ==
  /\ \/ ~flag["responder_stop"] /\ Goto("responder", "loop", "poll")
     \/ flag["responder_stop"] /\ Goto("responder", "loop", "done")
  /\ UNCHANGED <<sync, flag, live, jackActive, ptrs, retval, env>>

(* Slip: poll() is given a time-out and its result is not tested.          *)
ResponderReceives_Timeout ==
  /\ Goto("responder", "poll", "handle")
  /\ pending' = pending - 1
  /\ UNCHANGED <<sync, flag, live, jackActive, ptrs, retval, process>>

(* poll() has no time-out: it returns only when a request has arrived.     *)
ResponderReceives ==
  /\ pending > 0
  /\ Goto("responder", "poll", "handle")
  /\ pending' = pending - 1
  /\ UNCHANGED <<sync, flag, live, jackActive, ptrs, retval, process>>

(* handle_command() through m_processor, the reply through m_cmd_server;   *)
(* an uninitialised or a null pointer is dereferenced without a test.      *)
ResponderHandles ==
  \/ /\ procPtr /\ cmdServer
     /\ Goto("responder", "handle", "loop")
     /\ UNCHANGED <<sync, flag, live, jackActive, ptrs, retval, env>>
  \/ /\ ~(procPtr /\ cmdServer)
     /\ pc["responder"] = "handle"
     /\ End("crashed")

ResponderStep ==
  \/ ResponderStarts \/ ResponderNotifies \/ ResponderLoops
  \/ ResponderReceives \/ ResponderHandles

(* A client's request reaches the bound reply socket.                      *)
ClientRequests ==
  /\ pc["responder"] \notin {"unborn", "begin"}
  /\ pending < MaxPending
  /\ pending' = pending + 1
  /\ UNCHANGED <<pc, sync, flag, live, jackActive, ptrs, retval, process>>

-----------------------------------------------------------------------------
Init ==
  /\ pc = [t \in Thread |-> CASE t = "main" -> "go"
                              [] t = "rt"   -> "idle"
                              [] OTHER      -> "unborn"]
  /\ owner = [m \in Monitor |-> None]
  /\ sleeping = [m \in Monitor |-> {}]
  /\ checked = {}
  /\ flag = [f \in Flag |-> FALSE]
  /\ live = {}
  /\ jackActive = FALSE
  /\ cmdServer = FALSE
  /\ procPtr = FALSE
  /\ retval = 0
  /\ pending = 0
  /\ process = "running"

Ended == process # "running" \/ pc["main"] = "done"

Terminated == Ended /\ UNCHANGED vars

ThreadStep ==
  \/ MainStep \/ ProcessorStep \/ RtStep \/ PublisherStep \/ ResponderStep

Environment ==
  \/ PressQ
  \/ \E n \in NFrames : BeginCallback(n)
  \/ JackServerDies
  \/ ClientRequests
  \/ \E m \in Monitor : SpuriousWakeup(m)

Next ==
  \/ ~Ended /\ (ThreadStep \/ Environment)
  \/ Terminated

Spec == Init /\ [][Next]_vars

(* The scheduler runs every runnable thread.  Nothing is assumed of the    *)
(* user, of JACK's clock, of clients or of spurious wake-ups.              *)
ThreadFairness ==
  /\ WF_vars(~Ended /\ MainStep)
  /\ WF_vars(~Ended /\ ProcessorStep)
  /\ WF_vars(~Ended /\ RtStep)
  /\ WF_vars(~Ended /\ PublisherStep)
  /\ WF_vars(~Ended /\ ResponderStep)

FairSpec == Spec /\ ThreadFairness
-----------------------------------------------------------------------------
(* Properties.                                                             *)

(* The places each thread comes to, in the order of its code.              *)
MainPC ==
  {"go", "waitJack", "newPublisher", "waitPublisher", "newResponder",
   "waitResponder", "startReturns", "setProcessor", "setCmdServer",
   "goReturns", "onTheAir", "stopResponder", "joinResponder",
   "stopPublisher", "joinPublisher", "deleteCommandServer",
   "signalShutdown", "notifyShutdown", "waitShutdown", "joinProcessor",
   "deleteProcessor", "done"}

ProcessorPC ==
  {"unborn", "begin", "lockStartup", "openJack", "buildCore", "activateJack",
   "connectPorts", "notifyStarted", "waitSignal", "deactivateJack",
   "closeJack", "notifyComplete", "done"}

RtPC == {"idle", "process", "publish"}

PublisherPC == {"unborn", "begin", "notify", "announce", "loop", "send", "done"}

ResponderPC == {"unborn", "begin", "notify", "loop", "poll", "handle", "done"}

PlaceOf(t) ==
  CASE t = "main"      -> MainPC
    [] t = "processor" -> ProcessorPC
    [] t = "rt"        -> RtPC
    [] t = "publisher" -> PublisherPC
    [] t = "responder" -> ResponderPC

(* Every thread is at a place of its own, every variable in its range.     *)
TypeOK ==
  /\ pc \in [Thread -> UNION {PlaceOf(t) : t \in Thread}]
  /\ \A t \in Thread : pc[t] \in PlaceOf(t)
  /\ owner \in [Monitor -> Thread \cup {None}]
  /\ sleeping \in [Monitor -> SUBSET Thread]
  /\ checked \subseteq Thread
  /\ flag \in [Flag -> BOOLEAN]
  /\ live \subseteq Object
  /\ jackActive \in BOOLEAN
  /\ cmdServer \in BOOLEAN
  /\ procPtr \in BOOLEAN
  /\ retval \in {0, -1, -2}
  /\ pending \in 0..MaxPending
  /\ process \in {"running", "exited", "crashed"}

InGo == pc["main"] \in
  {"waitJack", "newPublisher", "waitPublisher", "newResponder",
   "waitResponder", "startReturns", "setProcessor", "setCmdServer",
   "goReturns"}

InStart == pc["main"] \in
  {"waitPublisher", "newResponder", "waitResponder", "startReturns"}

(* The mutex and condition variable of a monitor exist: the frame or the   *)
(* object they are declared in does.                                       *)
InScope(m) ==
  CASE m = "startup"  -> InGo
    [] m = "shutdown" -> "ProcessorMain" \in live
    [] OTHER          -> InStart

(* The JACK thread is inside the process callback only while the           *)
(* ProcessorMain it was registered with, the core and the buffer vectors   *)
(* exist: start_jack() activates the client last, and ~ProcessorMain runs  *)
(* only after stop() has seen stop_jack() finish.                          *)
CallbackOnLiveObjects ==
  pc["rt"] # "idle" =>
    {"ProcessorMain", "ProcessorCore", "JackBufs"} \subseteq live

(* A mutex that is held exists: no frame of go() or start() and no         *)
(* ProcessorMain goes away under a thread that is in its critical section. *)
HeldMutexInScope ==
  \A m \in Monitor : owner[m] # None => InScope(m)

(* A condition variable about to be notified exists.  The notifying thread *)
(* has released the mutex by then, so what keeps go() and start() from     *)
(* returning is that their wait has not been woken by anything else, such  *)
(* as a spurious wake-up; what keeps ProcessorMain is the join in          *)
(* FMSmoov::stop(), wake-ups or not.                                       *)
NotifiedCondvarInScope ==
  /\ pc["processor"] = "notifyComplete" => InScope("shutdown")
  /\ ~flag["spuriously_woken"] =>
       /\ pc["processor"] = "notifyStarted" => InScope("startup")
       /\ pc["publisher"] = "notify"        => InScope("publisher")
       /\ pc["responder"] = "notify"        => InScope("responder")

(* "FMSmoov is on the air" (fm_smoov.cc:101): once go() has returned, and  *)
(* until the user quits, JACK is calling back, both raw pointers lead to   *)
(* live objects and both command server threads are past their start-up.   *)
OnTheAirMeansWired ==
  pc["main"] = "onTheAir" =>
    /\ jackActive /\ cmdServer /\ procPtr
    /\ {"ProcessorMain", "CommandServer"} \subseteq live
    /\ pc["processor"] \in {"notifyStarted", "waitSignal"}
    /\ pc["publisher"] \in {"notify", "announce", "loop", "send"}
    /\ pc["responder"] \in {"notify", "loop", "poll", "handle"}

(* CommandServer::stop() joins both threads, so neither ever runs with its *)
(* server deleted.                                                         *)
ServerOutlivesItsThreads ==
  \A t \in {"publisher", "responder"} :
    pc[t] \notin {"unborn", "done"} => "CommandServer" \in live

(* Spurious wake-ups end at some time; until then they can take a mutex    *)
(* over and over from a thread that waits for it.                          *)
SpuriousWakeupsEnd == <>[][\A m \in Monitor : ~SpuriousWakeup(m)]_vars

(* go() gets on the air unless the process ends: every start-up handshake  *)
(* completes, with or without spurious wake-ups on the way.                *)
StartupCompletes ==
  SpuriousWakeupsEnd =>
    (pc["main"] = "go" ~> (pc["main"] = "onTheAir" \/ Ended))

(* ProcessorMain::stop() returns and the processor thread is joined: the   *)
(* two notify_one calls on the one cv_shutdown are never lost, even though *)
(* the waiter's mutex is released before each.                             *)
ShutdownHandshake ==
  SpuriousWakeupsEnd => (pc["main"] = "signalShutdown" ~> Ended)

(* After 'q' the program ends.                                             *)
QuitEnds == pc["main"] = "stopResponder" ~> Ended

(* After 'q' the program ends, provided that requests keep coming in: the  *)
(* one that wakes the responder from poll() lets it see its stop flag, and *)
(* every other thread sees its own without help.                           *)
QuitEndsIfAsked ==
  ([]<>(pending > 0) /\ SpuriousWakeupsEnd) => QuitEnds

(* The server the callback publishes through has not been deleted.         *)
PublishOnLiveServer == pc["rt"] = "publish" => "CommandServer" \in live

(* A client that has been told that the processor has started is served    *)
(* through pointers that have been set.                                    *)
AnnouncedMeansServed ==
  /\ pc["publisher"] \in {"loop", "send"}
  /\ pc["responder"] = "handle"
  => procPtr /\ cmdServer
=============================================================================
