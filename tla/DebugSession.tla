---------------------------- MODULE DebugSession ----------------------------
(***************************************************************************)
(* nxdb::DebuggingSession: one debugged process.                           *)
(*                                                                         *)
(* The render thread runs the constructor (attach, read the first event,   *)
(* resume the process, map its memory, start the handler thread) and, when *)
(* the user closes the window, the destructor.  The handler thread waits   *)
(* for debug events and resumes the process after each.  The kernel stops  *)
(* the process at every debug event.  A step is one system call.           *)
(*                                                                         *)
(* Kernel calls are modelled from the result codes the code tests: 0xf401, *)
(* events are still queued; 0xea01, timeout; any call on a closed handle   *)
(* fails.  R_ABORT_UNLESS ends the sysmodule and the kernel then detaches. *)
(***************************************************************************)
EXTENDS Naturals

CONSTANTS
  NumCores,      \* cores tryContinueImpl visits: 4
  AttachEvents,  \* events the kernel queues when a debugger attaches
  MaxRaised,     \* bound: events the process raises under one session
  MaxBlocks      \* bound: blocks mapBlocks maps

ASSUME SessionAssumption ==
  /\ NumCores \in Nat \ {0}
  /\ AttachEvents \in Nat \ {0}
  /\ MaxRaised \in Nat
  /\ MaxBlocks \in Nat

Threads == {"render", "handler"}

VARIABLES
  target,           \* the debugged process: "running", "stopped" or "exited"
  attached,         \* the debug handle is open
  queue,            \* debug events the kernel holds for the handle
  raised,           \* events the process raised under this session
  layoutChanged,    \* its memory map changed since mapBlocks last queried it
  renderPc,         \* where the render thread is in the session's life
  blocks,           \* blocks mapped so far
  ranWhenQueried,   \* history: the process was running when mapBlocks last queried its memory
  handlerPc,        \* where debugEventHandlerThreadFunc is
  mKillThread,
  mShouldContinue,
  core,             \* tryContinueImpl, per thread: calls of svcContinueDebugEvent that succeeded
  gotBusy,          \* tryContinueImpl, per thread: the last one said 0xf401
  aborted           \* "no", or the function whose R_ABORT_UNLESS or diagAbort fired

kernelVars == <<target, attached, queue, raised, layoutChanged>>
blockVars == <<blocks, ranWhenQueried>>
renderVars == <<renderPc, blockVars>>
handlerVars == <<handlerPc, mKillThread, mShouldContinue>>
continueVars == <<core, gotBusy>>
vars == <<kernelVars, renderVars, handlerVars, continueVars, aborted>>

-----------------------------------------------------------------------------
(* The kernel and the debugged process. *)

Signalled == attached /\ (queue > 0 \/ target = "exited")

\* Closing the last debug handle resumes the process and forgets its events.
Detach ==
  /\ attached' = FALSE
  /\ queue' = 0
  /\ target' = IF target = "stopped" THEN "running" ELSE target
  /\ UNCHANGED <<raised, layoutChanged>>

Abort(function) ==
  /\ aborted' = function
  /\ Detach
  /\ UNCHANGED <<renderVars, handlerVars, continueVars>>

TakeEvent ==
  /\ queue' = queue - 1
  /\ UNCHANGED <<target, attached, raised, layoutChanged>>

\* A thread starts or ends, or something is thrown: the process stops.
RaiseEvent ==
  /\ target = "running"
  /\ attached
  /\ raised < MaxRaised
  /\ raised' = raised + 1
  /\ queue' = queue + 1
  /\ target' = "stopped"
  /\ UNCHANGED <<attached, layoutChanged, renderVars, handlerVars, continueVars, aborted>>

\* It ends by itself, or is ended from outside even while stopped.
Exit ==
  /\ target # "exited"
  /\ target' = "exited"
  /\ queue' = IF attached THEN queue + 1 ELSE queue
  /\ UNCHANGED <<attached, raised, layoutChanged, renderVars, handlerVars, continueVars, aborted>>

ChangeLayout ==
  /\ target = "running"
  /\ renderPc \in {"queryMemory", "mapMemory"}
  /\ layoutChanged' = TRUE
  /\ UNCHANGED <<target, attached, queue, raised, renderVars, handlerVars, continueVars, aborted>>

-----------------------------------------------------------------------------
(* tryContinueImpl, called by findName and by the handler thread. *)

InTryContinue(t) ==
  /\ aborted = "no"
  /\ IF t = "render" THEN renderPc = "continue" ELSE handlerPc = "continue"

EnterTryContinue(t) ==
  /\ core' = [core EXCEPT ![t] = 0]
  /\ gotBusy' = [gotBusy EXCEPT ![t] = FALSE]

Unfinished(t) == InTryContinue(t) /\ core[t] < NumCores

\* svcContinueDebugEvent succeeds; the loop goes to the next core.
ContinueOnCore(t) ==
  /\ Unfinished(t)
  /\ ~gotBusy[t]
  /\ attached /\ target # "exited" /\ queue = 0
  /\ target' = "running"
  /\ core' = [core EXCEPT ![t] = @ + 1]
  /\ UNCHANGED <<attached, queue, raised, layoutChanged, renderVars, handlerVars, gotBusy, aborted>>

\* It returns 0xf401: an event arrived in the meantime.
ContinueIsBusy(t) ==
  /\ Unfinished(t)
  /\ ~gotBusy[t]
  /\ attached /\ queue > 0
  /\ gotBusy' = [gotBusy EXCEPT ![t] = TRUE]
  /\ UNCHANGED <<kernelVars, renderVars, handlerVars, core, aborted>>

\* svcGetDebugEvent after 0xf401: the event is dropped, and the call tried again.
DropEvent(t) ==
  /\ Unfinished(t)
  /\ gotBusy[t]
  /\ \/ /\ attached /\ queue > 0
        /\ TakeEvent
        /\ gotBusy' = [gotBusy EXCEPT ![t] = FALSE]
        /\ UNCHANGED <<renderVars, handlerVars, core, aborted>>
     \/ /\ ~(attached /\ queue > 0)
        /\ Abort("tryContinueImpl")

\* It fails, or every core is done.
ContinueFails(t) == Unfinished(t) /\ ~gotBusy[t] /\ (~attached \/ target = "exited")
ContinueSucceeds(t) == InTryContinue(t) /\ core[t] = NumCores

-----------------------------------------------------------------------------
(* The render thread: the constructor. *)

RenderAt(pc) == aborted = "no" /\ renderPc = pc

RenderGoesTo(pc) == renderPc' = pc

StartedAtOnce == "loop"
NotStarted == "none"

\* The user double-clicks a process.  A new object: every member is initialised.
\* svcDebugActiveProcess stops the process, or fails.
Attach ==
  /\ RenderAt("none")
  /\ handlerPc' = NotStarted
  /\ mKillThread' = FALSE
  /\ mShouldContinue' = TRUE
  /\ blocks' = 0
  /\ ranWhenQueried' = FALSE
  /\ raised' = 0
  /\ layoutChanged' = FALSE
  /\ \/ /\ target = "running"
        /\ target' = "stopped"
        /\ attached' = TRUE
        /\ queue' = AttachEvents
        /\ RenderGoesTo("getProcessInfo")
     \/ /\ UNCHANGED <<target, attached, queue>>
        /\ RenderGoesTo("open")
  /\ UNCHANGED <<continueVars, aborted>>

\* The process manager is asked for the process; then findModules reads its memory
\* map, which changes nothing.
GetProcessInfo ==
  /\ RenderAt("getProcessInfo")
  /\ \/ /\ target # "exited"
        /\ RenderGoesTo("findName")
        /\ UNCHANGED <<kernelVars, blockVars, handlerVars, continueVars, aborted>>
     \/ /\ target = "exited"
        /\ Abort("DebuggingSession")

\* findName reads the first event and calls tryContinueImpl.
FindName ==
  /\ RenderAt("findName")
  /\ \/ /\ queue > 0
        /\ TakeEvent
        /\ RenderGoesTo("continue")
        /\ EnterTryContinue("render")
        /\ UNCHANGED <<blockVars, handlerVars, aborted>>
     \/ /\ queue = 0
        /\ Abort("findName")

FindNameReturns ==
  \/ /\ ContinueSucceeds("render")
     /\ RenderGoesTo("queryMemory")
     /\ UNCHANGED <<kernelVars, blockVars, handlerVars, continueVars, aborted>>
  \/ /\ ContinueFails("render")
     /\ Abort("findName")

OldAreas == UNCHANGED layoutChanged      \* mutant
CurrentAreas == layoutChanged' = FALSE

\* mapBlocks collects the areas of one block; it ends when queryMemory fails or
\* when the address space does.
QueryMemory ==
  /\ RenderAt("queryMemory")
  /\ \/ /\ target # "exited"
        /\ blocks < MaxBlocks
        /\ CurrentAreas
        /\ ranWhenQueried' = (target = "running")
        /\ RenderGoesTo("mapMemory")
     \/ /\ UNCHANGED <<layoutChanged, ranWhenQueried>>
        /\ RenderGoesTo("startThread")
  /\ UNCHANGED <<target, attached, queue, raised, blocks, handlerVars, continueVars, aborted>>

\* svcMapProcessMemory fails for an area that is no longer what was queried.  (MemoryMap has
\* those it refuses even then.)
MapMemory ==
  /\ RenderAt("mapMemory")
  /\ \/ /\ ~layoutChanged /\ target # "exited"
        /\ blocks' = blocks + 1
        /\ RenderGoesTo("queryMemory")
        /\ UNCHANGED <<kernelVars, ranWhenQueried, handlerVars, continueVars, aborted>>
     \/ /\ layoutChanged \/ target = "exited"
        /\ Abort("mapBlocks")

StartThread ==
  /\ RenderAt("startThread")
  /\ handlerPc' = "loop"
  /\ RenderGoesTo("open")
  /\ UNCHANGED <<kernelVars, blockVars, mKillThread, mShouldContinue, continueVars, aborted>>

-----------------------------------------------------------------------------
(* The render thread: the destructor. *)

\* The user has closed the window; the mapped blocks are unmapped.
Close ==
  /\ RenderAt("open")
  /\ RenderGoesTo("closeHandle")
  /\ UNCHANGED <<kernelVars, blockVars, handlerVars, continueVars, aborted>>

CloseHandle ==
  /\ RenderAt("closeHandle")
  /\ Detach
  /\ RenderGoesTo("killThread")
  /\ UNCHANGED <<blockVars, handlerVars, continueVars, aborted>>

KillThread ==
  /\ RenderAt("killThread")
  /\ mKillThread' = TRUE
  /\ RenderGoesTo("join")
  /\ UNCHANGED <<kernelVars, blockVars, handlerPc, mShouldContinue, continueVars, aborted>>

ThreadHasEnded == handlerPc \in {"none", "done"}

Join ==
  /\ RenderAt("join")
  /\ ThreadHasEnded
  /\ RenderGoesTo("none")
  /\ UNCHANGED <<kernelVars, blockVars, handlerVars, continueVars, aborted>>

-----------------------------------------------------------------------------
(* The handler thread: debugEventHandlerThreadFunc. *)

HandlerAt(pc) == aborted = "no" /\ handlerPc = pc

HandlerGoesTo(pc) == handlerPc' = pc

TestKillThread ==
  /\ HandlerAt("loop")
  /\ HandlerGoesTo(IF mKillThread THEN "done" ELSE "wait")
  /\ UNCHANGED <<kernelVars, renderVars, mKillThread, mShouldContinue, continueVars, aborted>>

\* svcWaitSynchronization is entered: a closed handle is an error, not a timeout.
WaitSynchronization ==
  /\ HandlerAt("wait")
  /\ \/ /\ attached
        /\ HandlerGoesTo("waiting")
        /\ UNCHANGED <<kernelVars, renderVars, mKillThread, mShouldContinue, continueVars, aborted>>
     \/ /\ ~attached
        /\ Abort("debugEventHandlerThreadFunc")

WaitForEvent == Signalled
WaitAtMost250ms == TRUE

\* It returns: an event is there, or 250 ms have passed without one.
WaitReturns ==
  /\ HandlerAt("waiting")
  /\ WaitAtMost250ms
  /\ HandlerGoesTo(IF Signalled THEN "handleDebugEvents" ELSE "loop")
  /\ UNCHANGED <<kernelVars, renderVars, mKillThread, mShouldContinue, continueVars, aborted>>

ForgetsToContinue == UNCHANGED mShouldContinue
AskToContinue == mShouldContinue' = TRUE

\* handleDebugEvents: every queued event asks for continue_().
HandleDebugEvent ==
  /\ HandlerAt("handleDebugEvents")
  /\ attached /\ queue > 0
  /\ TakeEvent
  /\ AskToContinue
  /\ UNCHANGED <<renderVars, handlerPc, mKillThread, continueVars, aborted>>

EventsHandled ==
  /\ HandlerAt("handleDebugEvents")
  /\ ~(attached /\ queue > 0)
  /\ IF mShouldContinue
     THEN HandlerGoesTo("continue") /\ EnterTryContinue("handler")
     ELSE HandlerGoesTo("loop") /\ UNCHANGED continueVars
  /\ UNCHANGED <<kernelVars, renderVars, mKillThread, mShouldContinue, aborted>>

HandlerContinued ==
  /\ ContinueSucceeds("handler") \/ ContinueFails("handler")
  /\ mShouldContinue' = FALSE
  /\ HandlerGoesTo("loop")
  /\ UNCHANGED <<kernelVars, renderVars, mKillThread, continueVars, aborted>>

-----------------------------------------------------------------------------
Init ==
  /\ target = "running"
  /\ attached = FALSE
  /\ queue = 0
  /\ raised = 0
  /\ layoutChanged = FALSE
  /\ renderPc = "none"
  /\ blocks = 0
  /\ ranWhenQueried = FALSE
  /\ handlerPc = "none"
  /\ mKillThread = FALSE
  /\ mShouldContinue = TRUE
  /\ core = [t \in Threads |-> 0]
  /\ gotBusy = [t \in Threads |-> FALSE]
  /\ aborted = "no"

TryContinue(t) == ContinueOnCore(t) \/ ContinueIsBusy(t) \/ DropEvent(t)

Constructor ==
  \/ GetProcessInfo
  \/ FindName
  \/ TryContinue("render")
  \/ FindNameReturns
  \/ QueryMemory
  \/ MapMemory
  \/ StartThread

Destructor == CloseHandle \/ KillThread \/ Join

Handler ==
  \/ TestKillThread
  \/ WaitSynchronization
  \/ WaitReturns
  \/ HandleDebugEvent
  \/ EventsHandled
  \/ TryContinue("handler")
  \/ HandlerContinued

Process == RaiseEvent \/ Exit \/ ChangeLayout

Next == Attach \/ Constructor \/ Close \/ Destructor \/ Handler \/ Process

\* The two threads run; the user need not act and the process need not stop.
Fairness ==
  /\ WF_vars(Constructor)
  /\ WF_vars(Destructor)
  /\ WF_vars(Handler)

Spec == Init /\ [][Next]_vars
FairSpec == Spec /\ Fairness

-----------------------------------------------------------------------------
(* Properties. *)

\* Type correctness of the kernel's side, of both threads and of the session.
TypeOK ==
  /\ target \in {"running", "stopped", "exited"}
  /\ attached \in BOOLEAN
  /\ queue \in Nat
  /\ raised \in Nat
  /\ layoutChanged \in BOOLEAN
  /\ renderPc \in {"none", "getProcessInfo", "findName", "continue", "queryMemory", "mapMemory",
                   "startThread", "open", "closeHandle", "killThread", "join"}
  /\ blocks \in 0 .. MaxBlocks
  /\ ranWhenQueried \in BOOLEAN
  /\ handlerPc \in {"none", "loop", "wait", "waiting", "handleDebugEvents", "continue", "done"}
  /\ mKillThread \in BOOLEAN
  /\ mShouldContinue \in BOOLEAN
  /\ core \in [Threads -> 0 .. NumCores]
  /\ gotBusy \in [Threads -> BOOLEAN]
  /\ aborted \in {"no", "DebuggingSession", "findName", "tryContinueImpl", "mapBlocks",
                  "debugEventHandlerThreadFunc"}

\* An event taken from the queue is never forgotten: while the process is stopped
\* with nothing queued, a thread has taken its event and is about to resume it.
StoppedIsAttended ==
  target = "stopped" /\ queue = 0 =>
    \/ renderPc = "continue"
    \/ handlerPc = "handleDebugEvents" /\ mShouldContinue
    \/ handlerPc = "continue"

\* Both threads take events from one queue and abort when it is empty: they never
\* race for it.  Up to findName the constructor gives up only on a process that has exited.
\* mapBlocks gives up only on one that has exited or that the constructor itself had resumed
\* and that was running when its memory was queried: what was queried from a stopped process
\* still holds when it is mapped, for nobody resumes it in between.  The handler thread gives
\* up only while the destructor is at work.
AbortsAreExplained ==
  /\ aborted \in {"DebuggingSession", "findName"} => target = "exited"
  /\ aborted = "mapBlocks" => target = "exited" \/ ranWhenQueried
  /\ aborted \in {"tryContinueImpl", "debugEventHandlerThreadFunc"} =>
       renderPc \in {"killThread", "join"}

\* The handler thread uses the session's members: it ends before the session does.
ThreadEndsFirst ==
  handlerPc \in {"none", "done"} \/ renderPc \in {"open", "closeHandle", "killThread", "join"}

\* A debugged process does not stay stopped.
ResumedEventually == target = "stopped" ~> target # "stopped"

\* What a stopped process still has to wait for, in steps: its queued events, ...
RenderLeft ==
  CASE renderPc = "getProcessInfo" -> 2 * MaxBlocks + 8
    [] renderPc = "findName"       -> 2 * MaxBlocks + 7
    [] renderPc = "continue"       -> 2 * MaxBlocks + (IF core["render"] = NumCores THEN 4
                                                       ELSE IF gotBusy["render"] THEN 5 ELSE 6)
    [] renderPc = "queryMemory"    -> 2 * (MaxBlocks - blocks) + 3
    [] renderPc = "mapMemory"      -> 2 * (MaxBlocks - blocks) + 2
    [] renderPc = "startThread"    -> 2
    [] renderPc = "open"           -> 1
    [] OTHER                       -> 0

\* ... and the handler thread, which goes round once.
HandlerLeft ==
  CASE handlerPc = "loop"              -> 6
    [] handlerPc = "wait"              -> 5
    [] handlerPc = "waiting"           -> 4
    [] handlerPc = "handleDebugEvents" -> 3
    [] handlerPc = "continue"          -> IF core["handler"] = NumCores THEN 7
                                          ELSE IF gotBusy["handler"] THEN 1 ELSE 2
    [] OTHER                           -> 8

StopLeft == RenderLeft + HandlerLeft + 2 * queue

\* There is no step that a stopped process could wait through without getting nearer to
\* being resumed, whichever thread takes it, and whatever is queued behind the event.
StopCountsDown ==
  [][target = "stopped" /\ target' = "stopped" => StopLeft' < StopLeft]_vars

\* The destructor's join() returns, so that the window's thread goes on.
JoinReturns == renderPc = "join" ~> (renderPc # "join" \/ aborted # "no")

\* What join() still has to wait for: the handler thread does not go round again.
JoinLeft ==
  (IF target = "exited" THEN 0 ELSE 1)
    + (IF aborted # "no" THEN 0
       ELSE CASE handlerPc = "handleDebugEvents"               -> 3
              [] handlerPc \in {"continue", "waiting", "wait"} -> 2
              [] handlerPc = "loop"                            -> 1
              [] OTHER                                         -> 0)

\* The join is over after three steps of the handler thread, in which the process may exit.
JoinCountsDown ==
  [][renderPc = "join" /\ renderPc' = "join" => JoinLeft' < JoinLeft]_vars

\* DebuggingSession.cpp:168 asserts that waiting for the debug handle only ever
\* succeeds or times out.
WaitNeverFails == aborted # "debugEventHandlerThreadFunc"
=============================================================================
