------------------------- MODULE DebugSessionProofs -------------------------
(***************************************************************************)
(* Proofs about DebugSession, for any number of cores, of events queued at *)
(* attach, of events raised and of mapped blocks; and, in the second part, *)
(* about MemoryMap, for address spaces of any size and memory of any       *)
(* layout.                                                                 *)
(***************************************************************************)
EXTENDS DebugSession, MemoryMap, TLAPS, SequenceTheorems, FiniteSetTheorems,
        WellFoundedInduction

Constructing ==
  renderPc \in {"getProcessInfo", "findName", "continue", "queryMemory", "mapMemory",
                "startThread"}

HandlerRuns == handlerPc \notin {"none", "done"}

\* Who may rely on the debug handle.
HandleOpen ==
  aborted = "no" =>
    /\ Constructing => attached
    /\ HandlerRuns /\ ~attached => renderPc \in {"killThread", "join"}

StoppedMeansAttached == target = "stopped" => attached

\* An event that the kernel said is queued stays queued until this thread takes it.
EventsKept ==
  /\ aborted = "no" /\ renderPc \in {"getProcessInfo", "findName"} => queue > 0
  /\ \A t \in Threads : InTryContinue(t) /\ gotBusy[t] /\ attached => queue > 0

\* A thread that has resumed the process on the last core leaves no event behind.
LastCoreResumes ==
  \A t \in Threads :
    InTryContinue(t) /\ core[t] = NumCores /\ target = "stopped" => queue > 0

\* mapBlocks is in its loop only while the process has blocks to map.
BlocksLeft == renderPc = "mapMemory" => blocks < MaxBlocks

\* A process that was stopped when its memory was queried stays stopped until it is mapped.
NotResumed ==
  aborted = "no" /\ renderPc = "mapMemory" /\ ~ranWhenQueried =>
    target # "running" /\ ~layoutChanged

IInv ==
  /\ TypeOK
  /\ BlocksLeft
  /\ NotResumed
  /\ StoppedIsAttended
  /\ AbortsAreExplained
  /\ ThreadEndsFirst
  /\ HandleOpen
  /\ StoppedMeansAttached
  /\ EventsKept
  /\ LastCoreResumes

-----------------------------------------------------------------------------
(* The conjuncts of the invariant and the tuples of variables are used in    *)
(* every step.                                                               *)
USE DEF IInv, TypeOK, StoppedIsAttended, AbortsAreExplained, ThreadEndsFirst, HandleOpen,
        StoppedMeansAttached, EventsKept, LastCoreResumes, Constructing, HandlerRuns, BlocksLeft,
        NotResumed, InTryContinue, Threads, vars, kernelVars, renderVars, blockVars, handlerVars, continueVars

LEMMA InitIInv == Init => IInv
<1> SUFFICES ASSUME Init PROVE IInv
  OBVIOUS
<1>1. TypeOK /\ BlocksLeft
  <2>1. queue \in Nat /\ raised \in Nat /\ blocks \in 0 .. MaxBlocks /\ BlocksLeft
    BY SessionAssumption DEF Init
  <2>2. core \in [Threads -> 0 .. NumCores]
    BY SessionAssumption DEF Init
  <2>3. gotBusy \in [Threads -> BOOLEAN]
    BY DEF Init
  <2>4. /\ attached \in BOOLEAN /\ layoutChanged \in BOOLEAN /\ ranWhenQueried \in BOOLEAN
        /\ mKillThread \in BOOLEAN /\ mShouldContinue \in BOOLEAN
    BY DEF Init
  <2>5. /\ target \in {"running", "stopped", "exited"}
        /\ renderPc = "none" /\ handlerPc = "none" /\ aborted = "no"
    BY DEF Init
  <2> QED
    BY <2>1, <2>2, <2>3, <2>4, <2>5
<1>2. StoppedIsAttended
  BY SessionAssumption DEF Init
<1>3. AbortsAreExplained
  BY SessionAssumption DEF Init
<1>4. ThreadEndsFirst
  BY SessionAssumption DEF Init
<1>5. HandleOpen
  BY SessionAssumption DEF Init
<1>6. StoppedMeansAttached
  BY SessionAssumption DEF Init
<1>7. EventsKept
  BY SessionAssumption DEF Init
<1>8. LastCoreResumes /\ NotResumed
  BY SessionAssumption DEF Init
<1> QED
  BY <1>1, <1>2, <1>3, <1>4, <1>5, <1>6, <1>7, <1>8

\* Aborting closes the handle, so nothing is stopped any more; it must have a reason.
LEMMA AbortKeepsIInv ==
  ASSUME IInv,
         NEW f \in {"DebuggingSession", "findName", "tryContinueImpl", "mapBlocks",
                    "debugEventHandlerThreadFunc"},
         Abort(f),
         f \in {"DebuggingSession", "findName"} => target = "exited",
         f = "mapBlocks" => target = "exited" \/ ranWhenQueried,
         f \in {"tryContinueImpl", "debugEventHandlerThreadFunc"} =>
           renderPc \in {"killThread", "join"}
  PROVE  IInv'
<1>1. /\ aborted' = f /\ f # "no"
      /\ attached' = FALSE /\ queue' = 0
      /\ target' = IF target = "stopped" THEN "running" ELSE target
      /\ UNCHANGED <<raised, layoutChanged, renderVars, handlerVars, continueVars>>
  BY DEF Abort, Detach
<1>2. target' # "stopped" /\ (target = "exited" => target' = "exited")
  BY <1>1
<1>3. target' \in {"running", "stopped", "exited"} /\ queue' \in Nat /\ attached' \in BOOLEAN
  BY <1>1
<1>4. TypeOK'
  BY <1>1, <1>3
<1> QED
  BY <1>1, <1>2, <1>4

\* What the process does by itself.
LEMMA ProcessKeepsIInv == IInv /\ Process => IInv'
<1> SUFFICES ASSUME IInv, Process PROVE IInv'
  OBVIOUS
<1>1. CASE RaiseEvent
  BY <1>1 DEF RaiseEvent
<1>2. CASE Exit
  BY <1>2 DEF Exit
<1>3. CASE ChangeLayout
  BY <1>3 DEF ChangeLayout
<1> QED
  BY <1>1, <1>2, <1>3 DEF Process

\* tryContinueImpl, in either thread: the process is resumed on each core, and an
\* event that comes in between is dropped before the next attempt.
LEMMA TryContinueKeepsIInv == ASSUME IInv, NEW t \in Threads, TryContinue(t) PROVE IInv'
<1>1. CASE ContinueOnCore(t)
  <2>1. TypeOK' /\ BlocksLeft'
    <3>1. core' = [core EXCEPT ![t] = core[t] + 1] /\ core[t] < NumCores /\ target' = "running"
          /\ UNCHANGED <<attached, queue, raised, layoutChanged, renderVars, handlerVars,
                         gotBusy, aborted>>
      BY <1>1 DEF ContinueOnCore, Unfinished
    <3>2. core' \in [Threads -> 0 .. NumCores]
      BY <3>1, SessionAssumption
    <3> QED
      BY <3>1, <3>2
  <2>2. StoppedIsAttended'
    BY <1>1 DEF ContinueOnCore, Unfinished
  <2>3. AbortsAreExplained'
    BY <1>1 DEF ContinueOnCore, Unfinished
  <2>4. ThreadEndsFirst'
    BY <1>1 DEF ContinueOnCore, Unfinished
  <2>5. HandleOpen'
    BY <1>1 DEF ContinueOnCore, Unfinished
  <2>6. StoppedMeansAttached'
    BY <1>1 DEF ContinueOnCore, Unfinished
  <2>7. EventsKept'
    BY <1>1 DEF ContinueOnCore, Unfinished
  <2>8. LastCoreResumes'
    BY <1>1 DEF ContinueOnCore, Unfinished
  <2>9. NotResumed'
    BY <1>1 DEF ContinueOnCore, Unfinished
  <2> QED
    BY <2>1, <2>2, <2>3, <2>4, <2>5, <2>6, <2>7, <2>8, <2>9
<1>2. CASE ContinueIsBusy(t)
  BY <1>2 DEF ContinueIsBusy, Unfinished
<1>3. CASE DropEvent(t)
  <2>1. CASE /\ attached /\ queue > 0
             /\ TakeEvent
             /\ gotBusy' = [gotBusy EXCEPT ![t] = FALSE]
             /\ UNCHANGED <<renderVars, handlerVars, core, aborted>>
    BY <1>3, <2>1, SessionAssumption DEF DropEvent, Unfinished, TakeEvent
  <2>2. CASE ~(attached /\ queue > 0) /\ Abort("tryContinueImpl")
    <3>1. ~attached
      BY <1>3, <2>2 DEF DropEvent, Unfinished
    <3>2. renderPc \in {"killThread", "join"}
      BY <1>3, <3>1 DEF DropEvent, Unfinished
    <3> QED
      BY <2>2, <3>2, AbortKeepsIInv
  <2> QED
    BY <1>3, <2>1, <2>2 DEF DropEvent
<1> QED
  BY <1>1, <1>2, <1>3 DEF TryContinue

\* The user opens and closes the session.
LEMMA UserKeepsIInv == IInv /\ (Attach \/ Close) => IInv'
<1> SUFFICES ASSUME IInv, Attach \/ Close PROVE IInv'
  OBVIOUS
<1>1. CASE Attach
  <2>1. /\ aborted = "no" /\ aborted' = "no" /\ renderPc = "none"
        /\ handlerPc' = "none" /\ mKillThread' = FALSE /\ mShouldContinue' = TRUE
        /\ blocks' = 0 /\ ranWhenQueried' = FALSE /\ raised' = 0 /\ layoutChanged' = FALSE
        /\ UNCHANGED continueVars
    BY <1>1 DEF Attach, NotStarted, RenderAt
  <2>2. CASE /\ target' = "stopped" /\ attached' = TRUE /\ queue' = AttachEvents
             /\ renderPc' = "getProcessInfo"
    <3>1. queue' > 0 /\ queue' \in Nat /\ 0 \in 0 .. MaxBlocks
      BY <2>2, SessionAssumption
    <3>2. TypeOK'
      BY <2>1, <2>2, <3>1
    <3> QED
      BY <2>1, <2>2, <3>1, <3>2
  <2>3. CASE UNCHANGED <<target, attached, queue>> /\ renderPc' = "open"
    <3>1. 0 \in 0 .. MaxBlocks
      BY SessionAssumption
    <3>2. TypeOK'
      BY <2>1, <2>3, <3>1
    <3> QED
      BY <2>1, <2>3, <3>2
  <2> QED
    BY <1>1, <2>2, <2>3 DEF Attach, RenderGoesTo
<1>2. CASE Close
  BY <1>2 DEF Close, RenderAt, RenderGoesTo
<1> QED
  BY <1>1, <1>2

\* The constructor: it alone takes events, until it has started the thread.
LEMMA ConstructorKeepsIInv == IInv /\ Constructor => IInv'
<1> SUFFICES ASSUME IInv, Constructor PROVE IInv'
  OBVIOUS
<1> USE DEF RenderAt, RenderGoesTo
<1>1. CASE GetProcessInfo
  BY <1>1, AbortKeepsIInv DEF GetProcessInfo
<1>2. CASE FindName
  <2>0. queue > 0 /\ aborted = "no" /\ renderPc = "findName"
    BY <1>2 DEF FindName
  <2>1. /\ queue' = queue - 1
        /\ UNCHANGED <<target, attached, raised, layoutChanged>>
        /\ renderPc' = "continue"
        /\ core' = [core EXCEPT !["render"] = 0]
        /\ gotBusy' = [gotBusy EXCEPT !["render"] = FALSE]
        /\ UNCHANGED <<blockVars, handlerVars, aborted>>
    <3>1. ~(queue = 0)
      BY <2>0
    <3> QED
      BY <1>2, <3>1, Zenon DEF FindName, TakeEvent, EnterTryContinue
  <2>2. core'["render"] = 0 /\ ~gotBusy'["render"] /\ NumCores # 0
    BY <2>0, <2>1, SessionAssumption
  <2>3. TypeOK'
    BY <2>0, <2>1, SessionAssumption
  <2> QED
    BY <2>0, <2>1, <2>2, <2>3
<1>3. CASE FindNameReturns
  <2>1. CASE ContinueFails("render") /\ Abort("findName")
    <3>1. target = "exited"
      BY <2>1 DEF ContinueFails, Unfinished
    <3> QED
      BY <2>1, <3>1, AbortKeepsIInv
  <2>2. CASE /\ ContinueSucceeds("render")
             /\ renderPc' = "queryMemory"
             /\ UNCHANGED <<kernelVars, blockVars, handlerVars, continueVars, aborted>>
    BY <2>2 DEF ContinueSucceeds
  <2> QED
    BY <1>3, <2>1, <2>2 DEF FindNameReturns
<1>4. CASE QueryMemory
  BY <1>4 DEF QueryMemory, CurrentAreas
<1>5. CASE MapMemory
  <2>1. CASE /\ Abort("mapBlocks")
             /\ layoutChanged \/ target = "exited"
             /\ renderPc = "mapMemory" /\ aborted = "no"
    <3>1. target = "exited" \/ ranWhenQueried
      BY <2>1
    <3> QED
      BY <2>1, <3>1, AbortKeepsIInv
  <2>2. CASE /\ renderPc = "mapMemory" /\ blocks' = blocks + 1 /\ renderPc' = "queryMemory"
             /\ UNCHANGED <<kernelVars, ranWhenQueried, handlerVars, continueVars, aborted>>
    <3>1. blocks' \in 0 .. MaxBlocks
      BY <2>2, SessionAssumption
    <3> QED
      BY <2>2, <3>1
  <2> QED
    BY <1>5, <2>1, <2>2 DEF MapMemory
<1>6. CASE StartThread
  BY <1>6 DEF StartThread
<1>7. CASE TryContinue("render")
  BY <1>7, TryContinueKeepsIInv
<1> QED
  BY <1>1, <1>2, <1>3, <1>4, <1>5, <1>6, <1>7 DEF Constructor

\* The destructor.
LEMMA DestructorKeepsIInv == IInv /\ Destructor => IInv'
<1> SUFFICES ASSUME IInv, Destructor PROVE IInv'
  OBVIOUS
<1> USE DEF RenderAt, RenderGoesTo
<1>1. CASE CloseHandle
  BY <1>1 DEF CloseHandle, Detach
<1>2. CASE KillThread
  BY <1>2 DEF KillThread
<1>3. CASE Join
  BY <1>3 DEF Join, ThreadHasEnded
<1> QED
  BY <1>1, <1>2, <1>3 DEF Destructor

\* The handler thread.
LEMMA HandlerKeepsIInv == IInv /\ Handler => IInv'
<1> SUFFICES ASSUME IInv, Handler PROVE IInv'
  OBVIOUS
<1> USE DEF HandlerAt, HandlerGoesTo
<1>1. CASE TestKillThread
  BY <1>1 DEF TestKillThread
<1>2. CASE WaitSynchronization
  BY <1>2, AbortKeepsIInv DEF WaitSynchronization
<1>3. CASE WaitReturns
  BY <1>3 DEF WaitReturns
<1>4. CASE HandleDebugEvent
  BY <1>4 DEF HandleDebugEvent, TakeEvent, AskToContinue
<1>5. CASE EventsHandled
  <2>1. /\ aborted = "no" /\ handlerPc = "handleDebugEvents" /\ ~(attached /\ queue > 0)
        /\ UNCHANGED <<kernelVars, renderVars, mKillThread, mShouldContinue, aborted>>
    BY <1>5 DEF EventsHandled
  <2>2. CASE mShouldContinue /\ handlerPc' = "continue"
             /\ core' = [core EXCEPT !["handler"] = 0]
             /\ gotBusy' = [gotBusy EXCEPT !["handler"] = FALSE]
    <3>1. core'["handler"] = 0 /\ ~gotBusy'["handler"] /\ NumCores # 0
      BY <2>2, SessionAssumption
    <3>2. TypeOK'
      BY <2>1, <2>2, SessionAssumption
    <3> QED
      BY <2>1, <2>2, <3>1, <3>2
  <2>3. CASE ~mShouldContinue /\ handlerPc' = "loop" /\ UNCHANGED continueVars
    BY <2>1, <2>3
  <2> QED
    BY <1>5, <2>2, <2>3 DEF EventsHandled, EnterTryContinue
<1>6. CASE TryContinue("handler")
  BY <1>6, TryContinueKeepsIInv
<1>7. CASE HandlerContinued
  <2>1. target = "stopped" => queue > 0
    BY <1>7 DEF HandlerContinued, ContinueSucceeds, ContinueFails, Unfinished
  <2>2. /\ handlerPc = "continue" /\ handlerPc' = "loop" /\ mShouldContinue' = FALSE
        /\ UNCHANGED <<kernelVars, renderVars, mKillThread, continueVars, aborted>>
    BY <1>7 DEF HandlerContinued, ContinueSucceeds, ContinueFails, Unfinished
  <2>3. TypeOK'
    BY <2>2
  <2> QED
    BY <2>1, <2>2, <2>3
<1> QED
  BY <1>1, <1>2, <1>3, <1>4, <1>5, <1>6, <1>7 DEF Handler

LEMMA NextKeepsIInv == IInv /\ [Next]_vars => IInv'
<1>1. IInv /\ UNCHANGED vars => IInv'
  OBVIOUS
<1> QED
  BY <1>1, ProcessKeepsIInv, UserKeepsIInv, ConstructorKeepsIInv, DestructorKeepsIInv,
     HandlerKeepsIInv DEF Next

HIDE DEF IInv, TypeOK, StoppedIsAttended, AbortsAreExplained, ThreadEndsFirst, HandleOpen,
         StoppedMeansAttached, EventsKept, LastCoreResumes, Constructing, HandlerRuns, BlocksLeft,
         NotResumed, InTryContinue, Threads, vars, kernelVars, renderVars, blockVars, handlerVars, continueVars

LEMMA IInvHolds == Spec => []IInv
  BY InitIInv, NextKeepsIInv, PTL DEF Spec

\* Type correctness of a debugging session.
THEOREM TypeCorrect == Spec => []TypeOK
<1>1. IInv => TypeOK
  BY DEF IInv
<1> QED
  BY <1>1, IInvHolds, PTL

\* No debug event is taken and then forgotten: a stopped process with nothing
\* queued has a thread about to resume it, on any number of cores.
THEOREM NoEventForgotten == Spec => []StoppedIsAttended
<1>1. IInv => StoppedIsAttended
  BY DEF IInv
<1> QED
  BY <1>1, IInvHolds, PTL

\* The constructor gives up on a process that is gone, or in mapBlocks on one that it has
\* resumed and that was running when its memory was queried; and the handler thread's
\* assertions fail only between the closing of the handle and the join.
THEOREM EveryAbortExplained == Spec => []AbortsAreExplained
<1>1. IInv => AbortsAreExplained
  BY DEF IInv
<1> QED
  BY <1>1, IInvHolds, PTL

\* The handler thread never outlives the session it belongs to.
THEOREM ThreadNeverOutlives == Spec => []ThreadEndsFirst
<1>1. IInv => ThreadEndsFirst
  BY DEF IInv
<1> QED
  BY <1>1, IInvHolds, PTL

-----------------------------------------------------------------------------
(* Countdowns.  What the two liveness properties of a session rest on is that  *)
(* nobody goes round without getting nearer to the end.                      *)

\* The order in which the destructor ends things.
KillOrder ==
  /\ attached => aborted = "no" /\ renderPc \notin {"none", "killThread", "join"}
  /\ mKillThread => renderPc \in {"none", "join"}
  /\ renderPc = "join" => mKillThread

LEMMA AbortKeepsKillOrder ==
  ASSUME NEW f, KillOrder, Abort(f)
  PROVE  KillOrder'
BY DEF KillOrder, Abort, Detach, renderVars, blockVars, handlerVars

LEMMA StepKillOrder ==
  ASSUME TypeOK, KillOrder, [Next]_vars
  PROVE  KillOrder'
<1> USE DEF vars, kernelVars, renderVars, blockVars, handlerVars, continueVars, RenderAt, RenderGoesTo,
            HandlerAt, HandlerGoesTo
<1>1. CASE UNCHANGED <<attached, aborted, renderPc, mKillThread>>
  BY <1>1 DEF KillOrder
<1>2. CASE \E f : Abort(f)
  BY <1>2, AbortKeepsKillOrder
<1>3. CASE Attach
  BY <1>3 DEF Attach, KillOrder
<1>4. CASE Close \/ Destructor
  BY <1>4 DEF Close, Destructor, CloseHandle, KillThread, Join, Detach, KillOrder, TypeOK
<1>5. CASE GetProcessInfo \/ FindName \/ FindNameReturns \/ QueryMemory \/ MapMemory \/ StartThread
  BY <1>2, <1>5
  DEF GetProcessInfo, FindName, FindNameReturns, ContinueSucceeds, InTryContinue, QueryMemory,
      MapMemory, StartThread, TakeEvent, EnterTryContinue, KillOrder
<1>6. ASSUME NEW t \in Threads, TryContinue(t) PROVE KillOrder'
  BY <1>1, <1>2, <1>6 DEF TryContinue, ContinueOnCore, ContinueIsBusy, DropEvent, TakeEvent
<1>7. CASE Handler
  BY <1>1, <1>2, <1>6, <1>7
  DEF Handler, TestKillThread, WaitSynchronization, WaitReturns, HandleDebugEvent, TakeEvent,
      EventsHandled, EnterTryContinue, HandlerContinued, Threads
<1>8. CASE Process
  BY <1>1, <1>8 DEF Process, RaiseEvent, Exit, ChangeLayout
<1> QED BY <1>1, <1>3, <1>4, <1>5, <1>6, <1>7, <1>8 DEF Next, Constructor, Threads

LEMMA CountInv == Spec => [](IInv /\ KillOrder)
<1>1. Init => KillOrder
  BY DEF Init, KillOrder
<1>2. IInv /\ KillOrder /\ [Next]_vars => KillOrder'
  BY StepKillOrder DEF IInv
<1> QED BY <1>1, <1>2, IInvHolds, PTL DEF Spec

LEMMA LeftType ==
  ASSUME TypeOK
  PROVE  RenderLeft \in Nat /\ HandlerLeft \in Nat /\ queue \in Nat
BY SessionAssumption DEF TypeOK, RenderLeft, HandlerLeft

LEMMA LeftKept ==
  /\ UNCHANGED <<renderPc, blocks, core, gotBusy>> => RenderLeft' = RenderLeft
  /\ UNCHANGED <<handlerPc, core, gotBusy>> => HandlerLeft' = HandlerLeft
BY DEF RenderLeft, HandlerLeft

\* A stopped process has its debugger, and that is not ending.
LEMMA StoppedHas ==
  ASSUME IInv, KillOrder, target = "stopped"
  PROVE  /\ attached /\ aborted = "no" /\ ~mKillThread
         /\ renderPc \in {"getProcessInfo", "findName", "continue", "queryMemory", "mapMemory",
                          "startThread", "open", "closeHandle"}
         /\ renderPc \notin {"open", "closeHandle"} => handlerPc \in {"none", "done"}
BY DEF IInv, KillOrder, StoppedMeansAttached, ThreadEndsFirst, TypeOK

\* A step of one thread is worth one, an event two.
LEMMA Falls ==
  ASSUME NEW r \in Nat, NEW h \in Nat, NEW q \in Nat,
         NEW r1 \in Nat, NEW h1 \in Nat, NEW q1 \in Nat,
         \/ r1 < r /\ h1 = h /\ q1 = q
         \/ r1 = r /\ h1 < h /\ q1 = q
         \/ r1 = r + 1 /\ h1 = h /\ q1 = q - 1
         \/ r1 = r /\ h1 = h + 1 /\ q1 = q - 1
         \/ r1 < r /\ h1 = h /\ q1 = q - 1
  PROVE  r1 + h1 + 2 * q1 < r + h + 2 * q
OBVIOUS

LEMMA StepStopLeft ==
  ASSUME IInv, KillOrder, Next, target = "stopped", target' = "stopped"
  PROVE  StopLeft' < StopLeft
<1> USE DEF vars, kernelVars, renderVars, blockVars, handlerVars, continueVars, RenderAt, RenderGoesTo,
            HandlerAt, HandlerGoesTo
<1>0. /\ attached /\ aborted = "no" /\ ~mKillThread
      /\ renderPc \in {"getProcessInfo", "findName", "continue", "queryMemory", "mapMemory",
                       "startThread", "open", "closeHandle"}
      /\ renderPc \notin {"open", "closeHandle"} => handlerPc \in {"none", "done"}
  BY StoppedHas
<1>1. RenderLeft \in Nat /\ HandlerLeft \in Nat /\ queue \in Nat /\ blocks \in 0 .. MaxBlocks /\ MaxBlocks \in Nat
  BY LeftType, SessionAssumption DEF IInv, TypeOK
<1>2. IInv'
  BY NextKeepsIInv
<1>3. RenderLeft' \in Nat /\ HandlerLeft' \in Nat /\ queue' \in Nat /\ blocks' \in 0 .. MaxBlocks
  <2>1. TypeOK'
    BY <1>2 DEF IInv
  <2>2. blocks' \in 0 .. MaxBlocks /\ queue' \in Nat
    BY <2>1 DEF TypeOK
  <2> QED BY <1>1, <2>2 DEF RenderLeft, HandlerLeft
<1>4. \A f : ~Abort(f)
  BY DEF Abort, Detach
<1>5. ASSUME NEW t \in Threads, TryContinue(t) PROVE StopLeft' < StopLeft
  <2>1. ~ContinueOnCore(t)
    BY DEF ContinueOnCore
  <2>2. /\ core' = core /\ UNCHANGED <<renderPc, blocks, handlerPc>>
        /\ core[t] < NumCores /\ InTryContinue(t)
        /\ \/ ~gotBusy[t] /\ gotBusy' = [gotBusy EXCEPT ![t] = TRUE] /\ queue' = queue
           \/ gotBusy[t] /\ gotBusy' = [gotBusy EXCEPT ![t] = FALSE] /\ queue' = queue - 1
    BY <1>4, <1>5, <2>1 DEF TryContinue, ContinueIsBusy, DropEvent, TakeEvent, Unfinished
  <2>3. core[t] # NumCores /\ gotBusy \in [Threads -> BOOLEAN]
    BY <2>2, SessionAssumption DEF IInv, TypeOK
  <2>4. CASE t = "render"
    <3>1. renderPc = "continue"
      BY <2>2, <2>4 DEF InTryContinue
    <3>2. HandlerLeft' = HandlerLeft
      BY <1>0, <2>2, <3>1 DEF HandlerLeft
    <3>3. /\ RenderLeft  = 2 * MaxBlocks + (IF gotBusy[t] THEN 5 ELSE 6)
          /\ RenderLeft' = 2 * MaxBlocks + (IF gotBusy'[t] THEN 5 ELSE 6)
      BY <2>2, <2>3, <2>4, <3>1 DEF RenderLeft
    <3>4. \/ RenderLeft' < RenderLeft /\ queue' = queue
          \/ RenderLeft' = RenderLeft + 1 /\ queue' = queue - 1
      BY <1>1, <2>2, <2>3, <3>3
    <3> QED BY <1>1, <1>3, <3>2, <3>4, Falls DEF StopLeft
  <2>5. CASE t = "handler"
    <3>1. handlerPc = "continue"
      BY <2>2, <2>5 DEF InTryContinue
    <3>2. RenderLeft' = RenderLeft
      BY <1>0, <2>2, <3>1 DEF RenderLeft
    <3>3. /\ HandlerLeft  = (IF gotBusy[t] THEN 1 ELSE 2)
          /\ HandlerLeft' = (IF gotBusy'[t] THEN 1 ELSE 2)
      BY <2>2, <2>3, <2>5, <3>1 DEF HandlerLeft
    <3>4. \/ HandlerLeft' < HandlerLeft /\ queue' = queue
          \/ HandlerLeft' = HandlerLeft + 1 /\ queue' = queue - 1
      BY <2>2, <2>3, <3>3
    <3> QED BY <1>1, <1>3, <3>2, <3>4, Falls DEF StopLeft
  <2> QED BY <2>4, <2>5 DEF Threads
<1>6. CASE GetProcessInfo
  <2>1. renderPc = "getProcessInfo" /\ renderPc' = "findName" /\ UNCHANGED <<queue, handlerPc, core, gotBusy>>
    BY <1>4, <1>6 DEF GetProcessInfo
  <2>2. RenderLeft = 2 * MaxBlocks + 8 /\ RenderLeft' = 2 * MaxBlocks + 7
    BY <2>1 DEF RenderLeft
  <2> QED BY <1>1, <1>3, <2>1, <2>2, LeftKept DEF StopLeft
<1>7. CASE FindName
  <2>1. /\ renderPc = "findName" /\ renderPc' = "continue" /\ queue' = queue - 1
        /\ handlerPc' = handlerPc /\ EnterTryContinue("render")
    BY <1>4, <1>7 DEF FindName, TakeEvent
  <2>2. RenderLeft = 2 * MaxBlocks + 7
    BY <2>1 DEF RenderLeft
  <2>3. RenderLeft' <= 2 * MaxBlocks + 6
    BY <1>1, <2>1 DEF RenderLeft
  <2>4. HandlerLeft' = HandlerLeft
    BY <1>0, <2>1 DEF HandlerLeft
  <2>5. RenderLeft' < RenderLeft
    BY <1>1, <1>3, <2>2, <2>3
  <2> QED BY <1>1, <1>3, <2>1, <2>4, <2>5, Falls DEF StopLeft
<1>8. CASE FindNameReturns
  <2>1. /\ renderPc = "continue" /\ renderPc' = "queryMemory" /\ UNCHANGED <<queue, blocks, handlerPc, core, gotBusy>>
        /\ core["render"] = NumCores
    BY <1>4, <1>8 DEF FindNameReturns, ContinueSucceeds, InTryContinue
  <2>2. RenderLeft = 2 * MaxBlocks + 4 /\ RenderLeft' = 2 * (MaxBlocks - blocks) + 3
    BY <2>1 DEF RenderLeft
  <2> QED BY <1>1, <1>3, <2>1, <2>2, LeftKept DEF StopLeft
<1>9. CASE QueryMemory
  <2>1. /\ renderPc = "queryMemory" /\ renderPc' \in {"mapMemory", "startThread"}
        /\ UNCHANGED <<queue, blocks, handlerPc, core, gotBusy>>
    BY <1>9 DEF QueryMemory
  <2>2. /\ RenderLeft = 2 * (MaxBlocks - blocks) + 3
        /\ RenderLeft' = (IF renderPc' = "mapMemory" THEN 2 * (MaxBlocks - blocks) + 2 ELSE 2)
    BY <2>1 DEF RenderLeft
  <2> QED BY <1>1, <1>3, <2>1, <2>2, LeftKept DEF StopLeft
<1>10. CASE MapMemory
  <2>1. /\ renderPc = "mapMemory" /\ renderPc' = "queryMemory" /\ blocks' = blocks + 1
        /\ UNCHANGED <<queue, handlerPc, core, gotBusy>>
    BY <1>4, <1>10 DEF MapMemory
  <2>2. RenderLeft = 2 * (MaxBlocks - blocks) + 2 /\ RenderLeft' = 2 * (MaxBlocks - blocks') + 3
    BY <2>1 DEF RenderLeft
  <2> QED BY <1>1, <1>3, <2>1, <2>2, LeftKept DEF StopLeft
<1>11. CASE StartThread
  <2>1. /\ renderPc = "startThread" /\ renderPc' = "open" /\ handlerPc \in {"none", "done"}
        /\ handlerPc' = "loop" /\ queue' = queue
    BY <1>0, <1>11 DEF StartThread
  <2>2. RenderLeft = 2 /\ RenderLeft' = 1 /\ HandlerLeft = 8 /\ HandlerLeft' = 6
    BY <2>1 DEF RenderLeft, HandlerLeft
  <2> QED BY <1>1, <1>3, <2>1, <2>2 DEF StopLeft
<1>12. CASE Close
  <2>1. renderPc = "open" /\ renderPc' = "closeHandle" /\ UNCHANGED <<queue, handlerPc, core, gotBusy>>
    BY <1>12 DEF Close
  <2>2. RenderLeft = 1 /\ RenderLeft' = 0
    BY <2>1 DEF RenderLeft
  <2> QED BY <1>1, <1>3, <2>1, <2>2, LeftKept DEF StopLeft
<1>13. ~Attach /\ ~Destructor /\ ~Process
  <2>1. ~Attach /\ ~KillThread /\ ~Join
    BY <1>0 DEF Attach, KillThread, Join
  <2>2. ~CloseHandle
    BY DEF CloseHandle, Detach
  <2>3. ~Process
    BY DEF Process, RaiseEvent, Exit, ChangeLayout
  <2> QED BY <2>1, <2>2, <2>3 DEF Destructor
<1>14. CASE Handler /\ ~TryContinue("handler")
  <2>0. renderPc \in {"open", "closeHandle"} /\ handlerPc \notin {"none", "done"}
    BY <1>0, <1>14 DEF Handler, TestKillThread, WaitSynchronization, WaitReturns, HandleDebugEvent,
                       EventsHandled, HandlerContinued, ContinueSucceeds, ContinueFails, Unfinished, InTryContinue
  <2>1. CASE TestKillThread
    <3>1. handlerPc = "loop" /\ handlerPc' = "wait" /\ UNCHANGED <<renderPc, blocks, core, gotBusy, queue>>
      BY <1>0, <2>1 DEF TestKillThread
    <3>2. HandlerLeft = 6 /\ HandlerLeft' = 5
      BY <3>1 DEF HandlerLeft
    <3> QED BY <1>1, <1>3, <3>1, <3>2, LeftKept DEF StopLeft
  <2>2. CASE WaitSynchronization
    <3>1. handlerPc = "wait" /\ handlerPc' = "waiting" /\ UNCHANGED <<renderPc, blocks, core, gotBusy, queue>>
      BY <1>0, <2>2 DEF WaitSynchronization
    <3>2. HandlerLeft = 5 /\ HandlerLeft' = 4
      BY <3>1 DEF HandlerLeft
    <3> QED BY <1>1, <1>3, <3>1, <3>2, LeftKept DEF StopLeft
  <2>3. CASE WaitReturns
    <3>1. handlerPc = "waiting" /\ UNCHANGED <<renderPc, blocks, core, gotBusy, queue>>
      BY <2>3 DEF WaitReturns
    <3>2. Signalled
      BY <1>0, <1>1, <2>0, <3>1 DEF Signalled, IInv, StoppedIsAttended
    <3>3. handlerPc' = "handleDebugEvents"
      BY <2>3, <3>2 DEF WaitReturns
    <3>4. HandlerLeft = 4 /\ HandlerLeft' = 3
      BY <3>1, <3>3 DEF HandlerLeft
    <3> QED BY <1>1, <1>3, <3>1, <3>4, LeftKept DEF StopLeft
  <2>4. CASE HandleDebugEvent
    <3>1. queue' = queue - 1 /\ UNCHANGED <<renderPc, blocks, handlerPc, core, gotBusy>>
      BY <2>4 DEF HandleDebugEvent, TakeEvent
    <3> QED BY <1>1, <1>3, <3>1, LeftKept DEF StopLeft
  <2>5. CASE EventsHandled
    <3>1. handlerPc = "handleDebugEvents" /\ queue = 0
      BY <1>0, <1>1, <2>5 DEF EventsHandled
    <3>2. mShouldContinue
      BY <2>0, <3>1 DEF IInv, StoppedIsAttended
    <3>3. /\ handlerPc' = "continue" /\ EnterTryContinue("handler") /\ UNCHANGED <<renderPc, blocks, queue>>
      BY <2>5, <3>2 DEF EventsHandled
    <3>4. core'["handler"] # NumCores
      BY <3>3, SessionAssumption DEF EnterTryContinue, IInv, TypeOK, Threads
    <3>5. HandlerLeft = 3 /\ HandlerLeft' <= 2
      BY <3>1, <3>3, <3>4 DEF HandlerLeft
    <3>6. RenderLeft' = RenderLeft
      BY <2>0, <3>3 DEF RenderLeft
    <3>7. queue' = queue /\ HandlerLeft' < HandlerLeft
      BY <1>3, <3>3, <3>5
    <3> QED BY <1>1, <1>3, <3>6, <3>7, Falls DEF StopLeft
  <2>6. CASE HandlerContinued
    <3>1. /\ handlerPc = "continue" /\ handlerPc' = "loop" /\ core["handler"] = NumCores
          /\ UNCHANGED <<renderPc, blocks, core, gotBusy, queue>>
      BY <1>0, <2>6 DEF HandlerContinued, ContinueSucceeds, ContinueFails, Unfinished, InTryContinue
    <3>2. HandlerLeft = 7 /\ HandlerLeft' = 6
      BY <3>1 DEF HandlerLeft
    <3> QED BY <1>1, <1>3, <3>1, <3>2, LeftKept DEF StopLeft
  <2> QED BY <1>14, <2>1, <2>2, <2>3, <2>4, <2>5, <2>6 DEF Handler
<1> QED
  BY <1>5, <1>6, <1>7, <1>8, <1>9, <1>10, <1>11, <1>12, <1>13, <1>14 DEF Next, Constructor, Threads

LEMMA StepJoinLeft ==
  ASSUME IInv, KillOrder, Next, renderPc = "join", renderPc' = "join"
  PROVE  JoinLeft' < JoinLeft
<1> USE DEF vars, kernelVars, renderVars, blockVars, handlerVars, continueVars, RenderAt, RenderGoesTo,
            HandlerAt, HandlerGoesTo
<1>1. ~attached /\ mKillThread
  BY DEF KillOrder
<1> DEFINE left == CASE handlerPc = "handleDebugEvents"               -> 3
                     [] handlerPc \in {"continue", "waiting", "wait"} -> 2
                     [] handlerPc = "loop"                            -> 1
                     [] OTHER                                         -> 0
           exits == IF target = "exited" THEN 0 ELSE 1
<1>2. JoinLeft = exits + (IF aborted # "no" THEN 0 ELSE left)
  BY DEF JoinLeft
<1>3. JoinLeft' = exits' + (IF aborted' # "no" THEN 0 ELSE left')
  BY DEF JoinLeft
<1>4. CASE Process
  <2>1. Exit
    BY <1>1, <1>4 DEF Process, RaiseEvent, ChangeLayout
  <2>2. target # "exited" /\ target' = "exited" /\ UNCHANGED <<handlerPc, aborted>>
    BY <2>1 DEF Exit
  <2> QED BY <1>2, <1>3, <2>2
<1>5. CASE Handler
  <2>1. \A f \in {"tryContinueImpl", "debugEventHandlerThreadFunc"} : Abort(f) => aborted' # "no" /\ target' = target
    BY DEF Abort, Detach, IInv, StoppedMeansAttached, KillOrder
  <2>2. /\ aborted = "no"
        /\ handlerPc \in {"loop", "wait", "waiting", "handleDebugEvents", "continue"}
        /\ \/ handlerPc = "loop" /\ handlerPc' = "done" /\ UNCHANGED <<target, aborted>>
           \/ handlerPc = "waiting" /\ handlerPc' = "loop" /\ UNCHANGED <<target, aborted>>
           \/ handlerPc = "handleDebugEvents" /\ handlerPc' \in {"continue", "loop"} /\ UNCHANGED <<target, aborted>>
           \/ handlerPc = "continue" /\ handlerPc' = "loop" /\ UNCHANGED <<target, aborted>>
           \/ handlerPc # "loop" /\ aborted' # "no" /\ target' = target
    <3>1. CASE TestKillThread
      BY <1>1, <3>1 DEF TestKillThread
    <3>2. CASE WaitSynchronization
      BY <1>1, <2>1, <3>2 DEF WaitSynchronization
    <3>3. CASE WaitReturns
      BY <1>1, <3>3 DEF WaitReturns, Signalled
    <3>4. CASE EventsHandled
      BY <3>4 DEF EventsHandled
    <3>5. CASE TryContinue("handler")
      BY <1>1, <2>1, <3>5 DEF TryContinue, ContinueOnCore, ContinueIsBusy, DropEvent, Unfinished, InTryContinue
    <3>6. CASE HandlerContinued
      BY <3>6 DEF HandlerContinued, ContinueSucceeds, ContinueFails, Unfinished, InTryContinue
    <3> QED BY <1>1, <1>5, <3>1, <3>2, <3>3, <3>4, <3>5, <3>6 DEF Handler, HandleDebugEvent
  <2>3. left \in 1 .. 3 /\ (handlerPc = "loop" <=> left = 1)
    BY <2>2
  <2>4. exits' = exits /\ exits \in {0, 1}
    BY <2>2
  <2>5. IF aborted' # "no" THEN TRUE ELSE left' \in 0 .. 3 /\ left' < left
    BY <2>2
  <2> HIDE DEF left, exits
  <2> QED BY <1>2, <1>3, <2>2, <2>3, <2>4, <2>5
<1>6. ~Attach /\ ~Constructor /\ ~Close /\ ~Destructor
  BY DEF Attach, Constructor, GetProcessInfo, FindName, TryContinue, ContinueOnCore, ContinueIsBusy,
         DropEvent, Unfinished, InTryContinue, FindNameReturns, ContinueSucceeds, ContinueFails, QueryMemory, MapMemory, StartThread, Close,
         Destructor, CloseHandle, KillThread, Join
<1> QED BY <1>4, <1>5, <1>6 DEF Next

\* Both counts are natural numbers with a bound.
LEMMA StopLeftBounds == TypeOK => StopLeft \in 0 .. 2 * MaxBlocks + 16 + 2 * queue
<1> SUFFICES ASSUME TypeOK PROVE StopLeft \in 0 .. 2 * MaxBlocks + 16 + 2 * queue
  OBVIOUS
<1>1. queue \in Nat /\ MaxBlocks \in Nat /\ blocks \in Nat /\ blocks <= MaxBlocks
  BY SessionAssumption DEF TypeOK
<1>2. RenderLeft \in 0 .. 2 * MaxBlocks + 8
  BY <1>1 DEF RenderLeft
<1>3. HandlerLeft \in 0 .. 8
  BY DEF HandlerLeft
<1> HIDE DEF RenderLeft, HandlerLeft
<1> QED BY <1>1, <1>2, <1>3 DEF StopLeft

LEMMA JoinLeftBounds == JoinLeft \in 0 .. 4
BY DEF JoinLeft

\* A stopped process is resumed, exits or loses its debugger after at most
\* 2 * MaxBlocks + 16 + 2 * queue steps, whoever takes them, on any number of cores: no event
\* behind the first one, and nothing the user does, starts the count again.
THEOREM StopsCountDown ==
  Spec => StopCountsDown /\ [](StopLeft \in 0 .. 2 * MaxBlocks + 16 + 2 * queue)
<1>1. IInv /\ KillOrder /\ [Next]_vars =>
        [target = "stopped" /\ target' = "stopped" => StopLeft' < StopLeft]_vars
  BY StepStopLeft
<1>2. IInv => StopLeft \in 0 .. 2 * MaxBlocks + 16 + 2 * queue
  BY StopLeftBounds DEF IInv
<1> QED BY <1>1, <1>2, CountInv, PTL DEF Spec, StopCountsDown

\* The destructor's join() waits for at most three more steps of the handler thread, on any
\* number of cores, wherever that thread was when the handle was closed, and meanwhile the
\* process may exit.
THEOREM JoinsCountDown == Spec => JoinCountsDown /\ [](JoinLeft \in 0 .. 4)
<1>1. IInv /\ KillOrder /\ [Next]_vars =>
        [renderPc = "join" /\ renderPc' = "join" => JoinLeft' < JoinLeft]_vars
  BY StepJoinLeft
<1> QED BY <1>1, JoinLeftBounds, CountInv, PTL DEF Spec, JoinCountsDown

-----------------------------------------------------------------------------
(* MemoryMap.  The walks go from the start of an area to that of the next    *)
(* one; a block is a run of areas between two free ones, mapped where a page *)
(* on either side of it stays free.                                          *)

Starts == DOMAIN type
StartOf(p) == Max({b \in Starts : b <= p})

LayoutOK ==
  /\ limit \in Nat \ {0} /\ limit <= Top
  /\ Starts \subseteq 0 .. limit - 1
  /\ 0 \in Starts
  /\ type \in [Starts -> Type]
  /\ type[0] = "Free"

AreaRecord == [addr : Nat, size : Nat, type : Type \cup {"Reserved"}]
BlockRecord == [startOrig : Nat, startMapped : Nat, size : Nat]

MapState ==
  /\ limit \in Limits
  /\ LayoutOK
  /\ own \in [OwnPage -> {NotMapped} \cup (0 .. limit - 1)]
  /\ reserved \subseteq OwnPage
  /\ pc \in {"findModules", "mapBlocks", "open", "unmap", "closed", "aborted"}
  /\ addr \in 0 .. AddressMod - 1
  /\ mModules \in Seq(AreaRecord)
  /\ maps \in Seq(AreaRecord)
  /\ mBlocks \in Seq(BlockRecord)
  /\ sessions \in 1 .. MaxSessions

\* The walks go from area to area, and a session is opened only if the address space of
\* the process ends where mapBlocks expects it.
Walking ==
  /\ pc \in {"findModules", "mapBlocks"} => addr \in Starts \cup {limit}
  /\ pc = "mapBlocks" /\ limit = Top => addr \in Starts
  /\ pc \in {"open", "unmap", "closed"} \/ sessions > 1 => limit = Top
  /\ pc \in {"findModules", "closed"} => mBlocks = <<>>
  /\ pc \in {"open", "closed"} => addr = 0
  /\ pc = "unmap" /\ mBlocks = <<>> => addr = 0

\* findModules has found the modules it has passed.
Passed == IF pc = "findModules" THEN addr ELSE limit
ModulesPassed ==
  /\ \A k \in 1 .. Len(mModules) :
       /\ mModules[k].addr \in Starts
       /\ mModules[k] = AreaAt(mModules[k].addr)
       /\ mModules[k].type = "Code"
       /\ mModules[k].addr < Passed
  /\ \A a \in Starts : type[a] = "Code" /\ a < Passed =>
       \E k \in 1 .. Len(mModules) : mModules[k].addr = a
  /\ \A j, k \in 1 .. Len(mModules) : j < k => mModules[j].addr < mModules[k].addr

\* What has been collected is a run of areas that are not free, behind a free one.
AfterFree(a) == \E f \in Starts : type[f] = "Free" /\ AreaEnd(f) = a
BelowEnd == pc = "mapBlocks" /\ \A k \in 1 .. Len(maps) : maps[k].type # "Reserved"
Collected ==
  /\ pc \notin {"mapBlocks", "aborted"} => maps = <<>>
  /\ pc = "mapBlocks" /\ limit = Top => BelowEnd
  /\ pc = "mapBlocks" /\ maps = <<>> => addr = 0 \/ AfterFree(addr)
  /\ BelowEnd /\ maps # <<>> =>
       /\ maps[1].addr \in Starts /\ AfterFree(maps[1].addr)
       /\ maps[Len(maps)].addr + maps[Len(maps)].size = addr
       /\ \A k \in 1 .. Len(maps) :
            /\ maps[k].addr \in Starts /\ maps[k] = AreaAt(maps[k].addr)
            /\ maps[k].type # "Free"
            /\ maps[1].addr <= maps[k].addr /\ maps[k].addr < addr
       /\ \A a \in Starts : maps[1].addr <= a /\ a < addr =>
            \E k \in 1 .. Len(maps) : maps[k].addr = a

\* A block: a run of areas that are not free, between two free ones, and that the kernel
\* has mapped or mapBlock left out.
End(b) == b.startOrig + b.size
IsRun(b) ==
  /\ b.size > 0
  /\ b.startOrig \in Starts /\ AfterFree(b.startOrig)
  /\ End(b) \in Starts /\ type[End(b)] = "Free" /\ AreaEnd(End(b)) # Top
  /\ \A a \in Starts : b.startOrig <= a /\ a < End(b) => type[a] \notin {"Free", "Io"}

\* Where it is mapped: around it at least one page is not.
Content(p) == IF type[StartOf(p)] \in {"Code", "Data"} THEN p ELSE NotMapped
LeftOf(k) == IF pc = "unmap" /\ k = 1 THEN addr ELSE mBlocks[k].startMapped
IsPlaced(k) ==
  LET b == mBlocks[k]
  IN  /\ b.startMapped > 0 /\ BlockEnd(b) < OwnPages
      /\ own[BlockEnd(b)] = NotMapped
      /\ b.startMapped .. BlockEnd(b) - 1 \subseteq reserved
      /\ b.startMapped <= LeftOf(k) /\ LeftOf(k) <= BlockEnd(b)
      /\ \A q \in LeftOf(k) .. BlockEnd(b) - 1 :
           own[q] = Content(q - b.startMapped + b.startOrig)
      /\ \A q \in b.startMapped .. LeftOf(k) - 1 :
           own[q] = NotMapped /\ Content(q - b.startMapped + b.startOrig) # NotMapped
BlocksStand ==
  /\ \A k \in 1 .. Len(mBlocks) : IsRun(mBlocks[k]) /\ IsPlaced(k)
  /\ \A j, k \in 1 .. Len(mBlocks) : j # k =>
       \/ BlockEnd(mBlocks[j]) < mBlocks[k].startMapped
       \/ BlockEnd(mBlocks[k]) < mBlocks[j].startMapped

\* What lies before the block being collected is in a block.
Covered == IF maps = <<>> THEN addr ELSE maps[1].addr
InRun(b, a) == b.startOrig <= a /\ a < End(b)
FollowedAt(a) == \E f \in Starts : type[f] = "Free" /\ f > a /\ AreaEnd(f) # limit
NoneLeftOut ==
  /\ BelowEnd => \A a \in Starts : a < Covered /\ type[a] # "Free" =>
       \E k \in 1 .. Len(mBlocks) : InRun(mBlocks[k], a)
  /\ pc = "open" => \A a \in Starts : type[a] # "Free" /\ FollowedAt(a) =>
       \E k \in 1 .. Len(mBlocks) : InRun(mBlocks[k], a)
  /\ pc \in {"open", "unmap", "closed"} => \A a \in Starts : type[a] = "Io" => ~FollowedAt(a)

\* What is mapped is what unmap() leaves or in a block, and unmap() leaves no less.
Kept == {p \in MappablePages : BehindHole(p)}
OnlyKept ==
  \A q \in OwnPage : own[q] # NotMapped =>
    \/ own[q] \in Kept
    \/ \E k \in 1 .. Len(mBlocks) : mBlocks[k].startMapped <= q /\ q < BlockEnd(mBlocks[k])
AllKept ==
  pc \in {"unmap", "closed"} => \A p \in Kept : \E q \in OwnPage : own[q] = p

MapInv ==
  /\ MapState /\ Walking /\ ModulesPassed /\ Collected /\ BlocksStand
  /\ NoneLeftOut /\ OnlyKept /\ AllKept
-----------------------------------------------------------------------------
(* Where the areas start and end. *)

LEMMA Smallest ==
  ASSUME NEW S \in SUBSET Nat, S # {}
  PROVE  \E m \in S : \A n \in S : m <= n
<1>1. PICK m \in S : \A n \in S : <<n, m>> \notin OpToRel(<, Nat)
  BY WFMin, NatLessThanWellFounded, Zenon
<1>2. \A n \in S : m <= n
  <2> SUFFICES ASSUME NEW n \in S PROVE m <= n
    OBVIOUS
  <2>1. m \in Nat /\ n \in Nat
    OBVIOUS
  <2>2. ~(n < m)
    BY <1>1, <2>1 DEF OpToRel
  <2> QED
    BY <2>1, <2>2
<1> QED
  BY <1>2

LEMMA MinIs ==
  ASSUME NEW S \in SUBSET Nat, S # {}
  PROVE  Min(S) \in S /\ \A n \in S : Min(S) <= n
BY Smallest DEF Min

LEMMA MaxIs ==
  ASSUME NEW top \in Nat, NEW S \in SUBSET (0 .. top), S # {}
  PROVE  Max(S) \in S /\ \A n \in S : n <= Max(S)
<1> DEFINE D == {d \in 0 .. top : top - d \in S}
<1>1. D \in SUBSET Nat /\ D # {}
  <2>1. PICK n \in S : TRUE
    OBVIOUS
  <2>2. top - n \in 0 .. top /\ top - (top - n) = n
    BY <2>1
  <2>3. top - n \in D
    BY <2>1, <2>2
  <2>4. D \in SUBSET Nat
    OBVIOUS
  <2> HIDE DEF D
  <2> QED
    BY <2>3, <2>4
<1> HIDE DEF D
<1>2. PICK d \in D : \A e \in D : d <= e
  BY <1>1, Smallest
<1>3. top - d \in S
  BY <1>2 DEF D
<1>4. ASSUME NEW n \in S PROVE n <= top - d
  <2>1. n \in 0 .. top /\ top - n \in 0 .. top /\ top - (top - n) = n
    OBVIOUS
  <2>2. top - n \in D
    BY <2>1 DEF D
  <2>3. d <= top - n /\ d \in 0 .. top
    BY <1>2, <2>2 DEF D
  <2> QED
    BY <2>1, <2>3
<1>5. \E m \in S : \A n \in S : m >= n
  BY <1>3, <1>4
<1>6. Max(S) \in S /\ \A n \in S : Max(S) >= n
  BY <1>5, Zenon DEF Max
<1> QED
  BY <1>6

LEMMA StartsAreBelow ==
  ASSUME LayoutOK
  PROVE  /\ limit \in Nat /\ 0 < limit
         /\ 0 \in Starts
         /\ \A a \in Starts : a \in Nat /\ a < limit
BY DEF LayoutOK

LEMMA AreaEndIs ==
  ASSUME LayoutOK, NEW a \in Starts
  PROVE  /\ AreaEnd(a) \in Starts \cup {limit}
         /\ AreaEnd(a) \in Nat
         /\ a < AreaEnd(a) /\ AreaEnd(a) <= limit
         /\ \A b \in Starts : a < b => AreaEnd(a) <= b
<1> DEFINE S == {b \in Starts \cup {limit} : b > a}
<1>1. /\ limit \in Nat /\ a \in Nat /\ a < limit
      /\ \A b \in Starts : b \in Nat /\ b < limit
  BY StartsAreBelow
<1>5. S \in SUBSET Nat /\ limit \in S
  BY <1>1
<1>2. AreaEnd(a) = Min(S)
  BY DEF AreaEnd, Starts
<1>3. Min(S) \in S /\ \A n \in S : Min(S) <= n
  BY <1>5, MinIs
<1>4. AreaEnd(a) \in S /\ \A n \in S : AreaEnd(a) <= n
  BY <1>2, <1>3
<1>6. AreaEnd(a) \in Starts \cup {limit} /\ AreaEnd(a) > a
  BY <1>4
<1>7. AreaEnd(a) <= limit
  BY <1>4, <1>5
<1>8. \A b \in Starts : a < b => AreaEnd(a) <= b
  BY <1>4, <1>1
<1> QED
  BY <1>1, <1>6, <1>7, <1>8

LEMMA StartOfIs ==
  ASSUME LayoutOK, NEW p \in 0 .. limit - 1
  PROVE  /\ StartOf(p) \in Starts
         /\ StartOf(p) <= p /\ p < AreaEnd(StartOf(p))
         /\ \A b \in Starts : b <= p => b <= StartOf(p)
<1> DEFINE S == {b \in Starts : b <= p}
<1>1. p \in Nat /\ p < limit /\ 0 \in Starts /\ \A b \in Starts : b \in Nat
  BY StartsAreBelow
<1>7. S \in SUBSET (0 .. p) /\ 0 \in S
  BY <1>1
<1>2. StartOf(p) = Max(S)
  BY DEF StartOf
<1>3. Max(S) \in S /\ \A n \in S : n <= Max(S)
  BY <1>1, <1>7, MaxIs
<1>4. StartOf(p) \in S /\ \A n \in S : n <= StartOf(p)
  BY <1>2, <1>3
<1>5. StartOf(p) \in Starts /\ StartOf(p) <= p /\ \A b \in Starts : b <= p => b <= StartOf(p)
  BY <1>4
<1>6. p < AreaEnd(StartOf(p))
  <2>1. /\ AreaEnd(StartOf(p)) \in Starts \cup {limit} /\ StartOf(p) < AreaEnd(StartOf(p))
        /\ AreaEnd(StartOf(p)) \in Nat
    BY <1>5, AreaEndIs
  <2> QED
    BY <2>1, <1>5, <1>1
<1> QED
  BY <1>5, <1>6

LEMMA StartOfUnique ==
  ASSUME LayoutOK, NEW a \in Starts, NEW p \in a .. AreaEnd(a) - 1
  PROVE  p \in 0 .. limit - 1 /\ StartOf(p) = a
<1>1. /\ p \in 0 .. limit - 1 /\ a \in Nat /\ a <= p /\ p < AreaEnd(a)
      /\ AreaEnd(a) \in Nat
      /\ \A b \in Starts : b \in Nat
      /\ \A b \in Starts : a < b => AreaEnd(a) <= b
  BY AreaEndIs, StartsAreBelow
<1>2. /\ StartOf(p) \in Starts /\ StartOf(p) <= p
      /\ \A b \in Starts : b <= p => b <= StartOf(p)
  BY <1>1, StartOfIs
<1>3. StartOf(p) \in Nat /\ p \in Nat
  <2>1. StartOf(p) \in Nat
    BY <1>1, <1>2
  <2>2. p \in Int
    BY <1>1
  <2> QED
    BY <1>1, <2>1, <2>2
<1>4. ~(a < StartOf(p))
  BY <1>1, <1>2, <1>3
<1>5. a <= StartOf(p)
  BY <1>1, <1>2
<1> QED
  BY <1>1, <1>3, <1>4, <1>5

LEMMA AreaAtIs ==
  ASSUME LayoutOK, NEW p \in 0 .. limit - 1
  PROVE  AreaAt(p) = [addr |-> StartOf(p), size |-> AreaEnd(StartOf(p)) - StartOf(p),
                      type |-> type[StartOf(p)]]
BY DEF AreaAt, StartOf, Starts, LayoutOK

LEMMA AreaAtStart ==
  ASSUME LayoutOK, NEW a \in Starts
  PROVE  /\ AreaAt(a) = [addr |-> a, size |-> AreaEnd(a) - a, type |-> type[a]]
         /\ AreaAt(a) \in AreaRecord
         /\ PagesOf(AreaAt(a)) = a .. AreaEnd(a) - 1
         /\ a + (AreaEnd(a) - a) = AreaEnd(a)
<1>1. a \in 0 .. limit - 1 /\ a \in Nat /\ AreaEnd(a) \in Nat /\ a < AreaEnd(a)
  BY AreaEndIs DEF LayoutOK
<1>2. StartOf(a) = a
  BY <1>1, StartOfUnique
<1>3. AreaAt(a) = [addr |-> a, size |-> AreaEnd(a) - a, type |-> type[a]]
  BY <1>1, <1>2, AreaAtIs
<1>4. a + (AreaEnd(a) - a) = AreaEnd(a) /\ AreaEnd(a) - a \in Nat /\ type[a] \in Type
  BY <1>1 DEF LayoutOK
<1>5. PagesOf(AreaAt(a)) = a .. AreaEnd(a) - 1
  <2>1. AreaAt(a).addr = a /\ AreaAt(a).size = AreaEnd(a) - a
    BY <1>3
  <2>2. PagesOf(AreaAt(a)) = a .. (a + (AreaEnd(a) - a)) - 1
    BY <2>1, <1>1, <1>4 DEF PagesOf
  <2> QED
    BY <2>2, <1>4
<1>6. AreaAt(a) \in AreaRecord
  BY <1>3, <1>4, <1>1 DEF AreaRecord
<1> QED
  BY <1>3, <1>4, <1>5, <1>6

LEMMA AreaBehindEnd ==
  ASSUME LayoutOK, MapAssumption
  PROVE  /\ AreaAt(limit) = [addr |-> limit, size |-> AddressMod - limit, type |-> "Reserved"]
         /\ AreaAt(limit) \in AreaRecord
         /\ Wrapped(limit + AreaAt(limit).size) = 0
         /\ limit + AreaAt(limit).size = AddressMod
<1>1. limit \in Nat /\ limit < AddressMod /\ AddressMod \in Nat
  BY DEF LayoutOK, MapAssumption
<1>2. AreaAt(limit) = [addr |-> limit, size |-> AddressMod - limit, type |-> "Reserved"]
  BY <1>1 DEF AreaAt
<1>3. limit + (AddressMod - limit) = AddressMod /\ AddressMod - limit \in Nat /\ AddressMod % AddressMod = 0
  BY <1>1
<1> QED
  BY <1>1, <1>2, <1>3 DEF Wrapped, AreaRecord

LEMMA NotWrappedBelow ==
  ASSUME LayoutOK, MapAssumption, NEW a \in Starts
  PROVE  Wrapped(AreaEnd(a)) = AreaEnd(a)
<1>1. AreaEnd(a) \in 0 .. AddressMod - 1 /\ AddressMod \in Nat
  BY AreaEndIs DEF LayoutOK, MapAssumption
<1> QED
  BY <1>1 DEF Wrapped

\* The process does not change its memory.
LEMMA ProcessStays ==
  ASSUME UNCHANGED processVars
  PROVE  /\ Starts' = Starts /\ (LayoutOK <=> LayoutOK') /\ Kept' = Kept
         /\ \A a : /\ AreaEnd(a)' = AreaEnd(a) /\ AreaAt(a)' = AreaAt(a)
                   /\ StartOf(a)' = StartOf(a) /\ Content(a)' = Content(a)
                   /\ (AfterFree(a) <=> AfterFree(a)') /\ (FollowedAt(a) <=> FollowedAt(a)')
         /\ \A b : IsRun(b) <=> IsRun(b)'
<1>1. limit' = limit /\ type' = type
  BY DEF processVars
<1>2. \A a : AreaEnd(a)' = AreaEnd(a) /\ StartOf(a)' = StartOf(a)
  BY <1>1 DEF AreaEnd, StartOf, Starts
<1>3. \A a : AreaAt(a)' = AreaAt(a)
  BY <1>1, <1>2 DEF AreaAt
<1>4. Starts' = Starts /\ (LayoutOK <=> LayoutOK')
  BY <1>1 DEF Starts, LayoutOK
<1>5. \A a : /\ Content(a)' = Content(a)
             /\ (AfterFree(a) <=> AfterFree(a)') /\ (FollowedAt(a) <=> FollowedAt(a)')
  BY <1>1, <1>2, <1>4 DEF Content, AfterFree, FollowedAt
<1>6. \A b : IsRun(b) <=> IsRun(b)'
  BY <1>1, <1>2, <1>4, <1>5 DEF IsRun, End
<1>7. Kept' = Kept
  <2>1. Areas' = Areas
    BY <1>1, <1>3 DEF Areas
  <2>2. \A area : Followed(area)' <=> Followed(area)
    BY <2>1, <1>1 DEF Followed, IsFinal
  <2>3. Mappable' = Mappable
    BY <2>1, <2>2 DEF Mappable
  <2>4. MappablePages' = MappablePages
    BY <2>3 DEF MappablePages, PagesOf
  <2>5. \A p : BehindHole(p)' <=> BehindHole(p)
    BY <2>1 DEF BehindHole
  <2> QED
    BY <2>4, <2>5 DEF Kept
<1> QED
  BY <1>2, <1>3, <1>4, <1>5, <1>6, <1>7

LEMMA RefusedAreasStay ==
  ASSUME UNCHANGED processVars, MapInv, pc \in {"open", "unmap", "closed"}
  PROVE  \A a \in Starts' : type'[a] = "Io" => ~FollowedAt(a)'
<1>1. type' = type /\ Starts' = Starts /\ \A a : FollowedAt(a) <=> FollowedAt(a)'
  BY ProcessStays DEF processVars
<1> QED
  BY <1>1 DEF MapInv, NoneLeftOut

LEMMA MappableIs ==
  ASSUME LayoutOK, NEW p
  PROVE  p \in MappablePages <=>
           /\ p \in 0 .. limit - 1
           /\ type[StartOf(p)] \in {"Code", "Data"}
           /\ FollowedAt(StartOf(p))
<1>1. \A a \in Starts : /\ AreaAt(a).addr = a /\ AreaAt(a).type = type[a]
                        /\ AreaAt(a).addr + AreaAt(a).size = AreaEnd(a)
                        /\ PagesOf(AreaAt(a)) = a .. AreaEnd(a) - 1
  BY AreaAtStart
<1>2. \A a \in Starts : Followed(AreaAt(a)) <=> FollowedAt(a)
  BY <1>1 DEF Followed, FollowedAt, Areas, IsFinal, Starts
<1>3. p \in MappablePages <=>
        \E a \in Starts : type[a] \in {"Code", "Data"} /\ FollowedAt(a) /\ p \in a .. AreaEnd(a) - 1
  <2>1. p \in MappablePages <=> \E area \in Mappable : p \in PagesOf(area)
    BY Zenon DEF MappablePages
  <2>2. \A area : area \in Mappable <=> \E a \in Starts : /\ area = AreaAt(a)
                                                         /\ type[a] \in {"Code", "Data"}
                                                         /\ FollowedAt(a)
    BY <1>1, <1>2 DEF Mappable, Areas, Starts
  <2>3. \A a \in Starts : p \in PagesOf(AreaAt(a)) <=> p \in a .. AreaEnd(a) - 1
    BY <1>1
  <2> QED
    BY <2>1, <2>2, <2>3, Zenon
<1>4. ASSUME NEW a \in Starts, p \in a .. AreaEnd(a) - 1
      PROVE  p \in 0 .. limit - 1 /\ StartOf(p) = a
  BY <1>4, StartOfUnique
<1>5. ASSUME p \in 0 .. limit - 1
      PROVE  StartOf(p) \in Starts /\ p \in StartOf(p) .. AreaEnd(StartOf(p)) - 1
  <2>1. StartOf(p) \in Starts /\ StartOf(p) <= p /\ p < AreaEnd(StartOf(p))
    BY <1>5, StartOfIs
  <2>2. limit \in Nat /\ StartOf(p) \in Nat /\ AreaEnd(StartOf(p)) \in Nat
    BY <2>1, StartsAreBelow, AreaEndIs
  <2> QED
    BY <1>5, <2>1, <2>2
<1> QED
  BY <1>3, <1>4, <1>5

LEMMA BehindHoleIs ==
  ASSUME LayoutOK, NEW p
  PROVE  BehindHole(p) <=>
           \E b \in Starts :
             /\ type[b] = "Shared" /\ b < p
             /\ \A f \in Starts : type[f] = "Free" => ~(b < f /\ f < p)
<1>1. \A a \in Starts : AreaAt(a).addr = a /\ AreaAt(a).type = type[a]
  BY AreaAtStart
<1> QED
  BY <1>1 DEF BehindHole, Areas, Starts

-----------------------------------------------------------------------------
(* The walks. *)

LEMMA InfoIs ==
  ASSUME LayoutOK, addr \in Starts
  PROVE  /\ Info = AreaAt(addr) /\ Info \in AreaRecord
         /\ Info.addr = addr /\ Info.type = type[addr] /\ Info.type \in Type
         /\ addr + Info.size = AreaEnd(addr)
         /\ Wrapped(addr + Info.size) = AreaEnd(addr)
         /\ NextAddress = AreaEnd(addr)
<1>1. Info = AreaAt(addr)
  BY DEF Info
<1>2. /\ Info \in AreaRecord /\ Info.addr = addr /\ Info.type = type[addr]
      /\ addr + Info.size = AreaEnd(addr)
  BY <1>1, AreaAtStart
<1>3. Wrapped(AreaEnd(addr)) = AreaEnd(addr)
  BY NotWrappedBelow, MapAssumption
<1>4. type[addr] \in Type
  BY DEF LayoutOK
<1> QED
  BY <1>1, <1>2, <1>3, <1>4 DEF NextAddress

LEMMA InfoBehindEnd ==
  ASSUME LayoutOK, addr = limit
  PROVE  /\ Info \in AreaRecord /\ Info.type = "Reserved"
         /\ Wrapped(addr + Info.size) = 0 /\ addr + Info.size = AddressMod
BY AreaBehindEnd, MapAssumption DEF Info

LEMMA MapInvInit == MapInit => MapInv
<1> SUFFICES ASSUME MapInit PROVE MapInv
  OBVIOUS
<1> USE DEF MapInit
<1>1. LayoutOK
  <2>1. limit \in Nat \ {0} /\ limit <= Top
    BY MapAssumption
  <2>2. PICK starts \in SUBSET (1 .. limit - 1) : type \in [starts \cup {0} -> Type] /\ type[0] = "Free"
    BY DEF Layouts
  <2>3. Starts = starts \cup {0}
    BY <2>2 DEF Starts
  <2>4. Starts \subseteq 0 .. limit - 1
    BY <2>1, <2>3
  <2> QED
    BY <2>1, <2>2, <2>3, <2>4 DEF LayoutOK
<1>2. MapState
  <2>1. mModules \in Seq(AreaRecord) /\ maps \in Seq(AreaRecord) /\ mBlocks \in Seq(BlockRecord)
    OBVIOUS
  <2>2. addr \in 0 .. AddressMod - 1 /\ sessions \in 1 .. MaxSessions
    BY MapAssumption
  <2>3. own \in [OwnPage -> {NotMapped} \cup (0 .. limit - 1)]
    OBVIOUS
  <2> QED
    BY <1>1, <2>1, <2>2, <2>3 DEF MapState
<1>3. Walking
  BY <1>1, StartsAreBelow DEF Walking
<1>4. ModulesPassed
  BY <1>1, StartsAreBelow DEF ModulesPassed, Passed
<1>5. Collected /\ BlocksStand
  BY DEF Collected, BlocksStand, BelowEnd
<1>6. NoneLeftOut /\ OnlyKept /\ AllKept
  BY DEF NoneLeftOut, OnlyKept, AllKept, BelowEnd
<1> QED
  BY <1>2, <1>3, <1>4, <1>5, <1>6 DEF MapInv

\* What finding modules has nothing to do with.
LEMMA FindModulesLeaves ==
  ASSUME MapInv, FindModules, LayoutOK',
         pc' \in {"findModules", "mapBlocks"}, pc' = "mapBlocks" => addr' = 0,
         addr' \in Starts \cup {limit},
         mModules' \in Seq(AreaRecord), ModulesPassed'
  PROVE  MapInv'
<1> USE DEF FindModules
<1>1. MapState /\ LayoutOK /\ Walking /\ OnlyKept /\ Collected
  BY DEF MapInv, MapState
<1>2. UNCHANGED <<processVars, own, reserved, maps, mBlocks, sessions>> /\ UNCHANGED <<limit, type>>
  BY DEF processVars
<1>3. Starts' = Starts /\ Kept' = Kept
  BY <1>2, ProcessStays
<1>4. /\ \A a \in Starts : a \in Nat /\ a < limit
      /\ limit \in Nat /\ limit < AddressMod /\ AddressMod \in Nat /\ 0 \in Starts
  BY <1>1, StartsAreBelow, MapAssumption DEF LayoutOK
<1>5. mBlocks = <<>> /\ maps = <<>> /\ mBlocks' = <<>> /\ maps' = <<>>
  BY <1>1, <1>2 DEF Walking, Collected
<1>6. addr' \in 0 .. AddressMod - 1
  BY <1>4
<1>7. MapState'
  BY <1>1, <1>2, <1>6 DEF MapState
<1>8. Walking'
  BY <1>1, <1>2, <1>3, <1>4, <1>5 DEF Walking
<1>9. Collected' /\ BlocksStand'
  BY <1>1, <1>5 DEF Collected, BlocksStand, BelowEnd
<1>10. NoneLeftOut'
  <2> SUFFICES ASSUME BelowEnd' PROVE \A a \in Starts' : ~(a < Covered')
    BY DEF NoneLeftOut, BelowEnd
  <2>1. Covered' = 0
    BY <1>5 DEF Covered, BelowEnd
  <2> QED
    BY <2>1, <1>3, <1>4
<1>11. OnlyKept' /\ AllKept'
  BY <1>1, <1>2, <1>3, <1>5 DEF OnlyKept, AllKept
<1> QED
  BY <1>7, <1>8, <1>9, <1>10, <1>11 DEF MapInv

LEMMA FindModulesKeeps ==
  ASSUME MapInv, FindModules
  PROVE  MapInv'
<1> USE DEF FindModules
<1>1. MapState /\ LayoutOK /\ Walking /\ ModulesPassed
  BY DEF MapInv, MapState
<1>2. /\ UNCHANGED <<processVars, own, reserved, maps, mBlocks, sessions>>
      /\ UNCHANGED <<limit, type>>
  BY DEF processVars
<1>3. /\ Starts' = Starts /\ LayoutOK' /\ Kept' = Kept
      /\ \A a : AreaAt(a)' = AreaAt(a) /\ (AfterFree(a) <=> AfterFree(a)')
  BY <1>1, <1>2, ProcessStays
<1>4. /\ \A a \in Starts : a \in Nat /\ a < limit
      /\ limit \in Nat /\ limit < AddressMod /\ AddressMod \in Nat /\ 0 \in Starts
  BY <1>1, StartsAreBelow, MapAssumption DEF LayoutOK
<1>5. CASE addr \in Starts
  <2>1. /\ Info = AreaAt(addr) /\ Info \in AreaRecord /\ Info.addr = addr
        /\ Info.type = type[addr] /\ Info.type \in Type /\ NextAddress = AreaEnd(addr)
    BY <1>1, <1>5, InfoIs
  <2>2. /\ AreaEnd(addr) \in Starts \cup {limit} /\ AreaEnd(addr) \in Nat
        /\ addr < AreaEnd(addr) /\ AreaEnd(addr) <= limit
        /\ \A b \in Starts : addr < b => AreaEnd(addr) <= b
    BY <1>1, <1>5, AreaEndIs
  <2>3. pc' = "findModules" /\ addr' = AreaEnd(addr)
    BY <1>4, <1>5, <2>1, <2>2 DEF Type
  <2>4. /\ mModules' \in Seq(AreaRecord)
        /\ \A k \in 1 .. Len(mModules) : mModules'[k] = mModules[k]
        /\ IF type[addr] = "Code"
           THEN Len(mModules') = Len(mModules) + 1 /\ mModules'[Len(mModules) + 1] = Info
           ELSE Len(mModules') = Len(mModules)
    BY <1>1, <2>1, AppendProperties DEF MapState, IsModule
  <2>5. Len(mModules) \in Nat
    BY <1>1 DEF MapState
  <2>6. ModulesPassed'
    <3>1. Passed = addr /\ Passed' = AreaEnd(addr)
      BY <2>3 DEF Passed
    <3>2. ASSUME NEW k \in 1 .. Len(mModules')
          PROVE  /\ mModules'[k].addr \in Starts
                 /\ mModules'[k] = AreaAt(mModules'[k].addr)
                 /\ mModules'[k].type = "Code"
                 /\ mModules'[k].addr < AreaEnd(addr)
      <4>1. CASE k \in 1 .. Len(mModules)
        <5>1. /\ mModules[k].addr \in Starts
              /\ mModules[k] = AreaAt(mModules[k].addr)
              /\ mModules[k].type = "Code"
              /\ mModules[k].addr < addr
          BY <1>1, <3>1, <4>1 DEF ModulesPassed
        <5> QED
          BY <5>1, <4>1, <2>4, <2>2, <1>4, <1>5
      <4>2. CASE k = Len(mModules) + 1 /\ type[addr] = "Code"
        BY <4>2, <2>4, <2>1, <2>2, <1>5
      <4> QED
        BY <4>1, <4>2, <2>4, <2>5
    <3>3. ASSUME NEW a \in Starts, type[a] = "Code", a < AreaEnd(addr)
          PROVE  \E k \in 1 .. Len(mModules') : mModules'[k].addr = a
      <4>1. CASE a < addr
        <5>1. PICK k \in 1 .. Len(mModules) : mModules[k].addr = a
          BY <1>1, <3>1, <3>3, <4>1 DEF ModulesPassed
        <5>2. k \in 1 .. Len(mModules')
          BY <2>4, <2>5
        <5> QED
          BY <5>1, <5>2, <2>4
      <4>2. CASE a = addr
        BY <4>2, <3>3, <2>4, <2>1, <2>5
      <4> QED
        BY <4>1, <4>2, <3>3, <2>2, <1>4, <1>5
    <3>4. ASSUME NEW j \in 1 .. Len(mModules'), NEW k \in 1 .. Len(mModules'), j < k
          PROVE  mModules'[j].addr < mModules'[k].addr
      <4>1. CASE k \in 1 .. Len(mModules)
        <5>1. j \in 1 .. Len(mModules)
          BY <3>4, <4>1, <2>5
        <5> QED
          BY <1>1, <2>4, <3>4, <4>1, <5>1 DEF ModulesPassed
      <4>2. CASE k = Len(mModules) + 1 /\ type[addr] = "Code"
        <5>1. j \in 1 .. Len(mModules)
          BY <3>4, <4>2, <2>5
        <5>2. mModules[j].addr < addr
          BY <1>1, <3>1, <5>1 DEF ModulesPassed
        <5> QED
          BY <4>2, <5>1, <5>2, <2>4, <2>1
      <4> QED
        BY <4>1, <4>2, <2>4, <2>5
    <3> QED
      BY <1>2, <1>3, <3>1, <3>2, <3>3, <3>4 DEF ModulesPassed
  <2> QED
    BY <1>1, <1>2, <1>3, <1>4, <2>2, <2>3, <2>4, <2>6, FindModulesLeaves
<1>6. CASE addr = limit
  <2>1. Info \in AreaRecord /\ Info.type = "Reserved"
    BY <1>1, <1>6, InfoBehindEnd
  <2>2. pc' = "mapBlocks" /\ addr' = 0 /\ mModules' = mModules
    BY <2>1 DEF IsModule
  <2>3. ModulesPassed'
    <3>1. Passed = limit /\ Passed' = limit
      BY <1>2, <1>6, <2>2 DEF Passed
    <3> QED
      BY <1>1, <1>2, <1>3, <2>2, <3>1 DEF ModulesPassed
  <2> QED
    BY <1>1, <1>2, <1>3, <1>4, <2>2, <2>3, FindModulesLeaves DEF MapState
<1> QED
  BY <1>1, <1>5, <1>6 DEF Walking

\* What a step keeps that neither maps nor unmaps anything.
LEMMA BlocksStayWhere ==
  ASSUME MapInv, UNCHANGED <<limit, type, own, reserved, mBlocks>>,
         \A k \in 1 .. Len(mBlocks) : LeftOf(k)' = LeftOf(k)
  PROVE  BlocksStand' /\ OnlyKept'
<1>1. BlocksStand /\ OnlyKept
  BY DEF MapInv
<1>2. /\ Kept' = Kept /\ \A b : IsRun(b) <=> IsRun(b)'
      /\ \A a : Content(a)' = Content(a)
  BY ProcessStays DEF processVars
<1>3. \A k \in 1 .. Len(mBlocks) : IsRun(mBlocks[k])'
  BY <1>1, <1>2 DEF BlocksStand
<1>5. ASSUME NEW k \in 1 .. Len(mBlocks) PROVE IsPlaced(k)'
  <2>1. IsPlaced(k)
    BY <1>1 DEF BlocksStand
  <2> QED
    BY <2>1, <1>2 DEF IsPlaced, BlockEnd
<1>6. BlocksStand'
  BY <1>1, <1>3, <1>5 DEF BlocksStand, BlockEnd
<1>7. OnlyKept'
  BY <1>1, <1>2 DEF OnlyKept, BlockEnd
<1> QED
  BY <1>6, <1>7

LEMMA BlocksStay ==
  ASSUME MapInv, UNCHANGED <<limit, type, own, reserved, mBlocks>>,
         pc # "unmap", pc' # "unmap"
  PROVE  BlocksStand' /\ OnlyKept'
<1>1. \A k \in 1 .. Len(mBlocks) : LeftOf(k)' = LeftOf(k)
  BY DEF LeftOf
<1> QED
  BY <1>1, BlocksStayWhere

LEMMA ModulesStay ==
  ASSUME ModulesPassed, UNCHANGED <<limit, type, mModules>>, Passed' = Passed
  PROVE  ModulesPassed'
<1>1. Starts' = Starts /\ \A a : AreaAt(a)' = AreaAt(a)
  BY ProcessStays DEF processVars
<1> QED
  BY <1>1 DEF ModulesPassed

LEMMA CollectAreaKeeps ==
  ASSUME MapInv, CollectArea
  PROVE  MapInv'
<1> USE DEF CollectArea
<1>1. MapState /\ LayoutOK /\ Walking /\ ModulesPassed /\ Collected /\ NoneLeftOut
  BY DEF MapInv, MapState
<1>2. /\ UNCHANGED <<processVars, own, reserved, pc, mModules, mBlocks, sessions>>
      /\ UNCHANGED <<limit, type>>
  BY DEF processVars
<1>3. /\ Starts' = Starts /\ LayoutOK' /\ Kept' = Kept
      /\ \A a : AreaAt(a)' = AreaAt(a) /\ (AfterFree(a) <=> AfterFree(a)')
  BY <1>1, <1>2, ProcessStays
<1>4. /\ \A a \in Starts : a \in Nat /\ a < limit
      /\ limit \in Nat /\ limit < AddressMod /\ AddressMod \in Nat /\ 0 \in Starts
  BY <1>1, StartsAreBelow, MapAssumption DEF LayoutOK
<1>5. BlocksStand' /\ OnlyKept' /\ ModulesPassed' /\ AllKept'
  <2>1. Passed' = Passed
    BY <1>2 DEF Passed
  <2> QED
    BY <1>1, <1>2, <2>1, BlocksStay, ModulesStay DEF AllKept
<1>6. CASE addr \in Starts
  <2>1. /\ Info = AreaAt(addr) /\ Info \in AreaRecord /\ Info.addr = addr
        /\ Info.type = type[addr] /\ Info.type \in Type
        /\ addr + Info.size = AreaEnd(addr) /\ addr' = AreaEnd(addr)
    BY <1>1, <1>6, InfoIs
  <2>2. /\ AreaEnd(addr) \in Starts \cup {limit} /\ AreaEnd(addr) \in Nat
        /\ addr < AreaEnd(addr) /\ AreaEnd(addr) <= limit
        /\ \A b \in Starts : addr < b => AreaEnd(addr) <= b
    BY <1>1, <1>6, AreaEndIs
  <2>3. /\ maps' \in Seq(AreaRecord) /\ maps' # <<>>
        /\ Len(maps) \in Nat /\ Len(maps') = Len(maps) + 1
        /\ \A k \in 1 .. Len(maps) : maps'[k] = maps[k]
        /\ maps'[Len(maps) + 1] = Info
    BY <1>1, <2>1, AppendProperties DEF MapState
  <2>4. BelowEnd' => BelowEnd
    BY <1>2, <2>3 DEF BelowEnd
  <2>5. BelowEnd => BelowEnd'
    <3> SUFFICES ASSUME BelowEnd, NEW k \in 1 .. Len(maps') PROVE maps'[k].type # "Reserved"
      BY <1>2 DEF BelowEnd
    <3>1. CASE k \in 1 .. Len(maps)
      BY <3>1, <2>3 DEF BelowEnd
    <3>2. CASE k = Len(maps) + 1
      BY <3>2, <2>3, <2>1 DEF Type
    <3> QED
      BY <3>1, <3>2, <2>3
  <2>6. MapState'
    <3>1. addr' \in 0 .. AddressMod - 1
      BY <1>4, <2>1, <2>2
    <3> QED
      BY <1>1, <1>2, <1>3, <2>3, <3>1 DEF MapState
  <2>7. Walking'
    <3>1. limit = Top => addr' \in Starts
      BY <2>1, <2>2 DEF AtTop
    <3> QED
      BY <1>1, <1>2, <1>3, <2>1, <2>2, <3>1 DEF Walking
  <2>8. Covered' = Covered /\ (maps # <<>> => maps'[1] = maps[1]) /\ (maps = <<>> => maps'[1] = Info)
    <3>1. CASE maps = <<>>
      BY <3>1, <2>1, <2>3 DEF Covered
    <3>2. CASE maps # <<>>
      <4>1. 1 \in 1 .. Len(maps)
        BY <3>2, <1>1, EmptySeq DEF MapState
      <4> QED
        BY <3>2, <4>1, <2>3 DEF Covered
    <3> QED
      BY <3>1, <3>2
  <2>9. NoneLeftOut'
    BY <1>1, <1>2, <1>3, <2>4, <2>8 DEF NoneLeftOut, InRun, End
  <2>10. Collected'
    <3>1. pc' = "mapBlocks" /\ limit' = Top => BelowEnd'
      BY <1>1, <1>2, <2>5 DEF Collected
    <3>2. ASSUME BelowEnd'
          PROVE  /\ maps'[1].addr \in Starts /\ AfterFree(maps'[1].addr)
                 /\ maps'[1].addr <= addr
                 /\ \A k \in 1 .. Len(maps) : maps'[1].addr <= maps[k].addr
                 /\ \A a \in Starts : maps'[1].addr <= a /\ a < addr =>
                      \E k \in 1 .. Len(maps) : maps[k].addr = a
      <4>1. CASE maps = <<>>
        <5>1. addr # 0
          BY <2>1, <1>1 DEF LayoutOK
        <5> QED
          BY <4>1, <5>1, <2>1, <2>8, <1>1, <1>4, <1>6, <2>3 DEF Collected
      <4>2. CASE maps # <<>>
        <5>1. 1 \in 1 .. Len(maps)
          BY <4>2, <1>1, EmptySeq DEF MapState
        <5> QED
          BY <4>2, <5>1, <2>4, <2>8, <3>2, <1>1, <1>4, <1>6 DEF Collected
      <4> QED
        BY <4>1, <4>2
    <3>3. ASSUME BelowEnd', NEW k \in 1 .. Len(maps')
          PROVE  /\ maps'[k].addr \in Starts /\ maps'[k] = AreaAt(maps'[k].addr)
                 /\ maps'[k].type # "Free"
                 /\ maps'[1].addr <= maps'[k].addr /\ maps'[k].addr < addr'
      <4>1. CASE k \in 1 .. Len(maps)
        <5>1. maps # <<>>
          BY <4>1
        <5>2. /\ maps[k].addr \in Starts /\ maps[k] = AreaAt(maps[k].addr)
              /\ maps[k].type # "Free" /\ maps[k].addr < addr
          BY <1>1, <2>4, <3>3, <4>1, <5>1 DEF Collected
        <5> QED
          BY <3>2, <3>3, <4>1, <5>2, <2>1, <2>2, <2>3, <1>4, <1>6
      <4>2. CASE k = Len(maps) + 1
        BY <3>2, <3>3, <4>2, <2>1, <2>2, <2>3, <1>6
      <4> QED
        BY <4>1, <4>2, <2>3
    <3>4. ASSUME BelowEnd', NEW a \in Starts, maps'[1].addr <= a, a < addr'
          PROVE  \E k \in 1 .. Len(maps') : maps'[k].addr = a
      <4>1. CASE a < addr
        <5>1. PICK k \in 1 .. Len(maps) : maps[k].addr = a
          BY <3>2, <3>4, <4>1
        <5>2. k \in 1 .. Len(maps')
          BY <2>3
        <5> QED
          BY <5>1, <5>2, <2>3
      <4>2. CASE a = addr
        <5>1. Len(maps) + 1 \in 1 .. Len(maps')
          BY <2>3
        <5> QED
          BY <4>2, <5>1, <2>3, <2>1
      <4> QED
        BY <4>1, <4>2, <3>4, <2>1, <2>2, <1>4, <1>6
    <3>5. maps'[Len(maps')].addr + maps'[Len(maps')].size = addr'
      BY <2>1, <2>3
    <3>6. pc' = "mapBlocks" /\ maps' # <<>>
      BY <1>2, <2>3
    <3> QED
      BY <1>3, <3>1, <3>2, <3>3, <3>4, <3>5, <3>6 DEF Collected
  <2> QED
    BY <1>5, <2>6, <2>7, <2>9, <2>10 DEF MapInv
<1>7. CASE addr = limit
  <2>1. /\ Info \in AreaRecord /\ Info.type = "Reserved" /\ addr' = 0
    BY <1>1, <1>7, InfoBehindEnd
  <2>2. /\ maps' \in Seq(AreaRecord) /\ maps' # <<>>
        /\ Len(maps) \in Nat /\ Len(maps') = Len(maps) + 1
        /\ maps'[Len(maps) + 1] = Info
    BY <1>1, <2>1, AppendProperties DEF MapState
  <2>3. ~BelowEnd'
    <3>1. Len(maps) + 1 \in 1 .. Len(maps')
      BY <2>2
    <3> QED
      BY <3>1, <2>1, <2>2 DEF BelowEnd
  <2>4. limit # Top
    BY <1>1, <1>4, <1>7 DEF Walking
  <2>5. MapState'
    BY <1>1, <1>2, <1>3, <1>4, <2>1, <2>2 DEF MapState
  <2>6. Walking' /\ Collected' /\ NoneLeftOut'
    BY <1>1, <1>2, <1>3, <1>4, <2>1, <2>2, <2>3, <2>4 DEF Walking, Collected, NoneLeftOut
  <2> QED
    BY <1>5, <2>5, <2>6 DEF MapInv
<1> QED
  BY <1>1, <1>6, <1>7 DEF Walking

LEMMA SkipFreeAreaKeeps ==
  ASSUME MapInv, SkipFreeArea
  PROVE  MapInv'
<1> USE DEF SkipFreeArea
<1>1. MapState /\ LayoutOK /\ Walking /\ ModulesPassed /\ Collected /\ NoneLeftOut
  BY DEF MapInv, MapState
<1>2. /\ UNCHANGED <<processVars, own, reserved, pc, mModules, maps, mBlocks, sessions>>
      /\ UNCHANGED <<limit, type>>
  BY DEF processVars
<1>3. /\ Starts' = Starts /\ LayoutOK' /\ Kept' = Kept
      /\ \A a : AreaAt(a)' = AreaAt(a) /\ (AfterFree(a) <=> AfterFree(a)')
  BY <1>1, <1>2, ProcessStays
<1>4. /\ \A a \in Starts : a \in Nat /\ a < limit
      /\ limit \in Nat /\ limit < AddressMod /\ AddressMod \in Nat /\ 0 \in Starts
  BY <1>1, StartsAreBelow, MapAssumption DEF LayoutOK
<1>5. BlocksStand' /\ OnlyKept' /\ ModulesPassed' /\ AllKept'
  <2>1. Passed' = Passed
    BY <1>2 DEF Passed
  <2> QED
    BY <1>1, <1>2, <2>1, BlocksStay, ModulesStay DEF AllKept
<1>6. addr \in Starts
  BY <1>1, InfoBehindEnd DEF Walking
<1>7. /\ addr' = AreaEnd(addr) /\ type[addr] = "Free" /\ addr + Info.size = AreaEnd(addr)
  BY <1>1, <1>6, InfoIs
<1>8. /\ AreaEnd(addr) \in Starts \cup {limit} /\ AreaEnd(addr) \in Nat
      /\ addr < AreaEnd(addr) /\ AreaEnd(addr) <= limit
      /\ \A b \in Starts : addr < b => AreaEnd(addr) <= b
  BY <1>1, <1>6, AreaEndIs
<1>9. MapState'
  <2>1. addr' \in 0 .. AddressMod - 1
    BY <1>4, <1>7, <1>8
  <2> QED
    BY <1>1, <1>2, <1>3, <2>1 DEF MapState
<1>10. Walking'
  <2>1. limit = Top => addr' \in Starts
    BY <1>7, <1>8 DEF AtTop
  <2> QED
    BY <1>1, <1>2, <1>3, <1>7, <1>8, <2>1 DEF Walking
<1>11. Collected'
  <2>1. AfterFree(addr')
    BY <1>6, <1>7 DEF AfterFree
  <2> QED
    BY <1>1, <1>2, <1>3, <2>1 DEF Collected, BelowEnd
<1>12. NoneLeftOut'
  <2> SUFFICES ASSUME BelowEnd', NEW a \in Starts, a < Covered', type[a] # "Free"
               PROVE  \E k \in 1 .. Len(mBlocks) : InRun(mBlocks[k], a)
    BY <1>2, <1>3 DEF NoneLeftOut, InRun, End
  <2>1. BelowEnd /\ Covered = addr /\ Covered' = AreaEnd(addr)
    BY <1>2, <1>7 DEF BelowEnd, Covered
  <2>2. a < addr
    BY <2>1, <1>4, <1>6, <1>7, <1>8
  <2> QED
    BY <1>1, <2>1, <2>2 DEF NoneLeftOut
<1> QED
  BY <1>5, <1>9, <1>10, <1>11, <1>12 DEF MapInv

LEMMA MapBlockAbortsKeeps ==
  ASSUME MapInv, MapBlockAborts
  PROVE  MapInv'
<1> USE DEF MapBlockAborts
<1>1. MapState /\ LayoutOK /\ Walking /\ ModulesPassed /\ Collected
  BY DEF MapInv, MapState
<1>2. /\ UNCHANGED <<processVars, own, reserved, addr, mModules, maps, mBlocks, sessions>>
      /\ UNCHANGED <<limit, type>>
  BY DEF processVars
<1>3. LayoutOK'
  BY <1>1, <1>2, ProcessStays
<1>4. BlocksStand' /\ OnlyKept' /\ ModulesPassed'
  <2>1. Passed' = Passed
    BY <1>2 DEF Passed
  <2> QED
    BY <1>1, <1>2, <2>1, BlocksStay, ModulesStay
<1>5. MapState' /\ Walking' /\ Collected' /\ NoneLeftOut' /\ AllKept'
  BY <1>1, <1>2, <1>3 DEF MapState, Walking, Collected, NoneLeftOut, AllKept, BelowEnd
<1> QED
  BY <1>4, <1>5 DEF MapInv

LEMMA EndMappingKeeps ==
  ASSUME MapInv, EndMapping
  PROVE  MapInv'
<1> USE DEF EndMapping
<1>1. MapState /\ LayoutOK /\ Walking /\ ModulesPassed /\ Collected /\ NoneLeftOut
  BY DEF MapInv, MapState
<1>2. /\ UNCHANGED <<processVars, own, reserved, mModules, mBlocks, sessions>>
      /\ UNCHANGED <<limit, type>>
  BY DEF processVars
<1>3. /\ Starts' = Starts /\ LayoutOK' /\ \A a : FollowedAt(a) <=> FollowedAt(a)'
  BY <1>1, <1>2, ProcessStays
<1>4. /\ \A a \in Starts : a \in Nat /\ a < limit
      /\ limit \in Nat /\ limit < AddressMod /\ AddressMod \in Nat /\ limit <= Top /\ Top \in Nat
      /\ Top < AddressMod
  BY <1>1, StartsAreBelow, MapAssumption DEF LayoutOK
<1>5. BlocksStand' /\ OnlyKept' /\ ModulesPassed'
  <2>1. Passed' = Passed
    BY <1>2 DEF Passed
  <2> QED
    BY <1>1, <1>2, <2>1, BlocksStay, ModulesStay
<1>6. addr \in Starts
  BY <1>1, <1>4, InfoBehindEnd DEF Walking, AtTop
<1>7. /\ AreaEnd(addr) = Top
      /\ AreaEnd(addr) <= limit
      /\ \A b \in Starts : addr < b => AreaEnd(addr) <= b
  BY <1>1, <1>6, InfoIs, AreaEndIs DEF AtTop
<1>8. limit = Top /\ BelowEnd
  BY <1>1, <1>4, <1>7 DEF Collected
<1>9. ASSUME NEW a \in Starts, type[a] # "Free", FollowedAt(a)
      PROVE  \E k \in 1 .. Len(mBlocks) : InRun(mBlocks[k], a)
  <2>1. PICK f \in Starts : type[f] = "Free" /\ f > a /\ AreaEnd(f) # limit
    BY <1>9 DEF FollowedAt
  <2>2. f < addr
    BY <2>1, <1>4, <1>6, <1>7, <1>8
  <2>3. a < Covered
    <3> SUFFICES ASSUME ~(a < Covered) PROVE FALSE
      OBVIOUS
    <3>1. maps # <<>> /\ Covered = maps[1].addr /\ maps[1].addr \in Starts
      BY <2>1, <2>2, <1>1, <1>4, <1>6, <1>8 DEF Covered, Collected
    <3>2. maps[1].addr <= f
      BY <2>1, <3>1, <1>4
    <3>3. PICK k \in 1 .. Len(maps) : maps[k].addr = f
      BY <2>2, <3>1, <3>2, <1>1, <1>8 DEF Collected
    <3>4. maps[k] = AreaAt(f) /\ maps[k].type # "Free"
      BY <3>1, <3>3, <1>1, <1>8 DEF Collected
    <3> QED
      BY <3>4, <2>1, <1>1, AreaAtStart
  <2> QED
    BY <1>1, <1>8, <1>9, <2>3 DEF NoneLeftOut
<1>10. MapState'
  BY <1>1, <1>2, <1>3, <1>4 DEF MapState
<1>11. Walking' /\ Collected' /\ AllKept'
  BY <1>1, <1>2, <1>8 DEF Walking, Collected, AllKept, BelowEnd
<1>12. ASSUME NEW a \in Starts, type[a] = "Io", FollowedAt(a) PROVE FALSE
  <2>1. PICK k \in 1 .. Len(mBlocks) : InRun(mBlocks[k], a)
    BY <1>9, <1>12
  <2>2. IsRun(mBlocks[k])
    BY DEF MapInv, BlocksStand
  <2> QED
    BY <1>12, <2>1, <2>2 DEF InRun, IsRun
<1>13. NoneLeftOut'
  BY <1>2, <1>3, <1>9, <1>12 DEF NoneLeftOut, BelowEnd, InRun, End
<1> QED
  BY <1>5, <1>10, <1>11, <1>13 DEF MapInv

-----------------------------------------------------------------------------
(* Mapping a block. *)

\* mapBlock maps what can be mapped of the areas collected, which follow each other.
LEMMA CollectedPages ==
  ASSUME MapInv, BelowEnd, maps # <<>>, addr \in Starts, NEW p \in Int,
         \A area \in MappedAreas : ~IsRefused(area)
  PROVE  (\E area \in MappedAreas : p \in PagesOf(area)) <=>
           maps[1].addr <= p /\ p < addr /\ type[StartOf(p)] \in {"Code", "Data"}
<1>1. /\ LayoutOK /\ maps \in Seq(AreaRecord)
      /\ maps[1].addr \in Starts
      /\ \A k \in 1 .. Len(maps) :
           /\ maps[k].addr \in Starts /\ maps[k] = AreaAt(maps[k].addr)
           /\ maps[k].type # "Free"
           /\ maps[1].addr <= maps[k].addr /\ maps[k].addr < addr
      /\ \A a \in Starts : maps[1].addr <= a /\ a < addr =>
           \E k \in 1 .. Len(maps) : maps[k].addr = a
  BY DEF MapInv, MapState, Collected
<1>2. limit \in Nat /\ \A a \in Starts : a \in Nat /\ a < limit
  BY <1>1, StartsAreBelow
<1>3. ASSUME NEW area \in MappedAreas, p \in PagesOf(area)
      PROVE  maps[1].addr <= p /\ p < addr /\ type[StartOf(p)] \in {"Code", "Data"}
  <2>1. PICK k \in 1 .. Len(maps) : maps[k] = area /\ area.type # "Shared"
    BY <1>1 DEF MappedAreas, IsMapped, Range
  <2> DEFINE a == maps[k].addr
  <2>2. a \in Starts /\ area = AreaAt(a) /\ maps[1].addr <= a /\ a < addr /\ area.type # "Free"
    BY <1>1, <2>1
  <2> HIDE DEF a
  <2>3. area.type = type[a] /\ type[a] \in Type /\ PagesOf(area) = a .. AreaEnd(a) - 1
    BY <1>1, <2>2, AreaAtStart DEF LayoutOK
  <2>4. type[a] \in {"Code", "Data"}
    BY <1>3, <2>1, <2>2, <2>3 DEF Type, IsRefused
  <2>5. StartOf(p) = a
    BY <1>1, <1>3, <2>2, <2>3, StartOfUnique
  <2>6. AreaEnd(a) <= addr /\ AreaEnd(a) \in Nat
    BY <1>1, <2>2, AreaEndIs
  <2>7. a <= p /\ p < AreaEnd(a) /\ a \in Nat /\ addr \in Nat /\ maps[1].addr \in Nat
    BY <1>1, <1>2, <1>3, <2>2, <2>3, <2>6
  <2> QED
    BY <2>2, <2>4, <2>5, <2>6, <2>7
<1>4. ASSUME maps[1].addr <= p, p < addr, type[StartOf(p)] \in {"Code", "Data"}
      PROVE  \E area \in MappedAreas : p \in PagesOf(area)
  <2>1. p \in 0 .. limit - 1
    BY <1>1, <1>2, <1>4
  <2>2. /\ StartOf(p) \in Starts /\ StartOf(p) <= p /\ p < AreaEnd(StartOf(p))
        /\ \A b \in Starts : b <= p => b <= StartOf(p)
    BY <1>1, <2>1, StartOfIs
  <2>3. maps[1].addr <= StartOf(p) /\ StartOf(p) < addr
    BY <1>1, <1>2, <1>4, <2>2
  <2>4. PICK k \in 1 .. Len(maps) : maps[k].addr = StartOf(p)
    BY <1>1, <2>2, <2>3
  <2>5. maps[k] = AreaAt(StartOf(p))
    BY <1>1, <2>4
  <2>6. maps[k].type = type[StartOf(p)] /\ PagesOf(maps[k]) = StartOf(p) .. AreaEnd(StartOf(p)) - 1
    BY <1>1, <2>2, <2>5, AreaAtStart
  <2>7. maps[k] \in MappedAreas
    BY <1>1, <1>4, <2>6 DEF MappedAreas, IsMapped, Range
  <2>8. p \in PagesOf(maps[k])
    BY <1>1, <1>2, <2>2, <2>6, AreaEndIs
  <2> QED
    BY <2>7, <2>8
<1> QED
  BY <1>3, <1>4

LEMMA FoundIsFree ==
  ASSUME NEW size \in Nat \ {0}, NEW found \in FindAslr(size)
  PROVE  /\ found \in Nat /\ 0 < found /\ found + size < OwnPages
         /\ \A q \in found - 1 .. found + size :
              q \in OwnPage /\ own[q] = NotMapped /\ q \notin reserved
<1>1. /\ found \in OwnPage
      /\ \A q \in found - Guard .. found + size + Guard - 1 :
           q \in OwnPage /\ own[q] = NotMapped /\ q \notin reserved
  BY DEF FindAslr
<1>2. found \in Nat /\ Guard \in Nat \ {0} /\ OwnPages \in Nat
  BY <1>1, MapAssumption DEF OwnPage
<1>3. \A q \in found - 1 .. found + size : q \in found - Guard .. found + size + Guard - 1
  BY <1>2
<1>4. \A q \in found - 1 .. found + size :
        q \in OwnPage /\ own[q] = NotMapped /\ q \notin reserved
  BY <1>1, <1>3
<1>5. found - 1 \in OwnPage /\ found + size \in OwnPage
  BY <1>2, <1>4
<1> QED
  BY <1>2, <1>4, <1>5 DEF OwnPage

\* The block of the areas collected, mapped at found.
LEMMA NewBlock ==
  ASSUME MapInv, MapBlock
  PROVE  /\ BelowEnd /\ addr \in Starts /\ type[addr] = "Free"
         /\ addr' = AreaEnd(addr) /\ AreaEnd(addr) # Top
         /\ \E b \in BlockRecord :
              /\ mBlocks' = Append(mBlocks, b)
              /\ b.startOrig = maps[1].addr /\ End(b) = addr /\ IsRun(b)
              /\ 0 < b.startMapped /\ BlockEnd(b) < OwnPages
              /\ \A q \in b.startMapped - 1 .. BlockEnd(b) :
                   q \in OwnPage /\ own[q] = NotMapped /\ q \notin reserved
              /\ reserved' = reserved \cup (b.startMapped .. BlockEnd(b) - 1)
              /\ own' = [q \in OwnPage |->
                           IF b.startMapped <= q /\ q < BlockEnd(b)
                           THEN Content(q - b.startMapped + b.startOrig) ELSE own[q]]
<1> USE DEF MapBlock
<1>1. MapState /\ LayoutOK /\ Walking /\ Collected
  BY DEF MapInv, MapState
<1>2. /\ \A a \in Starts : a \in Nat /\ a < limit
      /\ limit \in Nat
  BY <1>1, StartsAreBelow
<1>3. addr \in Starts
  BY <1>1, InfoBehindEnd DEF Walking
<1>4. /\ addr' = AreaEnd(addr) /\ type[addr] = "Free" /\ AreaEnd(addr) # Top
  BY <1>1, <1>3, InfoIs DEF AtTop
<1>5. /\ maps \in Seq(AreaRecord) /\ maps # <<>>
      /\ Head(maps) = maps[1] /\ Last(maps) = maps[Len(maps)]
      /\ 1 \in 1 .. Len(maps) /\ Len(maps) \in 1 .. Len(maps)
  BY <1>1, EmptySeq DEF MapState, Last
<1>6. BelowEnd
  BY <1>5 DEF BelowEnd, Range, MappedAreas, IsMapped, IsRefused
<1>7. /\ maps[1].addr \in Starts /\ AfterFree(maps[1].addr) /\ maps[1].addr < addr
      /\ maps[Len(maps)].addr \in Starts /\ maps[Len(maps)].addr + maps[Len(maps)].size = addr
      /\ \A a \in Starts : maps[1].addr <= a /\ a < addr =>
           \E k \in 1 .. Len(maps) : maps[k].addr = a
      /\ \A k \in 1 .. Len(maps) : maps[k] = AreaAt(maps[k].addr) /\ maps[k].type # "Free"
  BY <1>1, <1>5, <1>6 DEF Collected
<1> DEFINE size == addr - maps[1].addr
<1>8. BlockSize(Head(maps), Last(maps)) = size /\ size \in Nat \ {0}
  <2>1. maps[1].addr \in Nat /\ maps[Len(maps)].addr \in Nat /\ maps[Len(maps)].size \in Nat /\ addr \in Nat
    <3>1. maps[Len(maps)] \in AreaRecord
      BY <1>5, ElementOfSeq, Zenon
    <3>2. maps[Len(maps)].size \in Nat
      BY <3>1 DEF AreaRecord
    <3> QED
      BY <1>2, <1>3, <1>7, <3>2
  <2>2. maps[Len(maps)].addr - maps[1].addr + maps[Len(maps)].size = size
    BY <2>1, <1>7
  <2> QED
    BY <2>1, <2>2, <1>5, <1>7 DEF BlockSize
<1> HIDE DEF size
<1>9. PICK found \in FindAslr(size) : MapBlockAt(found, Head(maps), Last(maps))
  BY <1>5, <1>8
<1> DEFINE b == [startOrig |-> maps[1].addr, startMapped |-> found, size |-> size]
<1>10. /\ found \in Nat /\ 0 < found /\ found + size < OwnPages
       /\ \A q \in found - 1 .. found + size :
            q \in OwnPage /\ own[q] = NotMapped /\ q \notin reserved
  BY <1>8, <1>9, FoundIsFree
<1>11. /\ mBlocks' = Append(mBlocks, b)
       /\ reserved' = reserved \cup (found .. found + size - 1)
       /\ own' = [q \in OwnPage |->
            IF q >= found /\ \E area \in MappedAreas : q - found + maps[1].addr \in PagesOf(area)
            THEN q - found + maps[1].addr ELSE own[q]]
  BY <1>5, <1>8, <1>9 DEF MapBlockAt
<1>12. b \in BlockRecord /\ b.startOrig = maps[1].addr /\ b.startMapped = found /\ b.size = size
  BY <1>2, <1>7, <1>8, <1>10 DEF BlockRecord
<1>13. End(b) = addr /\ BlockEnd(b) = found + size
  BY <1>2, <1>3, <1>7, <1>12 DEF End, BlockEnd, size
<1> HIDE DEF b
<1>14. IsRun(b)
  <2>1. ASSUME NEW a \in Starts, maps[1].addr <= a, a < addr PROVE type[a] \notin {"Free", "Io"}
    <3>1. PICK k \in 1 .. Len(maps) : maps[k].addr = a
      BY <1>7, <2>1
    <3>2. maps[k].type = type[a] /\ maps[k].type # "Free" /\ maps[k] \in Range(maps)
      BY <1>1, <1>5, <1>7, <3>1, AreaAtStart DEF Range
    <3> QED
      BY <3>2 DEF MappedAreas, IsMapped, IsRefused
  <2> QED
    BY <1>3, <1>4, <1>7, <1>8, <1>12, <1>13, <2>1 DEF IsRun
<1>15. \A q \in OwnPage : own'[q] = IF found <= q /\ q < found + size
                                    THEN Content(q - found + maps[1].addr) ELSE own[q]
  <2> SUFFICES ASSUME NEW q \in OwnPage
               PROVE  own'[q] = IF found <= q /\ q < found + size
                                THEN Content(q - found + maps[1].addr) ELSE own[q]
    OBVIOUS
  <2> DEFINE p == q - found + maps[1].addr
  <2>1. own'[q] = IF q >= found /\ \E area \in MappedAreas : p \in PagesOf(area) THEN p ELSE own[q]
    BY <1>11
  <2>2. q \in Nat /\ p \in Int /\ maps[1].addr \in Nat /\ addr \in Nat /\ size \in Nat
    BY <1>2, <1>3, <1>7, <1>8, <1>10 DEF OwnPage
  <2>3. (found <= q /\ q < found + size) <=> (maps[1].addr <= p /\ p < addr)
    BY <1>10, <2>2, SMTT(30) DEF size
  <2>4. found <= q <=> maps[1].addr <= p
    BY <1>10, <2>2
  <2>5. found <= q /\ q < found + size => own[q] = NotMapped
    BY <1>10, <2>2
  <2> HIDE DEF p
  <2>6. (\E area \in MappedAreas : p \in PagesOf(area)) <=>
           maps[1].addr <= p /\ p < addr /\ type[StartOf(p)] \in {"Code", "Data"}
    BY <1>3, <1>5, <1>6, <2>2, CollectedPages
  <2>7. own'[q] = IF found <= q /\ q < found + size THEN Content(p) ELSE own[q]
    <3>1. q >= found <=> found <= q
      BY <1>10, <2>2
    <3> QED
      BY <2>1, <2>3, <2>4, <2>5, <2>6, <3>1 DEF Content
  <2> QED
    BY <2>7 DEF p
<1>16. own' = [q \in OwnPage |->
                 IF b.startMapped <= q /\ q < BlockEnd(b)
                 THEN Content(q - b.startMapped + b.startOrig) ELSE own[q]]
  BY <1>11, <1>12, <1>13, <1>15
<1>17. /\ 0 < b.startMapped /\ BlockEnd(b) < OwnPages
       /\ \A q \in b.startMapped - 1 .. BlockEnd(b) :
            q \in OwnPage /\ own[q] = NotMapped /\ q \notin reserved
       /\ reserved' = reserved \cup (b.startMapped .. BlockEnd(b) - 1)
  <2>1. reserved' = reserved \cup (b.startMapped .. BlockEnd(b) - 1)
    <3>1. found + size = BlockEnd(b) /\ found = b.startMapped
      BY <1>12, <1>13
    <3>2. found .. found + size - 1 = b.startMapped .. BlockEnd(b) - 1
      BY <1>8, <1>10, <3>1
    <3> QED
      BY <1>11, <3>2
  <2>2. 0 < b.startMapped /\ BlockEnd(b) < OwnPages
    BY <1>10, <1>12, <1>13
  <2>3. b.startMapped - 1 = found - 1
    BY <1>12
  <2> QED
    BY <2>1, <2>2, <2>3, <1>10, <1>13, Zenon
<1>18. mBlocks' = Append(mBlocks, b)
  BY <1>11
<1> QED
  BY <1>3, <1>4, <1>6, <1>12, <1>13, <1>14, <1>16, <1>17, <1>18, Zenon

LEMMA MapBlockKeeps ==
  ASSUME MapInv, MapBlock
  PROVE  MapInv'
<1>1. /\ MapState /\ LayoutOK /\ Walking /\ ModulesPassed /\ Collected /\ BlocksStand
      /\ NoneLeftOut /\ OnlyKept
  BY DEF MapInv, MapState
<1>2. /\ pc = "mapBlocks" /\ pc' = "mapBlocks" /\ maps # <<>> /\ maps' = <<>>
      /\ UNCHANGED <<limit, type, mModules, sessions>> /\ UNCHANGED processVars
  BY DEF MapBlock, processVars
<1>3. /\ Starts' = Starts /\ LayoutOK' /\ Kept' = Kept
      /\ \A a : Content(a)' = Content(a) /\ (AfterFree(a) <=> AfterFree(a)')
      /\ \A c : IsRun(c) <=> IsRun(c)'
  BY <1>1, <1>2, ProcessStays
<1>4. /\ \A a \in Starts : a \in Nat /\ a < limit
      /\ limit \in Nat /\ limit < AddressMod /\ AddressMod \in Nat
  BY <1>1, StartsAreBelow, MapAssumption DEF LayoutOK
<1>5. /\ BelowEnd /\ addr \in Starts /\ type[addr] = "Free"
      /\ addr' = AreaEnd(addr) /\ AreaEnd(addr) # Top
  BY NewBlock
<1>6. PICK b \in BlockRecord :
        /\ mBlocks' = Append(mBlocks, b)
        /\ b.startOrig = maps[1].addr /\ End(b) = addr /\ IsRun(b)
        /\ 0 < b.startMapped /\ BlockEnd(b) < OwnPages
        /\ \A q \in b.startMapped - 1 .. BlockEnd(b) :
             q \in OwnPage /\ own[q] = NotMapped /\ q \notin reserved
        /\ reserved' = reserved \cup (b.startMapped .. BlockEnd(b) - 1)
        /\ own' = [q \in OwnPage |->
                     IF b.startMapped <= q /\ q < BlockEnd(b)
                     THEN Content(q - b.startMapped + b.startOrig) ELSE own[q]]
  BY NewBlock
<1>7. /\ b.startOrig \in Nat /\ b.startMapped \in Nat /\ b.size \in Nat /\ 0 < b.size
      /\ End(b) = b.startOrig + b.size /\ BlockEnd(b) = b.startMapped + b.size
      /\ OwnPages \in Nat
  BY <1>6, MapAssumption DEF BlockRecord, IsRun, End, BlockEnd
<1>8. /\ AreaEnd(addr) \in Starts \cup {limit} /\ AreaEnd(addr) \in Nat
      /\ addr < AreaEnd(addr) /\ AreaEnd(addr) <= limit
      /\ \A c \in Starts : addr < c => AreaEnd(addr) <= c
  BY <1>1, <1>5, AreaEndIs
<1>9. /\ Len(mBlocks) \in Nat /\ mBlocks' \in Seq(BlockRecord)
      /\ Len(mBlocks') = Len(mBlocks) + 1
      /\ \A k \in 1 .. Len(mBlocks) : mBlocks'[k] = mBlocks[k] /\ mBlocks[k] \in BlockRecord
      /\ mBlocks'[Len(mBlocks) + 1] = b
  BY <1>1, <1>6, AppendProperties, ElementOfSeq DEF MapState
<1>10. MapState'
  <2>1. ASSUME NEW q \in OwnPage PROVE own'[q] \in {NotMapped} \cup (0 .. limit - 1)
    <3>1. CASE b.startMapped <= q /\ q < BlockEnd(b)
      <4> DEFINE p == q - b.startMapped + b.startOrig
      <4>1. q \in Nat
        BY DEF OwnPage
      <4>2. p \in 0 .. limit - 1
        <5>1. b.startOrig + b.size < limit /\ limit \in Nat
          BY <1>4, <1>5, <1>6, <1>7
        <5>2. q - b.startMapped \in 0 .. b.size - 1
          BY <1>7, <3>1, <4>1
        <5> QED
          BY <1>7, <5>1, <5>2
      <4>3. own'[q] = Content(p)
        BY <1>6, <3>1
      <4> HIDE DEF p
      <4> QED
        BY <4>2, <4>3 DEF Content
    <3>2. CASE ~(b.startMapped <= q /\ q < BlockEnd(b))
      BY <1>1, <1>6, <3>2 DEF MapState
    <3> QED
      BY <3>1, <3>2
  <2>2. own' \in [OwnPage -> {NotMapped} \cup (0 .. limit - 1)]
    BY <1>6, <2>1
  <2>3. reserved' \subseteq OwnPage
    <3>1. b.startMapped .. BlockEnd(b) - 1 \subseteq OwnPage
      BY <1>7, <1>6, SMTT(30) DEF OwnPage
    <3> QED
      BY <1>1, <1>6, <3>1 DEF MapState
  <2>4. addr' \in 0 .. AddressMod - 1
    BY <1>4, <1>5, <1>8
  <2>5. maps' \in Seq(AreaRecord)
    BY <1>2
  <2> QED
    BY <1>1, <1>2, <1>3, <1>9, <2>2, <2>3, <2>4, <2>5 DEF MapState
<1>11. Walking'
  BY <1>1, <1>2, <1>3, <1>5, <1>8 DEF Walking
<1>12. ModulesPassed'
  <2>1. Passed' = Passed
    BY <1>2 DEF Passed
  <2> QED
    BY <1>1, <1>2, <2>1, ModulesStay
<1>13. Collected' /\ BelowEnd' /\ Covered' = AreaEnd(addr)
  <2>1. AfterFree(addr') /\ Len(maps') = 0
    BY <1>2, <1>5 DEF AfterFree
  <2>2. BelowEnd' /\ Covered' = AreaEnd(addr)
    BY <1>2, <1>5, <2>1 DEF BelowEnd, Covered
  <2> QED
    BY <1>2, <1>3, <2>1, <2>2 DEF Collected
<1>14. NoneLeftOut'
  <2> SUFFICES ASSUME NEW a \in Starts, a < AreaEnd(addr), type[a] # "Free"
               PROVE  \E k \in 1 .. Len(mBlocks') : InRun(mBlocks'[k], a)
    BY <1>2, <1>3, <1>13 DEF NoneLeftOut, InRun, End
  <2>1. a < addr
    BY <1>4, <1>5, <1>8
  <2>2. CASE a < maps[1].addr
    <3>1. PICK k \in 1 .. Len(mBlocks) : InRun(mBlocks[k], a)
      BY <1>1, <1>2, <1>5, <2>2 DEF NoneLeftOut, Covered
    <3>2. k \in 1 .. Len(mBlocks') /\ mBlocks'[k] = mBlocks[k]
      BY <1>9
    <3> QED
      BY <3>1, <3>2
  <2>3. CASE ~(a < maps[1].addr)
    <3>1. InRun(b, a)
      BY <1>4, <1>6, <1>7, <2>1, <2>3 DEF InRun
    <3>2. Len(mBlocks) + 1 \in 1 .. Len(mBlocks')
      BY <1>9
    <3> QED
      BY <1>9, <3>1, <3>2
  <2> QED
    BY <2>2, <2>3
<1>15. ASSUME NEW k \in 1 .. Len(mBlocks)
       PROVE  /\ BlockEnd(mBlocks[k]) < b.startMapped \/ BlockEnd(b) < mBlocks[k].startMapped
              /\ IsRun(mBlocks[k])'
              /\ IsPlaced(k)'
  <2> DEFINE c == mBlocks[k]
  <2>1. IsRun(c) /\ IsPlaced(k)
    BY <1>1 DEF BlocksStand
  <2>2. /\ c.startMapped \in Nat /\ c.size \in Nat /\ 0 < c.size
        /\ BlockEnd(c) = c.startMapped + c.size /\ LeftOf(k) = c.startMapped
    BY <1>2, <1>9, <2>1 DEF BlockRecord, IsRun, BlockEnd, LeftOf
  <2>3. /\ c.startMapped > 0 /\ BlockEnd(c) < OwnPages /\ own[BlockEnd(c)] = NotMapped
        /\ c.startMapped .. BlockEnd(c) - 1 \subseteq reserved
        /\ \A q \in c.startMapped .. BlockEnd(c) - 1 :
             own[q] = Content(q - c.startMapped + c.startOrig)
    BY <2>1, <2>2 DEF IsPlaced
  <2>4. mBlocks'[k] = c /\ IsRun(c)'
    BY <1>3, <1>9, <2>1
  <2> HIDE DEF c
  <2>5. BlockEnd(c) < b.startMapped \/ BlockEnd(b) < c.startMapped
    <3> SUFFICES ASSUME BlockEnd(c) >= b.startMapped, BlockEnd(b) >= c.startMapped PROVE FALSE
      BY <1>7, <2>2
    <3>1. CASE c.startMapped < b.startMapped
      <4>1. b.startMapped - 1 \in c.startMapped .. BlockEnd(c) - 1
        BY <1>7, <2>2, <3>1
      <4>2. b.startMapped - 1 \in b.startMapped - 1 .. BlockEnd(b)
        BY <1>7
      <4> QED
        BY <1>6, <2>3, <4>1, <4>2
    <3>2. CASE c.startMapped >= b.startMapped
      <4>1. c.startMapped \in c.startMapped .. BlockEnd(c) - 1
        BY <2>2
      <4>2. c.startMapped \in b.startMapped - 1 .. BlockEnd(b)
        BY <1>7, <2>2, <3>2
      <4> QED
        BY <1>6, <2>3, <4>1, <4>2
    <3> QED
      BY <3>1, <3>2, <1>7, <2>2
  <2>6. \A q \in c.startMapped .. BlockEnd(c) : own'[q] = own[q]
    <3> SUFFICES ASSUME NEW q \in c.startMapped .. BlockEnd(c) PROVE own'[q] = own[q]
      OBVIOUS
    <3>1. q \in OwnPage
      BY <1>7, <2>2, <2>3 DEF OwnPage
    <3>2. ~(b.startMapped <= q /\ q < BlockEnd(b))
      BY <1>7, <2>2, <2>5
    <3> QED
      BY <1>6, <3>1, <3>2
  <2>7. IsPlaced(k)'
    <3>1. own'[BlockEnd(c)] = NotMapped
      BY <2>2, <2>3, <2>6
    <3>2. \A q \in c.startMapped .. BlockEnd(c) - 1 :
            own'[q] = Content(q - c.startMapped + c.startOrig)
      BY <2>2, <2>3, <2>6
    <3>3. LeftOf(k)' = c.startMapped /\ BlockEnd(mBlocks[k])' = BlockEnd(c)
      BY <1>2, <2>4 DEF LeftOf, BlockEnd
    <3>4. c.startMapped .. BlockEnd(c) - 1 \subseteq reserved'
      BY <1>6, <2>3
    <3>5. c.startMapped <= BlockEnd(c) /\ c.startMapped .. c.startMapped - 1 = {}
      BY <2>2
    <3> QED
      BY <1>3, <2>2, <2>3, <2>4, <3>1, <3>2, <3>3, <3>4, <3>5 DEF IsPlaced
  <2> QED
    BY <2>4, <2>5, <2>7 DEF c
<1>16. ASSUME NEW n \in Nat, n = Len(mBlocks) + 1
       PROVE  IsRun(mBlocks[n])' /\ IsPlaced(n)'
  <2>1. mBlocks'[n] = b /\ LeftOf(n)' = b.startMapped /\ BlockEnd(mBlocks[n])' = BlockEnd(b)
    BY <1>2, <1>9, <1>16 DEF LeftOf, BlockEnd
  <2>2. IsRun(b)'
    BY <1>3, <1>6
  <2>3. own'[BlockEnd(b)] = NotMapped
    <3>1. BlockEnd(b) \in b.startMapped - 1 .. BlockEnd(b)
      BY <1>7
    <3>2. BlockEnd(b) \in OwnPage /\ own[BlockEnd(b)] = NotMapped
      BY <1>6, <3>1
    <3> QED
      BY <1>6, <1>7, <3>2
  <2>4. \A q \in b.startMapped .. BlockEnd(b) - 1 :
          own'[q] = Content(q - b.startMapped + b.startOrig)
    <3> SUFFICES ASSUME NEW q \in b.startMapped .. BlockEnd(b) - 1
                 PROVE  own'[q] = Content(q - b.startMapped + b.startOrig)
      OBVIOUS
    <3>1. q \in OwnPage /\ b.startMapped <= q /\ q < BlockEnd(b)
      BY <1>6, <1>7 DEF OwnPage
    <3> QED
      BY <1>6, <3>1
  <2>5. b.startMapped <= BlockEnd(b) /\ b.startMapped .. b.startMapped - 1 = {}
    BY <1>7
  <2>6. b.startMapped .. BlockEnd(b) - 1 \subseteq reserved'
    BY <1>6
  <2>7. IsRun(mBlocks[n])'
    BY <2>1, <2>2
  <2>8. IsPlaced(n)'
    BY <1>3, <1>6, <1>7, <2>1, <2>3, <2>4, <2>5, <2>6 DEF IsPlaced
  <2> QED
    BY <2>7, <2>8
<1>17. BlocksStand'
  <2>1. ASSUME NEW k \in 1 .. Len(mBlocks') PROVE IsRun(mBlocks[k])' /\ IsPlaced(k)'
    <3>1. CASE k \in 1 .. Len(mBlocks)
      BY <1>15, <3>1
    <3>2. CASE k = Len(mBlocks) + 1
      BY <1>9, <1>16, <3>2
    <3> QED
      BY <1>9, <3>1, <3>2
  <2>2. ASSUME NEW j \in 1 .. Len(mBlocks'), NEW k \in 1 .. Len(mBlocks'), j # k
        PROVE  \/ BlockEnd(mBlocks'[j]) < mBlocks'[k].startMapped
               \/ BlockEnd(mBlocks'[k]) < mBlocks'[j].startMapped
    <3>1. CASE j \in 1 .. Len(mBlocks) /\ k \in 1 .. Len(mBlocks)
      BY <1>1, <1>9, <2>2, <3>1 DEF BlocksStand
    <3>2. CASE j \in 1 .. Len(mBlocks) /\ k = Len(mBlocks) + 1
      BY <1>9, <1>15, <3>2
    <3>3. CASE j = Len(mBlocks) + 1 /\ k \in 1 .. Len(mBlocks)
      BY <1>9, <1>15, <3>3
    <3> QED
      BY <1>9, <2>2, <3>1, <3>2, <3>3
  <2> QED
    BY <2>1, <2>2 DEF BlocksStand, BlockEnd
<1>18. OnlyKept'
  <2> SUFFICES ASSUME NEW q \in OwnPage, own'[q] # NotMapped
               PROVE  \/ own'[q] \in Kept
                      \/ \E k \in 1 .. Len(mBlocks') :
                           mBlocks'[k].startMapped <= q /\ q < BlockEnd(mBlocks'[k])
    BY <1>3 DEF OnlyKept, BlockEnd
  <2>1. CASE b.startMapped <= q /\ q < BlockEnd(b)
    <3>1. Len(mBlocks) + 1 \in 1 .. Len(mBlocks')
      BY <1>9
    <3> QED
      BY <1>9, <2>1, <3>1
  <2>2. CASE ~(b.startMapped <= q /\ q < BlockEnd(b))
    <3>1. own'[q] = own[q]
      BY <1>6, <2>2
    <3>2. \A k \in 1 .. Len(mBlocks) : k \in 1 .. Len(mBlocks') /\ mBlocks'[k] = mBlocks[k]
      BY <1>9
    <3> QED
      BY <1>1, <3>1, <3>2 DEF OnlyKept
  <2> QED
    BY <2>1, <2>2
<1>19. AllKept'
  BY <1>2 DEF AllKept
<1> QED
  BY <1>10, <1>11, <1>12, <1>13, <1>14, <1>17, <1>18, <1>19 DEF MapInv

-----------------------------------------------------------------------------
(* Translating an address, and unmapping. *)

\* Every page that can be mapped and is followed by a free area is in a block.
LEMMA InABlock ==
  ASSUME MapInv, pc = "open", NEW p \in MappablePages
  PROVE  \E k \in 1 .. Len(mBlocks) : mBlocks[k].startOrig <= p /\ p < End(mBlocks[k])
<1>1. LayoutOK /\ NoneLeftOut /\ BlocksStand /\ mBlocks \in Seq(BlockRecord)
  BY DEF MapInv, MapState
<1>2. p \in 0 .. limit - 1 /\ type[StartOf(p)] \in {"Code", "Data"} /\ FollowedAt(StartOf(p))
  BY <1>1, MappableIs
<1>3. /\ StartOf(p) \in Starts /\ StartOf(p) <= p
      /\ \A b \in Starts : b <= p => b <= StartOf(p)
  BY <1>1, <1>2, StartOfIs
<1>4. PICK k \in 1 .. Len(mBlocks) : InRun(mBlocks[k], StartOf(p))
  BY <1>1, <1>2, <1>3 DEF NoneLeftOut
<1>5. /\ mBlocks[k].startOrig \in Starts /\ End(mBlocks[k]) \in Starts
      /\ mBlocks[k].startOrig <= StartOf(p) /\ StartOf(p) < End(mBlocks[k])
  BY <1>1, <1>4 DEF BlocksStand, IsRun, InRun
<1>6. /\ mBlocks[k].startOrig \in Nat /\ End(mBlocks[k]) \in Nat /\ StartOf(p) \in Nat
      /\ limit \in Nat
  BY <1>1, <1>3, <1>5, StartsAreBelow
<1> QED
  BY <1>2, <1>3, <1>5, <1>6

\* Where a page of a block is mapped.
LEMMA IsMappedAt ==
  ASSUME MapInv, pc # "unmap", NEW k \in 1 .. Len(mBlocks),
         NEW p \in Int, mBlocks[k].startOrig <= p, p < End(mBlocks[k])
  PROVE  LET q == p - mBlocks[k].startOrig + mBlocks[k].startMapped
         IN  q \in OwnPage /\ own[q] = Content(p)
<1>1. mBlocks \in Seq(BlockRecord) /\ IsRun(mBlocks[k]) /\ IsPlaced(k)
  BY DEF MapInv, MapState, BlocksStand
<1>2. /\ mBlocks[k].startOrig \in Nat /\ mBlocks[k].size \in Nat /\ mBlocks[k].startMapped \in Nat
      /\ LeftOf(k) = mBlocks[k].startMapped
  <2>1. mBlocks[k] \in BlockRecord
    BY <1>1, ElementOfSeq, Zenon
  <2> QED
    BY <2>1 DEF BlockRecord, LeftOf
<1> DEFINE q == p - mBlocks[k].startOrig + mBlocks[k].startMapped
<1>3. /\ q \in mBlocks[k].startMapped .. BlockEnd(mBlocks[k]) - 1
      /\ q - mBlocks[k].startMapped + mBlocks[k].startOrig = p
      /\ BlockEnd(mBlocks[k]) \in Nat
  <2>1. /\ BlockEnd(mBlocks[k]) = mBlocks[k].startMapped + mBlocks[k].size
        /\ End(mBlocks[k]) = mBlocks[k].startOrig + mBlocks[k].size
    BY DEF End, BlockEnd
  <2>2. p - mBlocks[k].startOrig \in 0 .. mBlocks[k].size - 1
    BY <1>2, <2>1, SMTT(30)
  <2>3. q \in Int /\ q - mBlocks[k].startMapped + mBlocks[k].startOrig = p
    BY <1>2
  <2>4. BlockEnd(mBlocks[k]) \in Nat
    BY <1>2, <2>1
  <2>5. mBlocks[k].startMapped <= q /\ q < BlockEnd(mBlocks[k])
    BY <1>2, <2>1, <2>2
  <2> HIDE DEF q
  <2> QED
    BY <1>2, <2>3, <2>4, <2>5
<1>4. BlockEnd(mBlocks[k]) < OwnPages /\ OwnPages \in Nat
  BY <1>1, MapAssumption DEF IsPlaced
<1>5. q \in OwnPage
  BY <1>2, <1>3, <1>4 DEF OwnPage
<1>6. own[q] = Content(q - mBlocks[k].startMapped + mBlocks[k].startOrig)
  BY <1>1, <1>2, <1>3 DEF IsPlaced
<1> QED
  BY <1>3, <1>5, <1>6

LEMMA StartUnmappingKeeps ==
  ASSUME MapInv, StartUnmapping
  PROVE  MapInv'
<1> USE DEF StartUnmapping
<1>1. MapState /\ LayoutOK /\ Walking /\ ModulesPassed /\ Collected /\ BlocksStand
  BY DEF MapInv, MapState
<1>2. /\ UNCHANGED <<processVars, own, reserved, mModules, maps, mBlocks, sessions>>
      /\ UNCHANGED <<limit, type>>
  BY DEF processVars
<1>3. Starts' = Starts /\ LayoutOK' /\ Kept' = Kept
  BY <1>1, <1>2, ProcessStays
<1>4. mBlocks # <<>> => addr' = mBlocks[1].startMapped /\ 1 \in 1 .. Len(mBlocks)
  BY <1>1, EmptySeq DEF MapState
<1>5. BlocksStand' /\ OnlyKept' /\ ModulesPassed'
  <2>1. Passed' = Passed
    BY <1>2 DEF Passed
  <2>2. ASSUME NEW k \in 1 .. Len(mBlocks) PROVE LeftOf(k)' = LeftOf(k)
    <3>1. mBlocks # <<>>
      BY <2>2
    <3> QED
      BY <1>2, <1>4, <3>1 DEF LeftOf
  <2> QED
    BY <1>1, <1>2, <2>1, <2>2, BlocksStayWhere, ModulesStay
<1>6. addr' \in 0 .. AddressMod - 1
  <2>1. CASE mBlocks = <<>>
    BY <2>1, <1>1, MapAssumption
  <2>2. CASE mBlocks # <<>>
    <3>1. /\ mBlocks[1].startMapped > 0 /\ BlockEnd(mBlocks[1]) < OwnPages
          /\ mBlocks[1] \in BlockRecord /\ OwnPages \in Nat /\ OwnPages <= AddressMod
      BY <1>1, <1>4, <2>2, MapAssumption, ElementOfSeq DEF MapState, BlocksStand, IsPlaced
    <3>2. AddressMod \in Nat
      BY MapAssumption
    <3> QED
      BY <1>4, <2>2, <3>1, <3>2 DEF BlockEnd, BlockRecord
  <2> QED
    BY <2>1, <2>2
<1>7. MapState'
  BY <1>1, <1>2, <1>3, <1>6 DEF MapState
<1>8. Walking' /\ Collected' /\ NoneLeftOut'
  BY <1>1, <1>2, RefusedAreasStay DEF Walking, Collected, NoneLeftOut, BelowEnd
<1>9. AllKept'
  <2> SUFFICES ASSUME NEW p \in Kept PROVE \E q \in OwnPage : own[q] = p
    BY <1>2, <1>3 DEF AllKept
  <2>1. p \in MappablePages
    BY DEF Kept
  <2>2. PICK k \in 1 .. Len(mBlocks) : mBlocks[k].startOrig <= p /\ p < End(mBlocks[k])
    BY <2>1, InABlock
  <2>3. p \in 0 .. limit - 1 /\ type[StartOf(p)] \in {"Code", "Data"}
    BY <1>1, <2>1, MappableIs
  <2>4. Content(p) = p /\ p \in Int
    BY <2>3 DEF Content
  <2> QED
    BY <2>2, <2>4, IsMappedAt
<1> QED
  BY <1>5, <1>7, <1>8, <1>9 DEF MapInv

\* A run of mapped pages.
LEMMA RunEndIs ==
  ASSUME NEW q \in Nat, NEW top \in Nat, q < top, top < OwnPages,
         own[q] # NotMapped, own[top] = NotMapped
  PROVE  /\ RunEnd(q) \in Nat /\ q < RunEnd(q) /\ RunEnd(q) <= top
         /\ \A r \in q .. RunEnd(q) - 1 : own[r] # NotMapped
<1> DEFINE S == {r \in q .. OwnPages : r = OwnPages \/ own[r] = NotMapped}
<1>1. OwnPages \in Nat
  BY MapAssumption
<1>2. S \in SUBSET Nat /\ top \in S
  BY <1>1
<1>3. RunEnd(q) = Min(S)
  BY DEF RunEnd
<1>4. Min(S) \in S /\ \A n \in S : Min(S) <= n
  BY <1>2, MinIs
<1>5. RunEnd(q) \in S /\ \A n \in S : RunEnd(q) <= n
  BY <1>3, <1>4
<1>6. RunEnd(q) \in q .. OwnPages /\ RunEnd(q) <= top /\ RunEnd(q) # q
  BY <1>1, <1>2, <1>5
<1>7. ASSUME NEW r \in q .. RunEnd(q) - 1 PROVE own[r] # NotMapped
  BY <1>1, <1>5, <1>6
<1> QED
  BY <1>1, <1>6, <1>7

LEMMA UnmapAreaKeeps ==
  ASSUME MapInv, UnmapArea
  PROVE  MapInv'
<1> USE DEF UnmapArea
<1>1. /\ MapState /\ LayoutOK /\ Walking /\ ModulesPassed /\ Collected /\ BlocksStand
      /\ OnlyKept /\ AllKept
  BY DEF MapInv, MapState
<1>2. /\ UNCHANGED <<processVars, reserved, pc, mModules, maps, mBlocks, sessions>>
      /\ UNCHANGED <<limit, type>>
  BY DEF processVars
<1>3. /\ Starts' = Starts /\ LayoutOK' /\ Kept' = Kept
      /\ \A a : Content(a)' = Content(a) /\ \A c : IsRun(c) <=> IsRun(c)'
  BY <1>1, <1>2, ProcessStays
<1>4. mBlocks \in Seq(BlockRecord) /\ mBlocks # <<>> /\ Head(mBlocks) = mBlocks[1] /\ 1 \in 1 .. Len(mBlocks)
  BY <1>1, EmptySeq DEF MapState
<1> DEFINE b == mBlocks[1]
<1>5. IsRun(b) /\ IsPlaced(1) /\ LeftOf(1) = addr /\ b \in BlockRecord
  BY <1>1, <1>4 DEF BlocksStand, LeftOf
<1>6. /\ b.startOrig \in Nat /\ b.startMapped \in Nat /\ b.size \in Nat /\ 0 < b.size
      /\ BlockEnd(b) = b.startMapped + b.size /\ End(b) = b.startOrig + b.size
      /\ OwnPages \in Nat /\ OwnPages <= AddressMod /\ AddressMod \in Nat
  BY <1>5, MapAssumption DEF BlockRecord, BlockEnd, End, IsRun
<1>7. /\ BlockEnd(b) < OwnPages /\ own[BlockEnd(b)] = NotMapped
      /\ b.startMapped <= addr /\ addr \in Nat
      /\ \A q \in addr .. BlockEnd(b) - 1 :
           own[q] = Content(q - b.startMapped + b.startOrig)
      /\ \A q \in b.startMapped .. addr - 1 :
           own[q] = NotMapped /\ Content(q - b.startMapped + b.startOrig) # NotMapped
  BY <1>1, <1>5, <1>6, SMTT(30) DEF IsPlaced, MapState
<1> DEFINE e == RunEnd(addr)
<1>8. own[addr] # NotMapped /\ addr < BlockEnd(b) /\ addr' = e
  BY <1>4, <1>6, <1>7 DEF EndsUnmapping
<1>9. e \in Nat /\ addr < e /\ e <= BlockEnd(b) /\ \A r \in addr .. e - 1 : own[r] # NotMapped
  BY <1>6, <1>7, <1>8, RunEndIs
<1> HIDE DEF e
<1>10. own' = [q \in OwnPage |-> IF addr <= q /\ q < e THEN NotMapped ELSE own[q]]
  BY DEF e
<1>11. MapState'
  <2>1. own' \in [OwnPage -> {NotMapped} \cup (0 .. limit - 1)]
    BY <1>1, <1>10 DEF MapState
  <2>2. addr' \in 0 .. AddressMod - 1
    BY <1>6, <1>7, <1>8, <1>9
  <2> QED
    BY <1>1, <1>2, <1>3, <2>1, <2>2 DEF MapState
<1>12. Walking' /\ Collected' /\ NoneLeftOut' /\ ModulesPassed'
  <2>1. Passed' = Passed
    BY <1>2 DEF Passed
  <2>2. ModulesPassed'
    BY <1>1, <1>2, <2>1, ModulesStay
  <2> QED
    BY <1>1, <1>2, <1>4, <2>2, RefusedAreasStay DEF Walking, Collected, NoneLeftOut, BelowEnd
<1>13. \A q \in b.startMapped .. e - 1 :
         /\ own'[q] = NotMapped
         /\ Content(q - b.startMapped + b.startOrig) # NotMapped
  <2> SUFFICES ASSUME NEW q \in b.startMapped .. e - 1
               PROVE  /\ own'[q] = NotMapped
                      /\ Content(q - b.startMapped + b.startOrig) # NotMapped
    OBVIOUS
  <2>1. q \in OwnPage
    BY <1>6, <1>7, <1>9 DEF OwnPage
  <2>2. CASE q < addr
    <3>1. q \in b.startMapped .. addr - 1
      BY <1>6, <1>7, <2>2
    <3> QED
      BY <1>7, <1>10, <2>1, <3>1
  <2>3. CASE ~(q < addr)
    <3>1. q \in addr .. BlockEnd(b) - 1 /\ q \in addr .. e - 1 /\ addr <= q /\ q < e
      BY <1>6, <1>7, <1>9, <2>3
    <3> QED
      BY <1>7, <1>9, <1>10, <2>1, <3>1
  <2> QED
    BY <2>2, <2>3
<1>14. \A q \in OwnPage : ~(addr <= q /\ q < e) => own'[q] = own[q]
  BY <1>10
<1>15. IsPlaced(1)'
  <2>1. /\ mBlocks'[1] = b /\ LeftOf(1)' = e /\ BlockEnd(mBlocks[1])' = BlockEnd(b)
    BY <1>2, <1>8 DEF LeftOf, BlockEnd
  <2>2. own'[BlockEnd(b)] = NotMapped
    BY <1>6, <1>7, <1>9, <1>14 DEF OwnPage
  <2>3. \A q \in e .. BlockEnd(b) - 1 : own'[q] = Content(q - b.startMapped + b.startOrig)
    <3> SUFFICES ASSUME NEW q \in e .. BlockEnd(b) - 1
                 PROVE  own'[q] = Content(q - b.startMapped + b.startOrig)
      OBVIOUS
    <3>1. q \in OwnPage /\ ~(q < e) /\ q \in addr .. BlockEnd(b) - 1
      BY <1>6, <1>7, <1>9 DEF OwnPage
    <3> QED
      BY <1>7, <1>14, <3>1
  <2>4. b.startMapped > 0 /\ b.startMapped .. BlockEnd(b) - 1 \subseteq reserved
    BY <1>5 DEF IsPlaced
  <2>5. b.startMapped <= e /\ e <= BlockEnd(b)
    BY <1>6, <1>7, <1>9
  <2> HIDE DEF b
  <2> QED
    BY <1>2, <1>3, <1>7, <1>13, <2>1, <2>2, <2>3, <2>4, <2>5 DEF IsPlaced
<1>16. ASSUME NEW k \in 2 .. Len(mBlocks) PROVE IsPlaced(k)'
  <2> DEFINE c == mBlocks[k]
  <2>1. /\ k \in 1 .. Len(mBlocks) /\ k # 1
        /\ c \in BlockRecord /\ IsRun(c) /\ IsPlaced(k)
        /\ BlockEnd(b) < c.startMapped \/ BlockEnd(c) < b.startMapped
    BY <1>1, <1>4, ElementOfSeq DEF BlocksStand
  <2>2. /\ c.startMapped \in Nat /\ c.size \in Nat /\ BlockEnd(c) = c.startMapped + c.size
        /\ LeftOf(k) = c.startMapped
    BY <2>1 DEF BlockRecord, BlockEnd, LeftOf
  <2>3. /\ c.startMapped > 0 /\ BlockEnd(c) < OwnPages /\ own[BlockEnd(c)] = NotMapped
        /\ c.startMapped .. BlockEnd(c) - 1 \subseteq reserved
        /\ \A q \in c.startMapped .. BlockEnd(c) - 1 :
             own[q] = Content(q - c.startMapped + c.startOrig)
    BY <2>1, <2>2 DEF IsPlaced
  <2>4. mBlocks'[k] = c /\ LeftOf(k)' = c.startMapped /\ BlockEnd(mBlocks[k])' = BlockEnd(c)
    BY <1>2, <2>1 DEF LeftOf, BlockEnd
  <2> HIDE DEF b, c
  <2>5. \A q \in c.startMapped .. BlockEnd(c) : own'[q] = own[q]
    <3> SUFFICES ASSUME NEW q \in c.startMapped .. BlockEnd(c) PROVE own'[q] = own[q]
      OBVIOUS
    <3>1. q \in Nat /\ c.startMapped <= q /\ q <= BlockEnd(c) /\ BlockEnd(c) \in Nat
      BY <2>2
    <3>2. ~(addr <= q /\ q < e)
      BY <1>6, <1>7, <1>9, <2>1, <2>2, <3>1
    <3>3. q \in OwnPage
      BY <1>6, <2>3, <3>1 DEF OwnPage
    <3> QED
      BY <1>14, <3>2, <3>3
  <2>6. /\ own'[BlockEnd(c)] = NotMapped
        /\ \A q \in c.startMapped .. BlockEnd(c) - 1 :
             own'[q] = Content(q - c.startMapped + c.startOrig)
    <3>1. BlockEnd(c) \in c.startMapped .. BlockEnd(c)
      BY <2>2
    <3>2. \A q \in c.startMapped .. BlockEnd(c) - 1 : q \in c.startMapped .. BlockEnd(c)
      BY <2>2
    <3>3. own'[BlockEnd(c)] = NotMapped
      BY <2>3, <2>5, <3>1
    <3>4. \A q \in c.startMapped .. BlockEnd(c) - 1 :
            own'[q] = Content(q - c.startMapped + c.startOrig)
      BY <2>3, <2>5, <3>2
    <3> QED
      BY <3>3, <3>4
  <2>7. c.startMapped <= BlockEnd(c) /\ c.startMapped .. c.startMapped - 1 = {}
    BY <2>2
  <2>8. c.startMapped .. BlockEnd(c) - 1 \subseteq reserved'
    BY <1>2, <2>3
  <2> QED
    BY <1>3, <2>2, <2>3, <2>4, <2>6, <2>7, <2>8 DEF IsPlaced
<1>17. BlocksStand'
  <2>1. ASSUME NEW k \in 1 .. Len(mBlocks) PROVE IsRun(mBlocks[k])' /\ IsPlaced(k)'
    <3>1. IsRun(mBlocks[k])'
      BY <1>1, <1>2, <1>3 DEF BlocksStand
    <3>2. k = 1 \/ k \in 2 .. Len(mBlocks)
      OBVIOUS
    <3> QED
      BY <1>15, <1>16, <3>1, <3>2
  <2> QED
    BY <1>1, <1>2, <2>1 DEF BlocksStand, BlockEnd
<1>18. OnlyKept'
  <2>1. \A q \in OwnPage : own'[q] # NotMapped => own'[q] = own[q]
    BY <1>10
  <2> QED
    BY <1>1, <1>2, <1>3, <2>1 DEF OnlyKept, BlockEnd
<1>19. AllKept'
  <2> SUFFICES ASSUME NEW p \in Kept PROVE \E q \in OwnPage : own'[q] = p
    BY <1>3 DEF AllKept
  <2>1. PICK q \in OwnPage : own[q] = p
    BY <1>1 DEF AllKept
  <2>2. CASE ~(addr <= q /\ q < e)
    BY <1>14, <2>1, <2>2
  <2>3. CASE addr <= q /\ q < e
    <3>1. q \in Nat /\ q \in addr .. BlockEnd(b) - 1 /\ q \in addr .. e - 1
      BY <1>6, <1>7, <1>9, <2>3 DEF OwnPage
    <3>2. p = q - b.startMapped + b.startOrig
      BY <1>7, <1>9, <2>1, <3>1 DEF Content
    <3>3. p \in Nat /\ b.startOrig <= p
      <4>1. b.startMapped <= q
        BY <1>6, <1>7, <2>3, <3>1
      <4> QED BY <1>6, <3>1, <3>2, <4>1
    <3>4. PICK s \in Starts : /\ type[s] = "Shared" /\ s < p
                              /\ \A f \in Starts : type[f] = "Free" => ~(s < f /\ f < p)
      BY <1>1, BehindHoleIs DEF Kept
    <3>5. PICK f \in Starts : type[f] = "Free" /\ AreaEnd(f) = b.startOrig
      BY <1>5 DEF IsRun, AfterFree
    <3>6. /\ s \in Nat /\ f \in Nat /\ f < AreaEnd(f)
          /\ f < s => AreaEnd(f) <= s
          /\ limit \in Nat /\ s < limit
      BY <1>1, <3>4, <3>5, StartsAreBelow, AreaEndIs
    <3>7. f # s
      BY <3>4, <3>5
    <3>8. b.startOrig <= s
      BY <3>3, <3>4, <3>5, <3>6, <3>7, <1>6
    <3> DEFINE r == s - b.startOrig + b.startMapped
    <3>9. r \in b.startMapped .. e - 1 /\ r - b.startMapped + b.startOrig = s
      <4> HIDE DEF b
      <4>1. r \in Int /\ b.startMapped <= r /\ r - b.startMapped + b.startOrig = s
        BY <1>6, <3>6, <3>8
      <4>2. r < q
        BY <1>6, <3>1, <3>2, <3>4, <3>6
      <4>3. r < e
        BY <1>9, <2>3, <3>1, <4>1, <4>2
      <4> QED
        BY <1>6, <1>9, <4>1, <4>3
    <3>10. Content(s) # NotMapped
      BY <1>13, <3>9
    <3>11. StartOf(s) = s
      <4>1. s < AreaEnd(s) /\ AreaEnd(s) \in Nat
        BY <1>1, AreaEndIs
      <4>2. s \in s .. AreaEnd(s) - 1
        BY <3>6, <4>1
      <4> QED
        BY <1>1, <4>2, StartOfUnique
    <3> QED
      BY <3>4, <3>10, <3>11 DEF Content
  <2> QED
    BY <2>2, <2>3
<1> QED
  BY <1>11, <1>12, <1>17, <1>18, <1>19 DEF MapInv

\* A page a < q of a block of `size` pages, whose pages are those from `orig` on, mapped
\* from `mapped` on.
LEMMA Shifted ==
  ASSUME NEW orig \in Nat, NEW mapped \in Nat, NEW size \in Nat,
         NEW a \in Nat, NEW q \in Nat,
         mapped <= a, a < q, q < mapped + size
  PROVE  /\ q - mapped + orig \in Nat /\ a - mapped + orig \in Nat
         /\ orig <= a - mapped + orig
         /\ a - mapped + orig < q - mapped + orig
         /\ q - mapped + orig < orig + size
  OBVIOUS

LEMMA UnmapEndsKeeps ==
  ASSUME MapInv, UnmapEnds
  PROVE  MapInv'
<1> USE DEF UnmapEnds
<1>1. /\ MapState /\ LayoutOK /\ Walking /\ ModulesPassed /\ Collected /\ BlocksStand
      /\ OnlyKept /\ AllKept
  BY DEF MapInv, MapState
<1>2. /\ UNCHANGED <<processVars, own, reserved, pc, mModules, maps, sessions>>
      /\ UNCHANGED <<limit, type>>
  BY DEF processVars
<1>3. /\ Starts' = Starts /\ LayoutOK' /\ Kept' = Kept
      /\ \A a : Content(a)' = Content(a) /\ \A c : IsRun(c) <=> IsRun(c)'
  BY <1>1, <1>2, ProcessStays
<1>4. /\ mBlocks \in Seq(BlockRecord) /\ mBlocks # <<>> /\ Head(mBlocks) = mBlocks[1]
      /\ Len(mBlocks) \in Nat /\ 1 \in 1 .. Len(mBlocks)
  BY <1>1, EmptySeq DEF MapState
<1>5. /\ mBlocks' \in Seq(BlockRecord) /\ Len(mBlocks') = Len(mBlocks) - 1
      /\ \A k \in 1 .. Len(mBlocks') :
           k + 1 \in 1 .. Len(mBlocks) /\ mBlocks'[k] = mBlocks[k + 1]
      /\ mBlocks' # <<>> => Head(mBlocks') = mBlocks'[1] /\ 1 \in 1 .. Len(mBlocks')
  BY <1>4, HeadTailProperties, EmptySeq
<1>6. /\ mBlocks' # <<>> => addr' = mBlocks'[1].startMapped
      /\ mBlocks' = <<>> => addr' = 0
  BY <1>5
<1>7. ASSUME NEW k \in 1 .. Len(mBlocks')
      PROVE  LeftOf(k)' = mBlocks'[k].startMapped /\ LeftOf(k + 1) = mBlocks'[k].startMapped
  <2>1. LeftOf(k)' = mBlocks'[k].startMapped
    <3>1. mBlocks' # <<>>
      <4>1. Len(mBlocks') \in Nat /\ Len(mBlocks') # 0
        BY <1>4, <1>5
      <4> QED
        BY <4>1
    <3> QED
      BY <1>5, <1>6, <3>1 DEF LeftOf
  <2>2. k + 1 # 1
    OBVIOUS
  <2> QED
    BY <1>5, <2>1, <2>2 DEF LeftOf
<1>8. BlocksStand'
  <2>1. ASSUME NEW k \in 1 .. Len(mBlocks') PROVE IsRun(mBlocks[k])' /\ IsPlaced(k)'
    <3>1. IsRun(mBlocks[k + 1]) /\ IsPlaced(k + 1)
      BY <1>1, <1>5 DEF BlocksStand
    <3>2. IsRun(mBlocks[k])'
      BY <1>3, <1>5, <3>1
    <3>3. IsPlaced(k)'
      BY <1>2, <1>3, <1>5, <1>7, <3>1 DEF IsPlaced, BlockEnd
    <3> QED
      BY <3>2, <3>3
  <2>2. ASSUME NEW j \in 1 .. Len(mBlocks'), NEW k \in 1 .. Len(mBlocks'), j # k
        PROVE  \/ BlockEnd(mBlocks'[j]) < mBlocks'[k].startMapped
               \/ BlockEnd(mBlocks'[k]) < mBlocks'[j].startMapped
    <3>1. j + 1 # k + 1
      BY <2>2
    <3> QED
      BY <1>1, <1>5, <3>1 DEF BlocksStand
  <2> QED
    BY <2>1, <2>2 DEF BlocksStand, BlockEnd
<1>9. addr' \in 0 .. AddressMod - 1
  <2>1. CASE mBlocks' = <<>>
    BY <2>1, <1>1, <1>6, MapAssumption
  <2>2. CASE mBlocks' # <<>>
    <3>1. 2 \in 1 .. Len(mBlocks) /\ addr' = mBlocks[2].startMapped
      BY <1>5, <1>6, <2>2
    <3>2. /\ mBlocks[2].startMapped > 0 /\ BlockEnd(mBlocks[2]) < OwnPages
          /\ mBlocks[2] \in BlockRecord /\ OwnPages \in Nat /\ OwnPages <= AddressMod
      BY <1>1, <1>4, <3>1, MapAssumption, ElementOfSeq DEF BlocksStand, IsPlaced
    <3>3. AddressMod \in Nat
      BY MapAssumption
    <3> QED
      BY <3>1, <3>2, <3>3 DEF BlockEnd, BlockRecord
  <2> QED
    BY <2>1, <2>2
<1>10. MapState'
  BY <1>1, <1>2, <1>3, <1>5, <1>9 DEF MapState
<1>11. Walking' /\ Collected' /\ NoneLeftOut' /\ ModulesPassed' /\ AllKept'
  <2>1. Passed' = Passed
    BY <1>2 DEF Passed
  <2>2. ModulesPassed'
    BY <1>1, <1>2, <2>1, ModulesStay
  <2> QED
    BY <1>1, <1>2, <1>3, <1>6, <2>2, RefusedAreasStay DEF Walking, Collected, NoneLeftOut, BelowEnd, AllKept
<1> DEFINE b == mBlocks[1]
<1>12. ASSUME NEW q \in OwnPage, own[q] # NotMapped, b.startMapped <= q, q < BlockEnd(b)
       PROVE  own[q] \in Kept
  <2>1. IsRun(b) /\ IsPlaced(1) /\ LeftOf(1) = addr /\ b \in BlockRecord
    BY <1>1, <1>4 DEF BlocksStand, LeftOf
  <2>2. /\ b.startOrig \in Nat /\ b.startMapped \in Nat /\ b.size \in Nat
        /\ BlockEnd(b) = b.startMapped + b.size /\ End(b) = b.startOrig + b.size
        /\ addr \in Nat /\ q \in Nat
    <3>1. addr \in Nat /\ q \in Nat
      BY <1>1 DEF MapState, OwnPage
    <3> QED
      BY <2>1, <3>1 DEF BlockRecord, BlockEnd, End
  <2>3. /\ b.startMapped <= addr
        /\ \A r \in addr .. BlockEnd(b) - 1 : own[r] = Content(r - b.startMapped + b.startOrig)
        /\ \A r \in b.startMapped .. addr - 1 : own[r] = NotMapped
    BY <2>1 DEF IsPlaced
  <2>4. addr <= q
    BY <1>12, <2>2, <2>3
  <2>5. own[addr] = NotMapped
    BY <1>4, <1>12, <2>2, <2>4 DEF EndsUnmapping
  <2> DEFINE p == q - b.startMapped + b.startOrig  hole == addr - b.startMapped + b.startOrig
  <2>6. q \in addr .. BlockEnd(b) - 1 /\ addr \in addr .. BlockEnd(b) - 1
    <3>1. BlockEnd(b) \in Nat
      BY <2>2
    <3>2. addr <= q /\ q < BlockEnd(b)
      BY <1>12, <2>4
    <3> QED BY <2>2, <3>1, <3>2, SMTT(30)
  <2>7. own[q] = Content(p) /\ Content(hole) = NotMapped /\ q # addr
    BY <1>12, <2>3, <2>5, <2>6
  <2>8. p \in Nat /\ hole \in Nat /\ b.startOrig <= hole /\ hole < p /\ p < End(b)
    <3>1. b.startMapped <= addr /\ addr < q /\ q < BlockEnd(b)
      <4>1. addr < q
        BY <2>2, <2>4, <2>7
      <4> QED BY <1>12, <2>3, <4>1
    <3>2. q < b.startMapped + b.size
      BY <2>2, <3>1
    <3> DEFINE orig == b.startOrig  mapped == b.startMapped  pages == b.size
    <3>3. orig \in Nat /\ mapped \in Nat /\ pages \in Nat /\ addr \in Nat /\ q \in Nat
      BY <2>2
    <3>4. mapped <= addr /\ addr < q /\ q < mapped + pages
      BY <3>1, <3>2
    <3>5. /\ q - mapped + orig \in Nat /\ addr - mapped + orig \in Nat
          /\ orig <= addr - mapped + orig
          /\ addr - mapped + orig < q - mapped + orig
          /\ q - mapped + orig < orig + pages
      <4> HIDE DEF orig, mapped, pages
      <4> QED BY <3>3, <3>4, Shifted
    <3> QED BY <2>2, <3>5
  <2> HIDE DEF p, hole
  <2>9. /\ b.startOrig \in Starts /\ End(b) \in Starts /\ type[End(b)] = "Free"
        /\ AreaEnd(End(b)) # Top
        /\ \A a \in Starts : b.startOrig <= a /\ a < End(b) => type[a] \notin {"Free", "Io"}
    BY <2>1 DEF IsRun
  <2>10. limit \in Nat /\ limit = Top /\ \A a \in Starts : a \in Nat /\ a < limit
    BY <1>1, StartsAreBelow DEF Walking
  <2>11. p \in 0 .. limit - 1 /\ hole \in 0 .. limit - 1
    BY <2>8, <2>9, <2>10
  <2>12. /\ StartOf(p) \in Starts /\ StartOf(p) <= p
         /\ StartOf(hole) \in Starts /\ StartOf(hole) <= hole
         /\ b.startOrig <= StartOf(hole)
    BY <1>1, <2>8, <2>9, <2>11, StartOfIs
  <2>13. own[q] = p /\ type[StartOf(p)] \in {"Code", "Data"}
    BY <1>12, <2>7 DEF Content
  <2>14. p \in MappablePages
    <3>1. End(b) > StartOf(p)
      BY <2>8, <2>9, <2>10, <2>12
    <3>2. FollowedAt(StartOf(p))
      BY <2>9, <2>10, <3>1 DEF FollowedAt
    <3> QED
      BY <1>1, <2>11, <2>13, <3>2, MappableIs
  <2>15. type[StartOf(hole)] = "Shared"
    <3>1. type[StartOf(hole)] \in Type
      BY <1>1, <2>12 DEF LayoutOK
    <3>2. type[StartOf(hole)] \notin {"Free", "Io"}
      BY <2>8, <2>9, <2>10, <2>12
    <3>3. hole # NotMapped
      BY <2>8 DEF NotMapped
    <3> QED
      BY <2>7, <3>1, <3>2, <3>3 DEF Content, Type
  <2>16. BehindHole(p)
    <3>1. StartOf(hole) < p
      BY <2>8, <2>10, <2>12
    <3>2. ASSUME NEW f \in Starts, type[f] = "Free" PROVE ~(StartOf(hole) < f /\ f < p)
      <4> SUFFICES ASSUME StartOf(hole) < f, f < p PROVE FALSE
        OBVIOUS
      <4>1. b.startOrig <= f /\ f < End(b)
        <5>1. /\ f \in Nat /\ StartOf(hole) \in Nat /\ End(b) \in Nat /\ b.startOrig \in Nat
              /\ p \in Nat /\ p < End(b)
          BY <2>8, <2>9, <2>10, <2>12
        <5> QED
          BY <2>12, <5>1
      <4> QED
        BY <2>9, <3>2, <4>1
    <3> QED
      BY <1>1, <2>12, <2>15, <3>1, <3>2, BehindHoleIs
  <2> QED
    BY <2>13, <2>14, <2>16 DEF Kept
<1>13. OnlyKept'
  <2> SUFFICES ASSUME NEW q \in OwnPage, own[q] # NotMapped, own[q] \notin Kept
               PROVE  \E k \in 1 .. Len(mBlocks') :
                        mBlocks'[k].startMapped <= q /\ q < BlockEnd(mBlocks'[k])
    BY <1>2, <1>3 DEF OnlyKept, BlockEnd
  <2>1. PICK k \in 1 .. Len(mBlocks) : mBlocks[k].startMapped <= q /\ q < BlockEnd(mBlocks[k])
    BY <1>1 DEF OnlyKept
  <2>2. k # 1
    BY <1>12, <2>1
  <2>3. k - 1 \in 1 .. Len(mBlocks') /\ (k - 1) + 1 = k
    BY <1>4, <1>5, <2>2
  <2>4. mBlocks'[k - 1] = mBlocks[k]
    BY <1>5, <2>3
  <2> QED
    BY <2>1, <2>3, <2>4
<1> QED
  BY <1>8, <1>10, <1>11, <1>13 DEF MapInv

LEMMA ClosedKeeps ==
  ASSUME MapInv, Closed
  PROVE  MapInv'
<1> USE DEF Closed
<1>1. /\ MapState /\ LayoutOK /\ Walking /\ ModulesPassed /\ Collected /\ OnlyKept /\ AllKept
  BY DEF MapInv, MapState
<1>2. /\ UNCHANGED <<processVars, own, reserved, addr, mModules, maps, mBlocks, sessions>>
      /\ UNCHANGED <<limit, type>>
  BY DEF processVars
<1>3. Starts' = Starts /\ LayoutOK' /\ Kept' = Kept
  BY <1>1, <1>2, ProcessStays
<1>4. ModulesPassed'
  <2>1. Passed' = Passed
    BY <1>2 DEF Passed
  <2> QED
    BY <1>1, <1>2, <2>1, ModulesStay
<1>5. MapState' /\ Walking' /\ Collected' /\ NoneLeftOut'
  BY <1>1, <1>2, <1>3, RefusedAreasStay DEF MapState, Walking, Collected, NoneLeftOut, BelowEnd
<1>6. BlocksStand' /\ OnlyKept' /\ AllKept'
  BY <1>1, <1>2, <1>3 DEF BlocksStand, OnlyKept, AllKept
<1> QED
  BY <1>4, <1>5, <1>6 DEF MapInv

LEMMA OpenKeeps ==
  ASSUME MapInv, Open
  PROVE  MapInv'
<1> USE DEF Open
<1>1. /\ MapState /\ LayoutOK /\ Walking /\ Collected /\ OnlyKept
  BY DEF MapInv, MapState
<1>2. /\ UNCHANGED <<processVars, own, reserved, maps, mBlocks>>
      /\ UNCHANGED <<limit, type>> /\ mBlocks' = <<>> /\ addr' = 0
  BY <1>1 DEF processVars, Walking
<1>3. Starts' = Starts /\ LayoutOK' /\ Kept' = Kept
  BY <1>1, <1>2, ProcessStays
<1>4. \A a \in Starts : a \in Nat
  BY <1>1, StartsAreBelow
<1>5. ModulesPassed'
  BY <1>2, <1>3, <1>4 DEF ModulesPassed, Passed
<1>6. MapState'
  <2>1. sessions' \in 1 .. MaxSessions
    BY <1>1, MapAssumption DEF MapState
  <2>2. addr' \in 0 .. AddressMod - 1
    BY <1>1, <1>2 DEF MapState, Walking
  <2>3. mModules' \in Seq(AreaRecord)
    OBVIOUS
  <2> QED
    BY <1>1, <1>2, <1>3, <2>1, <2>2, <2>3 DEF MapState
<1>7. Walking' /\ Collected' /\ NoneLeftOut'
  BY <1>1, <1>2, <1>3, StartsAreBelow DEF Walking, Collected, NoneLeftOut, BelowEnd
<1>8. BlocksStand' /\ OnlyKept' /\ AllKept'
  BY <1>1, <1>2, <1>3 DEF BlocksStand, OnlyKept, AllKept
<1> QED
  BY <1>5, <1>6, <1>7, <1>8 DEF MapInv

LEMMA MapInvKept == MapInv /\ [MapNext]_mapVars => MapInv'
<1> SUFFICES ASSUME MapInv, [MapNext]_mapVars PROVE MapInv'
  OBVIOUS
<1>1. CASE UNCHANGED mapVars
  <2>1. /\ UNCHANGED <<processVars, own, reserved, pc, addr, mModules, maps, mBlocks, sessions>>
        /\ UNCHANGED <<limit, type>>
    BY <1>1 DEF mapVars, processVars
  <2>2. /\ Starts' = Starts /\ LayoutOK' /\ Kept' = Kept
        /\ \A a : /\ AreaAt(a)' = AreaAt(a) /\ (AfterFree(a) <=> AfterFree(a)')
                  /\ (FollowedAt(a) <=> FollowedAt(a)')
    BY <2>1, ProcessStays DEF MapInv, MapState
  <2>3. BlocksStand' /\ OnlyKept' /\ ModulesPassed'
    <3>1. Passed' = Passed /\ \A k \in 1 .. Len(mBlocks) : LeftOf(k)' = LeftOf(k)
      BY <2>1 DEF Passed, LeftOf
    <3> QED
      BY <2>1, <3>1, BlocksStayWhere, ModulesStay DEF MapInv
  <2>4. MapState' /\ Walking' /\ AllKept'
    BY <2>1, <2>2 DEF MapInv, MapState, Walking, AllKept
  <2>5. Collected'
    BY <2>1, <2>2 DEF MapInv, Collected, BelowEnd
  <2>6. NoneLeftOut'
    BY <2>1, <2>2 DEF MapInv, NoneLeftOut, BelowEnd, Covered, InRun, End
  <2> QED
    BY <2>3, <2>4, <2>5, <2>6 DEF MapInv
<1> QED
  BY <1>1, FindModulesKeeps, CollectAreaKeeps, SkipFreeAreaKeeps, MapBlockKeeps,
     MapBlockAbortsKeeps, EndMappingKeeps, StartUnmappingKeeps, UnmapAreaKeeps, UnmapEndsKeeps,
     ClosedKeeps, OpenKeeps
  DEF MapNext

LEMMA MapInvAlways == MapSpec => []MapInv
BY MapInvInit, MapInvKept, PTL DEF MapSpec

LEMMA InvTyped == MapInv => MapTypeOK
<1> SUFFICES ASSUME MapInv PROVE MapTypeOK
  OBVIOUS
<1>1. MapState /\ LayoutOK /\ BlocksStand
  BY DEF MapInv, MapState
<1>2. Starts \subseteq 0 .. limit - 1 /\ Range(type) \subseteq Type
  BY <1>1 DEF LayoutOK, Range, Starts
<1>3. ASSUME NEW k \in DOMAIN mBlocks PROVE mBlocks[k].startMapped + mBlocks[k].size <= OwnPages
  <2>1. k \in 1 .. Len(mBlocks) /\ mBlocks[k] \in BlockRecord
    BY <1>1, <1>3, ElementOfSeq DEF MapState
  <2>2. BlockEnd(mBlocks[k]) < OwnPages /\ OwnPages \in Nat
    BY <1>1, <2>1, MapAssumption DEF BlocksStand, IsPlaced
  <2> QED
    BY <2>1, <2>2 DEF BlockEnd, BlockRecord
<1>4. \A q \in OwnPage : own[q] = NotMapped \/ own[q] \in 0 .. limit - 1
  BY <1>1 DEF MapState
<1> QED
  BY <1>1, <1>2, <1>3, <1>4, MapAssumption DEF MapTypeOK, MapState, Starts

LEMMA InvModules == MapInv => ModulesFound
<1> SUFFICES ASSUME MapInv, pc = "open" PROVE ModulesFound
  BY DEF ModulesFound
<1>1. LayoutOK /\ ModulesPassed /\ mModules \in Seq(AreaRecord) /\ Passed = limit
  BY DEF MapInv, MapState, Passed
<1>2. DOMAIN mModules = 1 .. Len(mModules)
  BY <1>1
<1>3. \A a \in Starts : a < limit /\ AreaAt(a).type = type[a]
  BY <1>1, StartsAreBelow, AreaAtStart
<1>4. ASSUME NEW area \in Range(mModules) PROVE area \in Areas /\ area.type = "Code"
  <2>1. PICK k \in 1 .. Len(mModules) : area = mModules[k]
    BY <1>2 DEF Range
  <2> QED
    BY <1>1, <2>1 DEF ModulesPassed, Areas, Starts
<1>5. ASSUME NEW area \in Areas, area.type = "Code" PROVE area \in Range(mModules)
  <2>1. PICK a \in Starts : area = AreaAt(a)
    BY DEF Areas, Starts
  <2>2. type[a] = "Code" /\ a < limit
    BY <1>3, <1>5, <2>1
  <2>3. PICK k \in 1 .. Len(mModules) : mModules[k].addr = a
    BY <1>1, <2>2 DEF ModulesPassed
  <2>4. mModules[k] = area
    BY <1>1, <2>1, <2>3 DEF ModulesPassed
  <2> QED
    BY <1>2, <2>4 DEF Range
<1>6. Range(mModules) = {area \in Areas : area.type = "Code"}
  BY <1>4, <1>5
<1>7. \A j, k \in DOMAIN mModules : j < k => mModules[j].addr < mModules[k].addr
  BY <1>1, <1>2 DEF ModulesPassed
<1> QED
  BY <1>6, <1>7 DEF ModulesFound

\* The translation of a page is that of the first block that get() takes for its block.
LEMMA GetIs ==
  ASSUME MapInv, NEW p \in Nat, Get(p) # 0 \/ \E k \in 1 .. Len(mBlocks) : InBlock(mBlocks[k], p)
  PROVE  \E k \in 1 .. Len(mBlocks) :
           /\ InBlock(mBlocks[k], p)
           /\ Get(p) = p - mBlocks[k].startOrig + mBlocks[k].startMapped
<1>1. DOMAIN mBlocks = 1 .. Len(mBlocks) /\ Len(mBlocks) \in Nat
  BY DEF MapInv, MapState
<1> DEFINE hits == {k \in DOMAIN mBlocks : InBlock(mBlocks[k], p)}
<1>2. hits \in SUBSET Nat /\ hits # {}
  <2>1. hits \in SUBSET Nat
    BY <1>1
  <2>2. hits = {} => Get(p) = 0
    BY DEF Get
  <2>3. (\E k \in 1 .. Len(mBlocks) : InBlock(mBlocks[k], p)) => hits # {}
    BY <1>1
  <2> QED
    BY <2>1, <2>2, <2>3
<1>3. Min(hits) \in hits
  BY <1>2, MinIs
<1>4. Get(p) = p - mBlocks[Min(hits)].startOrig + mBlocks[Min(hits)].startMapped
  BY <1>2 DEF Get
<1> QED
  BY <1>1, <1>3, <1>4

LEMMA InvGet == MapInv => GetIsExact
<1> SUFFICES ASSUME MapInv, pc = "open", NEW p \in 0 .. Top - 1
             PROVE  IF p \in MappablePages
                    THEN Get(p) \in OwnPage /\ own[Get(p)] = p
                    ELSE \/ Get(p) = 0
                         \/ AreaAt(p).type = "Shared"
                         \/ AreaAt(p).addr = p /\ AreaAt(p).type = "Free"
  BY DEF GetIsExact
<1>1. LayoutOK /\ BlocksStand /\ mBlocks \in Seq(BlockRecord) /\ limit = Top
  BY DEF MapInv, MapState, Walking
<1>2. limit \in Nat /\ p \in Nat /\ p < limit /\ \A a \in Starts : a \in Nat /\ a < limit
  BY <1>1, StartsAreBelow
<1>3. AreaAt(p).addr = StartOf(p) /\ AreaAt(p).type = type[StartOf(p)]
  BY <1>1, <1>2, AreaAtIs
<1>4. /\ StartOf(p) \in Starts /\ StartOf(p) <= p
      /\ \A b \in Starts : b <= p => b <= StartOf(p)
  BY <1>1, <1>2, StartOfIs
<1>8. p \in Starts => StartOf(p) = p
  <2>1. StartOf(p) \in Nat /\ p <= p
    BY <1>2, <1>4
  <2>2. p \in Starts => p <= StartOf(p)
    BY <1>4, <2>1
  <2> QED
    BY <1>2, <1>4, <2>1, <2>2
<1>5. ASSUME NEW k \in 1 .. Len(mBlocks), InBlock(mBlocks[k], p), p # End(mBlocks[k])
      PROVE  mBlocks[k].startOrig <= p /\ p < End(mBlocks[k])
  <2>1. mBlocks[k] \in BlockRecord
    BY <1>1, ElementOfSeq, Zenon
  <2> QED
    BY <1>2, <1>5, <2>1 DEF InBlock, End, BlockRecord
<1>6. CASE p \in MappablePages
  <2>1. type[StartOf(p)] \in {"Code", "Data"}
    BY <1>1, <1>6, MappableIs
  <2>2. PICK j \in 1 .. Len(mBlocks) : mBlocks[j].startOrig <= p /\ p < End(mBlocks[j])
    BY <1>6, InABlock
  <2>3. InBlock(mBlocks[j], p)
    <3>1. mBlocks[j] \in BlockRecord
      BY <1>1, ElementOfSeq, Zenon
    <3> QED
      BY <1>2, <2>2, <3>1 DEF InBlock, End, BlockRecord
  <2>4. PICK k \in 1 .. Len(mBlocks) :
          InBlock(mBlocks[k], p) /\ Get(p) = p - mBlocks[k].startOrig + mBlocks[k].startMapped
    BY <1>2, <2>3, GetIs
  <2>5. p # End(mBlocks[k])
    <3> SUFFICES ASSUME p = End(mBlocks[k]) PROVE FALSE
      OBVIOUS
    <3>1. p \in Starts /\ type[p] = "Free"
      BY <1>1 DEF BlocksStand, IsRun
    <3>2. StartOf(p) = p
      BY <1>8, <3>1
    <3> QED
      BY <2>1, <3>1, <3>2
  <2>6. mBlocks[k].startOrig <= p /\ p < End(mBlocks[k])
    BY <1>5, <2>4, <2>5
  <2>7. Get(p) \in OwnPage /\ own[Get(p)] = Content(p)
    BY <1>2, <2>4, <2>6, IsMappedAt
  <2> QED
    BY <1>6, <2>1, <2>7 DEF Content
<1>7. CASE p \notin MappablePages /\ Get(p) # 0
  <2>1. PICK k \in 1 .. Len(mBlocks) : InBlock(mBlocks[k], p)
    BY <1>2, <1>7, GetIs
  <2>2. IsRun(mBlocks[k])
    BY <1>1 DEF BlocksStand
  <2>3. CASE p = End(mBlocks[k])
    <3>1. p \in Starts /\ type[p] = "Free"
      BY <2>2, <2>3 DEF IsRun
    <3>2. StartOf(p) = p
      BY <1>8, <3>1
    <3> QED
      BY <1>3, <1>7, <3>1, <3>2
  <2>4. CASE p # End(mBlocks[k])
    <3>1. mBlocks[k].startOrig <= p /\ p < End(mBlocks[k])
      BY <1>5, <2>1, <2>4
    <3>2. /\ mBlocks[k].startOrig \in Starts /\ End(mBlocks[k]) \in Starts
          /\ type[End(mBlocks[k])] = "Free" /\ AreaEnd(End(mBlocks[k])) # limit
      BY <1>1, <2>2 DEF IsRun
    <3>3. mBlocks[k].startOrig <= StartOf(p) /\ StartOf(p) < End(mBlocks[k])
      BY <1>2, <1>4, <3>1, <3>2
    <3>4. type[StartOf(p)] \notin {"Free", "Io"} /\ type[StartOf(p)] \in Type
      BY <1>1, <1>4, <2>2, <3>3 DEF IsRun, LayoutOK
    <3>5. FollowedAt(StartOf(p))
      BY <1>2, <1>4, <3>2, <3>3 DEF FollowedAt
    <3>6. type[StartOf(p)] \notin {"Code", "Data"}
      BY <1>1, <1>2, <1>7, <3>5, MappableIs
    <3>7. type[StartOf(p)] = "Shared"
      BY <3>4, <3>6 DEF Type
    <3> QED
      BY <1>3, <1>7, <3>7
  <2> QED
    BY <2>3, <2>4
<1> QED
  BY <1>6, <1>7

LEMMA InvLeftover == MapInv => LeftoverIsExplained
<1> SUFFICES ASSUME MapInv, pc = "closed"
             PROVE  {own[q] : q \in OwnPage} \ {NotMapped} = Kept
  BY DEF LeftoverIsExplained, Kept
<1>1. LayoutOK /\ OnlyKept /\ AllKept /\ mBlocks = <<>>
  BY DEF MapInv, MapState, Walking
<1>2. ASSUME NEW q \in OwnPage, own[q] # NotMapped PROVE own[q] \in Kept
  <2>1. \A k \in 1 .. Len(mBlocks) : FALSE
    BY <1>1
  <2> QED
    BY <1>1, <1>2, <2>1 DEF OnlyKept
<1>3. ASSUME NEW p \in Kept PROVE p # NotMapped /\ \E q \in OwnPage : own[q] = p
  <2>1. p \in 0 .. limit - 1
    BY <1>1, MappableIs DEF Kept
  <2> QED
    BY <1>1, <2>1 DEF AllKept, NotMapped
<1> QED
  BY <1>2, <1>3

-----------------------------------------------------------------------------
(* Room in the sysmodule.  The blocks of the first session cannot stand in the way of     *)
(* more windows than they have ends: with a window more, one of them is free.             *)

\* The free areas that end a block.
BlockEnds == {f \in Starts : f # 0 /\ type[f] = "Free" /\ AreaEnd(f) # limit}
EndsPassed == {f \in BlockEnds : f < addr}

\* No block has more than n pages.
FitsIn(n) ==
  \A a \in Starts : \A f \in BlockEnds :
    a <= f /\ (\A b \in Starts : a <= b /\ b < f => type[b] # "Free") => f - a <= n

\* For each block but the last there are two windows in the sysmodule that would hold any
\* block and its guards, and there is one more.
HasRoom ==
  \E n \in Nat :
    /\ FitsIn(n)
    /\ (2 * Cardinality(BlockEnds) - 1) * (n + 2 * Guard) <= OwnPages

InSomeBlock(q) ==
  \E k \in 1 .. Len(mBlocks) : mBlocks[k].startMapped <= q /\ q < BlockEnd(mBlocks[k])

\* In the first session only its own blocks are in the way, and they are no more than the
\* free areas passed.
FirstMapping ==
  limit = Top /\ sessions = 1 =>
    /\ pc = "findModules" => reserved = {} /\ \A q \in OwnPage : own[q] = NotMapped
    /\ pc = "mapBlocks" =>
         /\ \A q \in OwnPage : q \in reserved \/ own[q] # NotMapped => InSomeBlock(q)
         /\ Len(mBlocks) <= Cardinality(EndsPassed)

LEMMA Multiples ==
  ASSUME NEW a \in Nat, NEW b \in Nat, a <= b, NEW w \in Nat
  PROVE  a * w \in Nat /\ b * w \in Nat /\ a * w <= b * w /\ (a + 1) * w = a * w + w
<1>1. a * w \in Nat /\ b * w \in Nat /\ (b - a) * w \in Nat
  <2>1. b - a \in Nat
    OBVIOUS
  <2> QED BY <2>1
<1>2. b * w = a * w + (b - a) * w
  OBVIOUS
<1>3. (a + 1) * w = a * w + w
  OBVIOUS
<1> QED BY <1>1, <1>2, <1>3

\* Of 2n + 1 windows of w pages, n blocks of less than w pages leave one free: each that
\* they do not leave free contains the first or the last page of one of them.
LEMMA OneWindowIsFree ==
  ASSUME NEW n \in Nat, NEW w \in Nat \ {0},
         NEW first \in [1 .. n -> Nat], NEW last \in [1 .. n -> Nat],
         \A k \in 1 .. n : first[k] <= last[k] /\ last[k] - first[k] < w
  PROVE  \E v \in 0 .. 2 * n : \A k \in 1 .. n : last[k] < v * w \/ (v + 1) * w <= first[k]
<1> SUFFICES ASSUME \A v \in 0 .. 2 * n : \E k \in 1 .. n :
                      ~(last[k] < v * w) /\ ~((v + 1) * w <= first[k])
             PROVE  FALSE
  OBVIOUS
<1> DEFINE Firsts == Range(first)
           Lasts == Range(last)
           Ends == Firsts \cup Lasts
           Within(p, v) == v * w <= p /\ p < (v + 1) * w
           g == [v \in 0 .. 2 * n |-> CHOOSE p \in Ends : Within(p, v)]
<1>1. \A k \in 1 .. n : first[k] \in Firsts /\ last[k] \in Lasts
  BY DEF Range
<1>2. Firsts \subseteq Nat /\ Lasts \subseteq Nat
  BY DEF Range
<1>3. \A v \in 0 .. 2 * n : v \in Nat /\ v * w \in Nat /\ (v + 1) * w = v * w + w
  BY Multiples
<1>4. ASSUME NEW v \in 0 .. 2 * n PROVE \E p \in Ends : Within(p, v)
  <2>1. PICK k \in 1 .. n : ~(last[k] < v * w) /\ ~((v + 1) * w <= first[k])
    OBVIOUS
  <2>2. first[k] \in Nat /\ last[k] \in Nat /\ last[k] - first[k] < w
    OBVIOUS
  <2>3. v * w \in Nat /\ (v + 1) * w = v * w + w
    BY <1>3
  <2>4. Within(first[k], v) \/ Within(last[k], v)
    BY <2>1, <2>2, <2>3
  <2> QED BY <1>1, <2>4
<1>5. \A v \in 0 .. 2 * n : g[v] \in Ends /\ Within(g[v], v)
  BY <1>4
<1>6. ASSUME NEW u \in 0 .. 2 * n, NEW v \in 0 .. 2 * n, u < v PROVE g[u] # g[v]
  <2>1. (u + 1) * w <= v * w
    <3>1. u + 1 \in Nat /\ v \in Nat /\ u + 1 <= v
      BY <1>6
    <3> QED BY <3>1, Multiples
  <2>2. g[u] < (u + 1) * w /\ v * w <= g[v] /\ g[u] \in Nat /\ g[v] \in Nat
    BY <1>2, <1>5
  <2>3. v * w \in Nat /\ (u + 1) * w \in Nat
    BY <1>3
  <2> HIDE DEF g
  <2>4. \A p, q, x, y \in Nat : p < x /\ x <= y /\ y <= q => p # q
    OBVIOUS
  <2>5. (u + 1) * w \in Nat
    BY <2>3
  <2> QED BY <2>1, <2>2, <2>3, <2>4, <2>5
<1>7. g \in Injection(0 .. 2 * n, Ends)
  <2>1. g \in [0 .. 2 * n -> Ends]
    BY <1>5
  <2>2. ASSUME NEW u \in 0 .. 2 * n, NEW v \in 0 .. 2 * n, g[u] = g[v] PROVE u = v
    <3>1. u < v \/ v < u \/ u = v
      OBVIOUS
    <3> HIDE DEF g
    <3> QED BY <1>6, <2>2, <3>1
  <2> QED BY <2>1, <2>2 DEF Injection, IsInjective
<1>8. IsFiniteSet(1 .. n) /\ Cardinality(1 .. n) = n
  <2>1. 1 \in Int /\ n \in Int
    OBVIOUS
  <2> QED BY <2>1, FS_Interval
<1>9. first \in Surjection(1 .. n, Firsts) /\ last \in Surjection(1 .. n, Lasts)
  BY DEF Surjection, Range
<1> HIDE DEF g, Within, Firsts, Lasts
<1>10. /\ IsFiniteSet(Firsts) /\ Cardinality(Firsts) <= n
       /\ IsFiniteSet(Lasts) /\ Cardinality(Lasts) <= n
  BY <1>8, <1>9, FS_Surjection
<1>11. /\ IsFiniteSet(Ends)
       /\ Cardinality(Ends) = Cardinality(Firsts) + Cardinality(Lasts) - Cardinality(Firsts \cap Lasts)
  BY <1>10, FS_Union
<1>12. Cardinality(Firsts) \in Nat /\ Cardinality(Lasts) \in Nat /\ Cardinality(Firsts \cap Lasts) \in Nat
  BY <1>10, FS_Intersection, FS_CardinalityType
<1>13. Cardinality(Ends) <= 2 * n
  BY <1>10, <1>11, <1>12
<1>14. Cardinality(0 .. 2 * n) = 2 * n + 1
  <2>1. 0 \in Int /\ 2 * n \in Int /\ ~(0 > 2 * n)
    OBVIOUS
  <2> QED BY <2>1, FS_Interval
<1>15. Cardinality(0 .. 2 * n) <= Cardinality(Ends)
  BY <1>7, <1>11, FS_Injection
<1> QED BY <1>11, <1>12, <1>13, <1>14, <1>15

LEMMA BlockEndsFinite ==
  ASSUME LayoutOK
  PROVE  /\ IsFiniteSet(BlockEnds) /\ Cardinality(BlockEnds) \in Nat
         /\ \A T \in SUBSET BlockEnds :
              /\ IsFiniteSet(T) /\ Cardinality(T) \in Nat
              /\ Cardinality(T) <= Cardinality(BlockEnds)
<1>1. 0 \in Int /\ limit - 1 \in Int
  BY StartsAreBelow
<1>2. IsFiniteSet(0 .. limit - 1)
  BY <1>1, FS_Interval
<1>3. BlockEnds \in SUBSET (0 .. limit - 1)
  BY DEF BlockEnds, LayoutOK
<1>4. IsFiniteSet(BlockEnds)
  BY <1>2, <1>3, FS_Subset
<1> QED BY <1>4, FS_Subset, FS_CardinalityType

\* A run of areas between two free ones is one that FitsIn is about.
LEMMA RunFits ==
  ASSUME LayoutOK, limit = Top, NEW n \in Nat, FitsIn(n), NEW b \in BlockRecord, IsRun(b)
  PROVE  0 < b.size /\ b.size <= n
<1>1. /\ b.startOrig \in Nat /\ b.size \in Nat /\ b.size > 0 /\ End(b) = b.startOrig + b.size
  BY DEF BlockRecord, IsRun, End
<1>2. End(b) \in BlockEnds
  BY <1>1 DEF IsRun, BlockEnds
<1>3. End(b) - b.startOrig <= n
  BY <1>1, <1>2 DEF FitsIn, IsRun
<1> QED BY <1>1, <1>3

\* The run that has been collected when a free area is reached.
LEMMA CollectedRun ==
  ASSUME MapInv, limit = Top, pc = "mapBlocks", ~AtTop, Info.type = "Free", maps # <<>>
  PROVE  /\ addr \in BlockEnds
         /\ \A k \in 1 .. Len(maps) :
              maps[k].type # "Reserved" /\ maps[k] \in Areas /\ Followed(maps[k])
         /\ BlockSize(Head(maps), Last(maps)) \in Nat
         /\ \A n \in Nat : FitsIn(n) => BlockSize(Head(maps), Last(maps)) <= n
<1>1. MapState /\ LayoutOK /\ Walking /\ Collected
  BY DEF MapInv, MapState
<1>2. /\ \A a \in Starts : a \in Nat /\ a < limit
      /\ limit \in Nat
  BY <1>1, StartsAreBelow
<1>3. addr \in Starts
  BY <1>1 DEF Walking
<1>4. type[addr] = "Free" /\ AreaEnd(addr) # limit
  BY <1>1, <1>3, InfoIs DEF AtTop
<1>5. /\ maps \in Seq(AreaRecord) /\ Len(maps) \in Nat
      /\ Head(maps) = maps[1] /\ Last(maps) = maps[Len(maps)]
      /\ 1 \in 1 .. Len(maps) /\ Len(maps) \in 1 .. Len(maps)
  BY <1>1, EmptySeq DEF MapState, Last
<1>6. BelowEnd
  BY <1>1 DEF Collected
<1>7. /\ maps[1].addr \in Starts
      /\ maps[Len(maps)].addr + maps[Len(maps)].size = addr
      /\ maps[1].addr < addr
      /\ \A k \in 1 .. Len(maps) : maps[k].addr \in Starts /\ maps[k] = AreaAt(maps[k].addr) /\ maps[k].type # "Free"
      /\ \A a \in Starts : maps[1].addr <= a /\ a < addr => \E k \in 1 .. Len(maps) : maps[k].addr = a
  BY <1>1, <1>5, <1>6 DEF Collected
<1>8. addr \in BlockEnds
  BY <1>2, <1>3, <1>4, <1>7 DEF BlockEnds
<1>9. maps[Len(maps)].addr \in Nat /\ maps[Len(maps)].size \in Nat
  <2>1. maps[Len(maps)] \in AreaRecord
    BY <1>5
  <2> QED BY <2>1 DEF AreaRecord
<1>10. BlockSize(Head(maps), Last(maps)) = addr - maps[1].addr
  BY <1>2, <1>3, <1>5, <1>7, <1>9 DEF BlockSize
<1>11. ASSUME NEW a \in Starts, maps[1].addr <= a, a < addr PROVE type[a] # "Free"
  <2>1. PICK k \in 1 .. Len(maps) : maps[k].addr = a
    BY <1>7, <1>11
  <2>2. maps[k] = AreaAt(a) /\ maps[k].type # "Free"
    BY <1>7, <2>1
  <2>3. AreaAt(a).type = type[a]
    BY <1>1, AreaAtStart
  <2> QED BY <2>2, <2>3
<1>12. addr - maps[1].addr \in Nat /\ maps[1].addr <= addr
  BY <1>2, <1>3, <1>7
<1>13. ASSUME NEW n \in Nat, FitsIn(n) PROVE addr - maps[1].addr <= n
  BY <1>7, <1>8, <1>11, <1>12, <1>13 DEF FitsIn
<1>14. ASSUME NEW k \in 1 .. Len(maps) PROVE maps[k] \in Areas /\ Followed(maps[k])
  <2>1. maps[k].addr \in Starts /\ maps[k] = AreaAt(maps[k].addr) /\ maps[k].addr < addr
    BY <1>1, <1>6, <1>7, EmptySeq DEF Collected
  <2>2. maps[k] \in Areas /\ AreaAt(addr) \in Areas
    BY <1>3, <2>1 DEF Areas, Starts
  <2>3. AreaAt(addr) = [addr |-> addr, size |-> AreaEnd(addr) - addr, type |-> "Free"]
    BY <1>1, <1>3, <1>4, AreaAtStart
  <2>4. AreaEnd(addr) \in Nat /\ addr + (AreaEnd(addr) - addr) # limit
    BY <1>1, <1>2, <1>3, <1>4, AreaEndIs
  <2> QED BY <2>1, <2>2, <2>3, <2>4 DEF Followed, IsFinal
<1> QED BY <1>6, <1>8, <1>10, <1>12, <1>13, <1>14 DEF BelowEnd

LEMMA RoomIsFound ==
  ASSUME MapInv, FirstMapping, HasRoom, limit = Top, sessions = 1,
         pc = "mapBlocks", ~AtTop, Info.type = "Free", maps # <<>>
  PROVE  FindAslr(BlockSize(Head(maps), Last(maps))) # {}
<1>1. MapState /\ LayoutOK /\ BlocksStand
  BY DEF MapInv, MapState
<1>2. PICK n \in Nat : FitsIn(n) /\ (2 * Cardinality(BlockEnds) - 1) * (n + 2 * Guard) <= OwnPages
  BY DEF HasRoom
<1> DEFINE w == n + 2 * Guard
           first == [k \in 1 .. Len(mBlocks) |-> mBlocks[k].startMapped]
           last == [k \in 1 .. Len(mBlocks) |-> BlockEnd(mBlocks[k]) - 1]
           size == BlockSize(Head(maps), Last(maps))
<1>3. Guard \in Nat \ {0} /\ OwnPages \in Nat /\ Len(mBlocks) \in Nat /\ w \in Nat \ {0}
  BY <1>1, MapAssumption DEF MapState
<1>4. ASSUME NEW k \in 1 .. Len(mBlocks)
      PROVE  /\ first[k] \in Nat /\ last[k] \in Nat
             /\ first[k] <= last[k] /\ last[k] - first[k] < w
  <2>1. mBlocks[k] \in BlockRecord /\ IsRun(mBlocks[k])
    BY <1>1, ElementOfSeq DEF MapState, BlocksStand
  <2>2. 0 < mBlocks[k].size /\ mBlocks[k].size <= n
    BY <1>1, <1>2, <2>1, RunFits
  <2>3. mBlocks[k].startMapped \in Nat /\ mBlocks[k].size \in Nat
    BY <2>1 DEF BlockRecord
  <2> QED BY <1>3, <2>2, <2>3 DEF BlockEnd
<1>5. first \in [1 .. Len(mBlocks) -> Nat] /\ last \in [1 .. Len(mBlocks) -> Nat]
  BY <1>4
<1> HIDE DEF w, first, last
<1>6. PICK v \in 0 .. 2 * Len(mBlocks) :
        \A k \in 1 .. Len(mBlocks) : last[k] < v * w \/ (v + 1) * w <= first[k]
  BY <1>3, <1>4, <1>5, OneWindowIsFree
<1>7. v \in Nat /\ v * w \in Nat /\ (v + 1) * w = v * w + w
  BY <1>3, Multiples
<1>8. (v + 1) * w <= OwnPages
  <2>1. addr \in BlockEnds /\ EndsPassed \in SUBSET BlockEnds /\ addr \notin EndsPassed
    <3>1. addr \in BlockEnds
      BY CollectedRun
    <3>2. addr \in Nat
      BY <1>1, <3>1, StartsAreBelow DEF BlockEnds
    <3> QED BY <3>1, <3>2 DEF EndsPassed
  <2>2. /\ IsFiniteSet(EndsPassed) /\ Cardinality(EndsPassed) \in Nat
        /\ Cardinality(EndsPassed \cup {addr}) <= Cardinality(BlockEnds)
        /\ Cardinality(BlockEnds) \in Nat
    <3>1. EndsPassed \cup {addr} \in SUBSET BlockEnds
      BY <2>1
    <3> QED BY <1>1, <2>1, <3>1, BlockEndsFinite
  <2>3. Cardinality(EndsPassed \cup {addr}) = Cardinality(EndsPassed) + 1
    BY <2>1, <2>2, FS_AddElement
  <2>4. Len(mBlocks) <= Cardinality(EndsPassed)
    BY DEF FirstMapping
  <2>5. /\ v + 1 \in Nat /\ 2 * Cardinality(BlockEnds) - 1 \in Nat
        /\ v + 1 <= 2 * Cardinality(BlockEnds) - 1
    BY <1>3, <1>7, <2>2, <2>3, <2>4
  <2>6. (v + 1) * w <= (2 * Cardinality(BlockEnds) - 1) * w
    BY <1>3, <2>5, Multiples
  <2>7. (2 * Cardinality(BlockEnds) - 1) * w <= OwnPages
    BY <1>2 DEF w
  <2>8. /\ (v + 1) * w \in Nat /\ (2 * Cardinality(BlockEnds) - 1) * w \in Nat
    BY <1>3, <2>5, Multiples
  <2> QED BY <1>3, <2>6, <2>7, <2>8
<1>9. size \in Nat /\ size <= n
  BY <1>2, CollectedRun
<1> HIDE DEF size
<1> DEFINE p == v * w + Guard
<1>10. ASSUME NEW q \in p - Guard .. p + size + Guard - 1
       PROVE  q \in OwnPage /\ own[q] = NotMapped /\ q \notin reserved
  <2>1. q \in Nat /\ v * w <= q /\ q < (v + 1) * w
    BY <1>3, <1>7, <1>9 DEF w
  <2>2. q \in OwnPage
    BY <1>3, <1>7, <1>8, <2>1 DEF OwnPage
  <2>3. ASSUME NEW k \in 1 .. Len(mBlocks)
        PROVE  ~(mBlocks[k].startMapped <= q /\ q < BlockEnd(mBlocks[k]))
    <3>1. last[k] < v * w \/ (v + 1) * w <= first[k]
      BY <1>6
    <3>2. first[k] = mBlocks[k].startMapped /\ last[k] = BlockEnd(mBlocks[k]) - 1
      BY DEF first, last
    <3>3. mBlocks[k].startMapped \in Nat /\ BlockEnd(mBlocks[k]) \in Int
      <4>1. mBlocks[k] \in BlockRecord
        BY <1>1, ElementOfSeq DEF MapState
      <4> QED BY <4>1 DEF BlockRecord, BlockEnd
    <3> QED BY <1>7, <1>3, <2>1, <3>1, <3>2, <3>3
  <2>4. ~InSomeBlock(q)
    BY <2>3 DEF InSomeBlock
  <2> QED BY <2>2, <2>4 DEF FirstMapping
<1>11. p \in OwnPage
  <2>1. p \in p - Guard .. p + size + Guard - 1
    BY <1>3, <1>7, <1>9
  <2> QED BY <1>10, <2>1
<1>12. p \in FindAslr(size)
  BY <1>10, <1>11 DEF FindAslr
<1> QED BY <1>12 DEF size

LEMMA FirstMappingKept ==
  ASSUME MapInv, FirstMapping, [MapNext]_mapVars
  PROVE  FirstMapping'
<1> SUFFICES ASSUME limit' = Top, sessions' = 1, pc' \in {"findModules", "mapBlocks"}
             PROVE  /\ pc' = "findModules" => reserved' = {} /\ \A q \in OwnPage : own'[q] = NotMapped
                    /\ pc' = "mapBlocks" =>
                         /\ \A q \in OwnPage : q \in reserved' \/ own'[q] # NotMapped => InSomeBlock(q)'
                         /\ Len(mBlocks') <= Cardinality(EndsPassed')
  BY DEF FirstMapping, OwnPage
<1>1. MapState /\ LayoutOK /\ Walking /\ sessions \in Nat \ {0}
  BY MapAssumption DEF MapInv, MapState
<1>2. UNCHANGED <<limit, type>>
  BY DEF MapNext, processVars, mapVars, FindModules, CollectArea, SkipFreeArea, MapBlock,
     MapBlockAborts, EndMapping, StartUnmapping, UnmapArea, UnmapEnds, Closed, Open
<1>3. Starts' = Starts /\ BlockEnds' = BlockEnds
  <2>1. \A a : AreaEnd(a)' = AreaEnd(a)
    BY <1>2, ProcessStays DEF processVars
  <2>2. Starts' = Starts
    BY <1>2 DEF Starts
  <2> QED BY <1>2, <2>1, <2>2 DEF BlockEnds
<1>4. ASSUME UNCHANGED <<own, reserved, mBlocks, sessions>>, pc' = "mapBlocks", pc = "mapBlocks",
             addr \in Nat, addr' \in Nat, addr <= addr'
      PROVE  /\ \A q \in OwnPage : q \in reserved' \/ own'[q] # NotMapped => InSomeBlock(q)'
             /\ Len(mBlocks') <= Cardinality(EndsPassed')
  <2>1. /\ \A q \in OwnPage : q \in reserved \/ own[q] # NotMapped => InSomeBlock(q)
        /\ Len(mBlocks) <= Cardinality(EndsPassed)
    BY <1>2, <1>4 DEF FirstMapping
  <2>2. \A q \in OwnPage : q \in reserved' \/ own'[q] # NotMapped => InSomeBlock(q)'
    BY <1>4, <2>1 DEF InSomeBlock, BlockEnd
  <2>3. \A f \in BlockEnds : f \in Nat
    BY <1>1, StartsAreBelow DEF BlockEnds
  <2>4. EndsPassed \in SUBSET EndsPassed' /\ EndsPassed' \in SUBSET BlockEnds
    BY <1>3, <1>4, <2>3 DEF EndsPassed
  <2>5. IsFiniteSet(EndsPassed') /\ Cardinality(EndsPassed') \in Nat
    BY <1>1, <2>4, BlockEndsFinite
  <2>6. Cardinality(EndsPassed) <= Cardinality(EndsPassed') /\ Cardinality(EndsPassed) \in Nat
    BY <2>4, <2>5, FS_Subset, FS_CardinalityType
  <2>7. Len(mBlocks) \in Nat
    BY <1>1 DEF MapState
  <2> QED BY <1>4, <2>1, <2>2, <2>5, <2>6, <2>7
<1>5. CASE UNCHANGED mapVars
  <2>1. /\ UNCHANGED <<own, reserved, pc, addr, mBlocks, sessions>> /\ addr \in Nat
    BY <1>1, <1>5 DEF mapVars, MapState
  <2> QED BY <1>2, <1>4, <2>1 DEF FirstMapping
<1>6. CASE FindModules
  <2>1. /\ pc = "findModules" /\ UNCHANGED <<own, reserved, mBlocks, sessions>>
    BY <1>6 DEF FindModules
  <2>2. reserved = {} /\ \A q \in OwnPage : own[q] = NotMapped
    BY <1>2, <2>1 DEF FirstMapping
  <2>3. mBlocks = <<>> /\ Len(mBlocks) = 0
    BY <1>1, <2>1 DEF Walking
  <2>4. EndsPassed' \in SUBSET BlockEnds
    BY <1>3 DEF EndsPassed
  <2>5. Cardinality(EndsPassed') \in Nat
    BY <1>1, <2>4, BlockEndsFinite
  <2>6. 0 <= Cardinality(EndsPassed')
    BY <2>5
  <2> QED BY <2>1, <2>2, <2>3, <2>6
<1>7. CASE CollectArea \/ SkipFreeArea
  <2>1. /\ pc = "mapBlocks" /\ pc' = pc /\ UNCHANGED <<own, reserved, mBlocks, sessions>>
        /\ addr' = Wrapped(addr + Info.size)
    BY <1>7 DEF CollectArea, SkipFreeArea
  <2>2. addr \in Starts
    BY <1>1, <1>2, <2>1 DEF Walking
  <2>3. addr' = AreaEnd(addr) /\ addr \in Nat /\ addr < AreaEnd(addr) /\ AreaEnd(addr) \in Nat
    BY <1>1, <2>1, <2>2, InfoIs, AreaEndIs, StartsAreBelow
  <2> QED BY <1>4, <2>1, <2>3
<1>8. CASE MapBlock
  <2>1. /\ pc = "mapBlocks" /\ pc' = pc /\ sessions' = sessions
    BY <1>8 DEF MapBlock
  <2>2. addr \in Starts /\ addr' = AreaEnd(addr) /\ addr \in BlockEnds
    <3>1. ~AtTop /\ Info.type = "Free" /\ maps # <<>>
      BY <1>8 DEF MapBlock
    <3> QED BY <1>2, <1>8, <2>1, <3>1, NewBlock, CollectedRun
  <2>3. PICK b \in BlockRecord :
          /\ mBlocks' = Append(mBlocks, b)
          /\ reserved' = reserved \cup (b.startMapped .. BlockEnd(b) - 1)
          /\ own' = [q \in OwnPage |->
                       IF b.startMapped <= q /\ q < BlockEnd(b)
                       THEN Content(q - b.startMapped + b.startOrig) ELSE own[q]]
    BY <1>8, NewBlock
  <2>4. /\ \A q \in OwnPage : q \in reserved \/ own[q] # NotMapped => InSomeBlock(q)
        /\ Len(mBlocks) <= Cardinality(EndsPassed)
    BY <1>2, <2>1 DEF FirstMapping
  <2>5. /\ mBlocks \in Seq(BlockRecord) /\ Len(mBlocks) \in Nat
        /\ Len(mBlocks') = Len(mBlocks) + 1
        /\ mBlocks'[Len(mBlocks) + 1] = b
        /\ \A k \in 1 .. Len(mBlocks) : mBlocks'[k] = mBlocks[k]
    BY <1>1, <2>3 DEF MapState
  <2>6. ASSUME NEW q \in OwnPage, q \in reserved' \/ own'[q] # NotMapped
        PROVE  \E k \in 1 .. Len(mBlocks') : mBlocks'[k].startMapped <= q /\ q < BlockEnd(mBlocks'[k])
    <3>1. CASE b.startMapped <= q /\ q < BlockEnd(b)
      <4>1. Len(mBlocks) + 1 \in 1 .. Len(mBlocks')
        BY <2>5
      <4> QED BY <2>5, <3>1, <4>1
    <3>2. CASE ~(b.startMapped <= q /\ q < BlockEnd(b))
      <4>1. q \in reserved \/ own[q] # NotMapped
        <5>1. b.startMapped \in Nat /\ BlockEnd(b) \in Nat /\ q \in Int
          BY DEF BlockRecord, BlockEnd, OwnPage
        <5>2. q \notin b.startMapped .. BlockEnd(b) - 1
          BY <3>2, <5>1
        <5> QED BY <2>3, <2>6, <3>2, <5>2
      <4>2. PICK k \in 1 .. Len(mBlocks) : mBlocks[k].startMapped <= q /\ q < BlockEnd(mBlocks[k])
        BY <2>4, <4>1 DEF InSomeBlock
      <4>3. k \in 1 .. Len(mBlocks') /\ mBlocks'[k] = mBlocks[k]
        BY <2>5
      <4> QED BY <4>2, <4>3
    <3> QED BY <3>1, <3>2
  <2>7. \A f \in BlockEnds : f \in Nat
    BY <1>1, StartsAreBelow DEF BlockEnds
  <2>8. addr \in Nat /\ addr < AreaEnd(addr) /\ AreaEnd(addr) \in Nat
    BY <1>1, <2>2, AreaEndIs, StartsAreBelow
  <2>9. /\ EndsPassed \cup {addr} \in SUBSET EndsPassed'
        /\ EndsPassed' \in SUBSET BlockEnds /\ EndsPassed \in SUBSET BlockEnds
        /\ addr \notin EndsPassed
    <3>1. EndsPassed' = {f \in BlockEnds : f < AreaEnd(addr)}
      BY <1>3, <2>2 DEF EndsPassed
    <3>2. EndsPassed = {f \in BlockEnds : f < addr}
      BY DEF EndsPassed
    <3>3. addr \in EndsPassed' /\ addr \notin EndsPassed
      BY <2>2, <2>8, <3>1, <3>2
    <3>4. \A f \in EndsPassed : f \in EndsPassed'
      BY <2>7, <2>8, <3>1, <3>2
    <3> QED BY <3>1, <3>2, <3>3, <3>4
  <2>10. /\ IsFiniteSet(EndsPassed') /\ Cardinality(EndsPassed') \in Nat
         /\ IsFiniteSet(EndsPassed) /\ Cardinality(EndsPassed) \in Nat
    BY <1>1, <2>9, BlockEndsFinite
  <2>11. Cardinality(EndsPassed \cup {addr}) = Cardinality(EndsPassed) + 1
    BY <2>9, <2>10, FS_AddElement
  <2>12. Cardinality(EndsPassed \cup {addr}) <= Cardinality(EndsPassed')
    BY <2>9, <2>10, FS_Subset
  <2>13. Len(mBlocks') <= Cardinality(EndsPassed')
    BY <2>4, <2>5, <2>10, <2>11, <2>12
  <2> QED BY <2>1, <2>6, <2>13 DEF InSomeBlock, BlockEnd
<1>9. CASE Open
  BY <1>1, <1>9 DEF Open
<1>10. CASE MapBlockAborts \/ EndMapping \/ StartUnmapping \/ UnmapArea \/ UnmapEnds \/ Closed
  BY <1>10 DEF MapBlockAborts, EndMapping, StartUnmapping, UnmapArea, UnmapEnds, Closed
<1> QED BY <1>5, <1>6, <1>7, <1>8, <1>9, <1>10 DEF MapNext

\* A session opens only where all that lies in blocks can be mapped.
LEMMA InvOpens == MapInv => (pc \in {"open", "unmap", "closed"} => limit = Top /\ ~HasRefused)
<1> SUFFICES ASSUME MapInv, pc \in {"open", "unmap", "closed"} PROVE limit = Top /\ ~HasRefused
  OBVIOUS
<1>1. LayoutOK /\ limit = Top /\ \A a \in Starts : type[a] = "Io" => ~FollowedAt(a)
  BY DEF MapInv, MapState, Walking, NoneLeftOut
<1>2. ASSUME NEW area \in Areas, IsRefused(area), Followed(area) PROVE FALSE
  <2>1. PICK a \in Starts : area = AreaAt(a)
    BY DEF Areas, Starts
  <2>2. \A b \in Starts : /\ AreaAt(b).addr = b /\ AreaAt(b).type = type[b]
                          /\ AreaAt(b).addr + AreaAt(b).size = AreaEnd(b)
    BY <1>1, AreaAtStart
  <2>3. type[a] = "Io"
    BY <1>1, <1>2, <2>1, <2>2 DEF IsRefused, LayoutOK, Type
  <2>4. FollowedAt(a)
    BY <1>2, <2>1, <2>2 DEF Followed, FollowedAt, Areas, IsFinal, Starts
  <2> QED BY <1>1, <2>3, <2>4
<1> QED BY <1>1, <1>2 DEF HasRefused

LEMMA RefusedStays ==
  ASSUME UNCHANGED processVars
  PROVE  HasRefused' <=> HasRefused
<1>1. limit' = limit /\ type' = type /\ \A a : AreaAt(a)' = AreaAt(a)
  BY ProcessStays DEF processVars
<1>2. Areas' = Areas
  BY <1>1 DEF Areas
<1>3. \A area : Followed(area)' <=> Followed(area)
  BY <1>1, <1>2 DEF Followed, IsFinal
<1> QED BY <1>2, <1>3 DEF HasRefused, IsRefused

RoomInv == MapInv /\ FirstMapping /\ (HasRoom => AbortIsExplained)

LEMMA RoomInvKept == RoomInv /\ [MapNext]_mapVars => RoomInv'
<1> SUFFICES ASSUME RoomInv, [MapNext]_mapVars PROVE RoomInv'
  OBVIOUS
<1>1. MapInv /\ FirstMapping /\ (HasRoom => AbortIsExplained) /\ sessions \in Nat \ {0}
      /\ LayoutOK
  BY MapAssumption DEF RoomInv, MapInv, MapState
<1>2. MapInv' /\ FirstMapping'
  BY <1>1, MapInvKept, FirstMappingKept
<1>3. UNCHANGED <<limit, type>>
  BY DEF MapNext, processVars, mapVars, FindModules, CollectArea, SkipFreeArea, MapBlock,
     MapBlockAborts, EndMapping, StartUnmapping, UnmapArea, UnmapEnds, Closed, Open
<1>4. HasRoom' <=> HasRoom
  <2>1. \A a : AreaEnd(a)' = AreaEnd(a)
    BY <1>3, ProcessStays DEF processVars
  <2>2. Starts' = Starts
    BY <1>3 DEF Starts
  <2>3. BlockEnds' = BlockEnds
    BY <1>3, <2>1, <2>2 DEF BlockEnds
  <2>4. \A n : FitsIn(n)' <=> FitsIn(n)
    BY <1>3, <2>2, <2>3 DEF FitsIn
  <2> QED BY <2>3, <2>4 DEF HasRoom
<1>5. ASSUME HasRoom, pc' = "aborted", limit' = Top, sessions' = 1 PROVE HasRefused
  <2>1. CASE pc = "aborted"
    <3>1. UNCHANGED <<pc, limit, sessions>>
      BY <2>1 DEF MapNext, processVars, mapVars, FindModules, CollectArea, SkipFreeArea, MapBlock,
         MapBlockAborts, EndMapping, StartUnmapping, UnmapArea, UnmapEnds, Closed, Open
    <3> QED BY <1>1, <1>5, <2>1, <3>1 DEF AbortIsExplained
  <2>2. CASE pc # "aborted"
    <3>1. MapBlockAborts
      BY <1>5, <2>2 DEF MapNext, mapVars, FindModules, CollectArea, SkipFreeArea, MapBlock,
         EndMapping, StartUnmapping, UnmapArea, UnmapEnds, Closed, Open
    <3>2. /\ pc = "mapBlocks" /\ ~AtTop /\ Info.type = "Free" /\ maps # <<>>
          /\ limit = Top /\ sessions = 1
      BY <1>3, <1>5, <3>1 DEF MapBlockAborts
    <3>3. FindAslr(BlockSize(Head(maps), Last(maps))) # {}
      BY <1>1, <1>5, <3>2, RoomIsFound
    <3>4. PICK area \in MappedAreas : IsRefused(area)
      BY <3>1, <3>3 DEF MapBlockAborts
    <3>5. \E k \in 1 .. Len(maps) : maps[k] = area
      BY <1>1 DEF MappedAreas, Range, MapInv, MapState
    <3>6. area \in Areas /\ Followed(area)
      BY <1>1, <3>2, <3>5, CollectedRun
    <3> QED BY <3>4, <3>6 DEF HasRefused
  <2> QED BY <2>1, <2>2
<1>6. sessions' \in Nat \ {0}
  BY <1>2, MapAssumption DEF MapInv, MapState
<1>7. HasRefused' <=> HasRefused
  BY <1>3, RefusedStays DEF processVars
<1>8. (pc \in {"open", "unmap", "closed"} => limit = Top /\ ~HasRefused)'
  BY <1>2, InvOpens, PTL
<1>9. HasRoom' => AbortIsExplained'
  BY <1>4, <1>5, <1>6, <1>7, <1>8 DEF AbortIsExplained
<1> QED BY <1>2, <1>9 DEF RoomInv

-----------------------------------------------------------------------------
\* Type correctness of the memory map: a walk never leaves the 64-bit addresses, and a block
\* is mapped inside the sysmodule's own address space.
THEOREM MapTypeCorrect == MapSpec => []MapTypeOK
BY MapInvAlways, InvTyped, PTL

\* findModules finds all the modules of a process, once each and in the order of their
\* addresses, whatever the layout of its memory.
THEOREM AllModulesFound == MapSpec => []ModulesFound
BY MapInvAlways, InvModules, PTL

\* MemoryMapMgr::get translates each page that should have been mapped to where it is
\* mapped, and any other address to 0 or into a hole or the end of a block.
THEOREM TranslationIsExact == MapSpec => []GetIsExact
BY MapInvAlways, InvGet, PTL

\* What stays mapped when sessions have been closed is just what lies in its block behind an
\* area that was left out.
THEOREM LeftoverIsAlwaysExplained == MapSpec => []LeftoverIsExplained
BY MapInvAlways, InvLeftover, PTL
\* Mapping never ends the sysmodule in the first session for a process whose address space
\* ends where mapBlocks expects it and whose blocks have no memory that the kernel refuses to
\* map, wherever virtmemFindAslr places the blocks, provided that the sysmodule has two windows
\* of the largest block's size for each block but the last, and one more.
THEOREM AbortNeedsLackOfRoom == MapSpec => [](HasRoom => AbortIsExplained)
<1>1. MapInit => RoomInv
  <2> SUFFICES ASSUME MapInit PROVE RoomInv
    OBVIOUS
  <2>1. FirstMapping /\ AbortIsExplained
    BY DEF MapInit, FirstMapping, AbortIsExplained
  <2> QED BY <2>1, MapInvInit DEF RoomInv
<1>2. RoomInv => (HasRoom => AbortIsExplained)
  BY DEF RoomInv
<1> QED BY <1>1, <1>2, RoomInvKept, PTL DEF MapSpec
=============================================================================
