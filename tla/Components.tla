----------------------------- MODULE Components -----------------------------
(***************************************************************************)
(* The windows of the sysmodule: a deque of components, all in the render  *)
(* thread.  A frame first sweeps the deque, deleting the components that   *)
(* are queued for deletion, and then updates those that are left.  The     *)
(* main window opens debugging sessions; a session that could attach has a *)
(* second window, its ModuleList, which refers to the session, and a       *)
(* pointer back to that list.                                              *)
(*                                                                         *)
(* The main window shows the processes it found when it last looked, which *)
(* it does every 361 frames.  It asks for every id, one after the other,   *)
(* whether a process has it, and then attaches to those it found, one      *)
(* after the other, to learn their names; processes start and exit         *)
(* meanwhile.  A name is the id of the process whose name it is.           *)
(*                                                                         *)
(* What opening and deleting a session does to the process it debugs is in *)
(* DebugSession.  That push_back may move the deque's table of nodes under *)
(* the loop in showImGui is not modelled: the loop would have to pass from *)
(* one node of 64 components to the next in that same frame.               *)
(***************************************************************************)
EXTENDS Naturals, Sequences, SequencesExt

CONSTANTS
  Session,  \* debugging sessions; one may be opened again when nothing is left of it
  MaxPid,   \* bound: processes started
  Boot,     \* processes that run from the start: 1 .. Boot
  Kept      \* those of them that nobody can attach to, the sysmodule for one

ASSUME ComponentsAssumption ==
  /\ MaxPid \in Nat
  /\ Boot \in 0 .. MaxPid
  /\ Kept \subseteq 1 .. Boot

MainWindow == <<"MainWindow">>
DebuggingSession(s) == <<"DebuggingSession", s>>
ModuleList(s) == <<"ModuleList", s>>

Component == {MainWindow} \cup {DebuggingSession(s) : s \in Session}
                          \cup {ModuleList(s) : s \in Session}

VARIABLES
  components,    \* SharedData::components
  mDelete,       \* the components of the deque that are queued for deletion
  attached,      \* the sessions whose mModuleList is not null
  mProcessId,    \* per session
  started, running, \* the largest process id that was given; the processes that run
  mProcessList, mNumProcesses,
  look,          \* in this frame, the list is not made yet, or not at all ("idle"), is
                 \* being made ("scan" for ids, "attach" for names), or was made ("done")
  pids,          \* the ids found so far
  at,            \* the next id of the scan, or the next row to be filled
  pc,            \* "sweep" (handleDeadComponents), "update", or "crashed"
  i,             \* the position of either loop
  end,           \* the end of the deque when the updates began
  backlog,       \* history: what was queued when the sweep, or the updates, began
  calm,          \* history: windows were closed only while there was no backlog
  refused,       \* history: processes whose name was asked for last in vain
  missed         \* history: processes that started behind the scan's back

scanVars == <<look, pids, at>>
listVars == <<mProcessList, mNumProcesses, scanVars, refused>>
processVars == <<started, running, missed>>
sessionVars == <<attached, mProcessId>>
vars == <<components, mDelete, sessionVars, processVars, listVars, pc, i, end, backlog, calm>>

Exists(c) == c \in Range(components)

Row == 1 .. MaxPid
NoName == 0

-----------------------------------------------------------------------------
(* handleDeadComponents *)

\* delete component; components.erase(components.begin() + i).  i is incremented all the
\* same, so that the component that moved to position i is not looked at.
AfterErase == i + 1

DeleteComponent ==
  /\ pc = "sweep"
  /\ i <= Len(components)
  /\ components[i] \in mDelete
  /\ components' = RemoveAt(components, i)
  /\ mDelete' = mDelete \ {components[i]}
  /\ i' = AfterErase
  /\ UNCHANGED <<sessionVars, processVars, listVars, pc, end, backlog, calm>>

KeepComponent ==
  /\ pc = "sweep"
  /\ i <= Len(components)
  /\ components[i] \notin mDelete
  /\ i' = i + 1
  /\ UNCHANGED <<components, mDelete, sessionVars, processVars, listVars, pc, end, backlog, calm>>

\* showImGui: the range-for reads the end of the deque once.
StartUpdates ==
  /\ pc = "sweep"
  /\ i > Len(components)
  /\ pc' = "update"
  /\ i' = 1
  /\ end' = Len(components)
  /\ backlog' = mDelete
  /\ UNCHANGED <<components, mDelete, sessionVars, processVars, listVars, calm>>

-----------------------------------------------------------------------------
(* The updates. *)

Updating(c) ==
  /\ pc = "update"
  /\ i <= end
  /\ components[i] = c

Debugged == {mProcessId[s] : s \in {t \in attached : Exists(DebuggingSession(t))}}
CanAttach(p) == p \in running \ (Kept \cup Debugged)

NameIfNone(r, p) == IF mProcessList[r].name = NoName /\ CanAttach(p) THEN p ELSE mProcessList[r].name
\* A row that cannot be named keeps the name it has.
NameOf(r, p) == IF CanAttach(p) THEN p ELSE mProcessList[r].name

-----------------------------------------------------------------------------
(* getProcessList, called by the update of the main window *)

InList(phase) ==
  /\ Updating(MainWindow)
  /\ look = phase
  /\ UNCHANGED <<components, mDelete, sessionVars, processVars, pc, i, end, backlog, calm>>

StartList ==
  /\ InList("idle")
  /\ look' = "scan"
  /\ UNCHANGED <<mProcessList, mNumProcesses, pids, at, refused>>

\* pmdmntGetProgramId, for one id.
ScanProcess ==
  /\ InList("scan")
  /\ at <= MaxPid
  /\ pids' = IF at \in running THEN Append(pids, at) ELSE pids
  /\ at' = at + 1
  /\ UNCHANGED <<mProcessList, mNumProcesses, look, refused>>

EndScan ==
  /\ InList("scan")
  /\ at > MaxPid
  /\ look' = "attach"
  /\ at' = 1
  /\ UNCHANGED <<mProcessList, mNumProcesses, pids, refused>>

\* svcDebugActiveProcess, for one row.  The process may have exited since the scan.
AttachProcess ==
  /\ InList("attach")
  /\ at <= Len(pids)
  /\ mProcessList' = [mProcessList EXCEPT
                        ![at] = [processId |-> pids[at], name |-> NameOf(at, pids[at])]]
  /\ refused' = IF CanAttach(pids[at]) THEN refused \ {pids[at]} ELSE refused \cup {pids[at]}
  /\ at' = at + 1
  /\ UNCHANGED <<mNumProcesses, look, pids>>

EndList ==
  /\ InList("attach")
  /\ at > Len(pids)
  /\ mNumProcesses' = Len(pids)
  /\ look' = "done"
  /\ pids' = <<>>
  /\ at' = 1
  /\ UNCHANGED <<mProcessList, refused>>

GetProcessList == StartList \/ ScanProcess \/ EndScan \/ AttachProcess \/ EndList

-----------------------------------------------------------------------------
(* Opening a session *)

SessionFirst(s) == <<DebuggingSession(s), ModuleList(s)>>       \* mutant
\* The session's constructor registers its list; then MainWindow registers the session.
Opened(s) == <<ModuleList(s), DebuggingSession(s)>>

PushFront(new) == new \o components       \* mutant
\* registerComponent, once or twice.
PushBack(new) == components \o new

\* A double click on a row.  If attaching fails there is no list, and mModuleList stays
\* null.
OpenSession(s) ==
  /\ ~Exists(DebuggingSession(s))
  /\ ~Exists(ModuleList(s))
  /\ \E r \in 1 .. mNumProcesses :
       LET p == mProcessList[r].processId
       IN  /\ mProcessId' = [mProcessId EXCEPT ![s] = p]
           /\ components' = PushBack(IF CanAttach(p) THEN Opened(s)
                                    ELSE <<DebuggingSession(s)>>)
           /\ attached' = IF CanAttach(p) THEN attached \cup {s} ELSE attached \ {s}

\* The rest of the update, behind the call of getProcessList if there is one.
UpdateMainWindow ==
  /\ Updating(MainWindow)
  /\ look \in {"idle", "done"}
  /\ \/ UNCHANGED <<components, sessionVars>>
     \/ \E s \in Session : OpenSession(s)
  /\ look' = "idle"
  /\ i' = i + 1
  /\ UNCHANGED <<mDelete, processVars, mProcessList, mNumProcesses, pids, at, refused,
                 pc, end, backlog, calm>>

-----------------------------------------------------------------------------
(* The other updates *)

\* The list shows the modules of mSession.  If that session has been deleted, what it
\* reads is freed memory, and the sysmodule may or may not survive it.
UpdateModuleList ==
  /\ \E s \in Session :
       /\ Updating(ModuleList(s))
       /\ \/ pc' = pc
          \/ ~Exists(DebuggingSession(s)) /\ pc' = "crashed"
  /\ i' = i + 1
  /\ UNCHANGED <<components, mDelete, sessionVars, processVars, listVars, end, backlog, calm>>

UpdateSession ==
  /\ \E s \in Session : Updating(DebuggingSession(s))
  /\ i' = i + 1
  /\ UNCHANGED <<components, mDelete, sessionVars, processVars, listVars, pc, end, backlog, calm>>

OnlySession(s) == {DebuggingSession(s)}       \* mutant: the list is forgotten
\* queueForDeletion of the session, then of its list.
QueueForDeletion(s) == {DebuggingSession(s), ModuleList(s)}

\* The user closes the session's window.  The call through mModuleList is virtual: through
\* a null pointer it ends the sysmodule, and through that of a deleted list it may.
CloseSession ==
  /\ \E s \in Session :
       /\ Updating(DebuggingSession(s))
       /\ mDelete' = mDelete \cup {c \in QueueForDeletion(s) : Exists(c)}
       /\ \/ s \in attached /\ pc' = pc
          \/ ~(s \in attached /\ Exists(ModuleList(s))) /\ pc' = "crashed"
  /\ calm' = (calm /\ backlog = {})
  /\ i' = i + 1
  /\ UNCHANGED <<components, sessionVars, processVars, listVars, end, backlog>>

\* The frame is drawn and sent (DrawMirror), and the next one begins.
EndUpdates ==
  /\ pc = "update"
  /\ i > end
  /\ pc' = "sweep"
  /\ i' = 1
  /\ backlog' = mDelete
  /\ UNCHANGED <<components, mDelete, sessionVars, processVars, listVars, end, calm>>

-----------------------------------------------------------------------------
(* Other programs *)

StartProcess ==
  /\ started < MaxPid
  /\ started' = started + 1
  /\ running' = running \cup {started'}
  /\ missed' = IF look = "scan" /\ started' < at THEN missed \cup {started'} ELSE missed
  /\ UNCHANGED <<components, mDelete, sessionVars, listVars, pc, i, end, backlog, calm>>

ExitProcess ==
  /\ \E p \in running \ Kept : running' = running \ {p}
  /\ UNCHANGED <<components, mDelete, sessionVars, started, missed, listVars, pc, i, end, backlog, calm>>

-----------------------------------------------------------------------------
Init ==
  /\ components = <<MainWindow>>
  /\ mDelete = {}
  /\ attached = {}
  /\ mProcessId = [s \in Session |-> 0]
  /\ started = Boot
  /\ running = 1 .. Boot
  /\ mProcessList = [r \in Row |-> [processId |-> 0, name |-> NoName]]
  /\ mNumProcesses = 0
  /\ look = "idle"
  /\ pids = <<>>
  /\ at = 1
  /\ refused = {}
  /\ missed = {}
  /\ pc = "sweep"
  /\ i = 1
  /\ end = 1
  /\ backlog = {}
  /\ calm = TRUE

Sweep == DeleteComponent \/ KeepComponent \/ StartUpdates
Update == \/ GetProcessList
          \/ UpdateMainWindow \/ UpdateModuleList
          \/ UpdateSession \/ CloseSession \/ EndUpdates

Next == Sweep \/ Update \/ StartProcess \/ ExitProcess

Spec == Init /\ [][Next]_vars

-----------------------------------------------------------------------------
(* Properties *)

\* The components of the deque are distinct, and only they are queued for deletion; what
\* the updates have not reached yet was in the deque when they began.
DequeOK ==
  /\ components \in Seq(Component)
  /\ \A j, k \in DOMAIN components : components[j] = components[k] => j = k
  /\ mDelete \subseteq Range(components)
  /\ pc \in {"sweep", "update", "crashed"}
  /\ i \in Nat \ {0}
  /\ end \in Nat
  /\ pc = "update" => end <= Len(components)

\* The sysmodule survives every frame, unless a window is closed while a deletion is
\* pending, or a session without a list is closed: then its mModuleList is null.
CrashIsExplained ==
  (pc = "crashed" /\ calm) =>
    \E s \in Session \ attached : components[i - 1] = DebuggingSession(s)

\* Row r is that of process p, with the name of p; or p could not be attached when the
\* list was made, because it is being debugged, cannot be, or had just exited.  Then the
\* row has the name that was there before, and that is the name of an older process, as
\* rows only ever move up; unless the scan for ids once missed a process that had started
\* behind it, and counted younger ones.
Explained(r) ==
  LET p == mProcessList[r].processId
      n == mProcessList[r].name
  IN  \/ n = p
      \/ p \in refused /\ (n < p \/ \E q \in missed : q <= p)

\* What the main window shows, whatever starts and exits while the list is made.
NameIsExplained == look # "attach" => \A r \in 1 .. mNumProcesses : Explained(r)

\* Frames are drawn while a client is connected, and the render thread is not blocked in
\* sending one.
FramesGoOn == []<><<Sweep \/ Update>>_vars

\* If frames are drawn, a session that was closed disappears, and its list with it,
\* whatever is skipped in between and however many windows are opened and closed
\* meanwhile.
ClosedDisappears ==
  FramesGoOn =>
    \A s \in Session :
      DebuggingSession(s) \in mDelete ~>
        \/ ~Exists(DebuggingSession(s)) /\ ~Exists(ModuleList(s))
        \/ pc = "crashed"

\* How far a component is from being deleted: its place in the deque, then whether this
\* frame's sweep is behind it, and then what is left of the loop.
Place(c) == CHOOSE k \in DOMAIN components : components[k] = c

PassedOver(c) == pc = "sweep" /\ i > Place(c)
Stage(c) == IF PassedOver(c) THEN 2 ELSE IF pc = "update" THEN 1 ELSE 0

LoopLeft == (IF pc = "sweep" THEN Len(components) ELSE end) + 2 - i

Nearer(c) ==
  \/ Place(c)' < Place(c)
  \/ Place(c)' = Place(c) /\ Stage(c)' < Stage(c)
  \/ Place(c)' = Place(c) /\ Stage(c)' = Stage(c) /\ LoopLeft' < LoopLeft

\* Every sweep brings a component that is queued nearer to its deletion, the sweeps that
\* skip it too: what is skipped has moved up, and what is opened goes behind it.
ClosedCountsDown ==
  [][\A c \in mDelete \cap mDelete' :
       UNCHANGED <<pc, i>> \/ pc' = "crashed" \/ Nearer(c)]_vars
=============================================================================
