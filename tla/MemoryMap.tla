----------------------------- MODULE MemoryMap ------------------------------
(***************************************************************************)
(* How a debugging session looks at the memory of its process: findModules *)
(* and mapBlocks walk the areas the kernel reports, mapBlocks maps what    *)
(* lies between two free areas as one block into the sysmodule, get()      *)
(* translates an address, and the destructor unmaps the blocks.            *)
(*                                                                         *)
(* Addresses are counted in pages, modulo AddressMod.  The process does    *)
(* not change its memory here; DebugSession shows what happens if it does. *)
(***************************************************************************)
EXTENDS Integers, Sequences, FiniteSets, FiniteSetsExt, SequencesExt

CONSTANTS
  Top,           \* 0x8000000000, where mapBlocks stops
  Limits,        \* where the address spaces of processes end: Top, or before it
  AddressMod,    \* addresses wrap around here: 2^64
  OwnPages,      \* pages of the sysmodule in which a place for a block is looked for
  Guard,         \* pages virtmemFindAslr keeps free around a block
  MaxSessions    \* how often a session is opened

ASSUME MapAssumption ==
  /\ Top \in Nat \ {0}
  /\ Limits \subseteq 1 .. Top
  /\ AddressMod \in Nat /\ AddressMod > Top
  /\ OwnPages \in 0 .. AddressMod
  /\ Guard \in Nat \ {0}
  /\ MaxSessions \in Nat \ {0}

VARIABLES
  limit,      \* the end of the process's address space
  type,       \* the type of each of its areas, by the address where it starts
  own,        \* the pages of the sysmodule: the process's page mapped there, or NotMapped
  reserved,   \* the pages of the sysmodule that are reserved
  pc,         \* "findModules", "mapBlocks", "open", "unmap", "closed" or "aborted"
  addr,       \* the address the current walk has reached
  mModules,   \* the areas findModules has found
  maps,       \* mapBuffer: the areas of the block being collected
  mBlocks,
  sessions    \* how many sessions have been opened

processVars == <<limit, type>>
mapVars == <<processVars, own, reserved, pc, addr, mModules, maps, mBlocks, sessions>>

\* "Code" is executable code of a module, and "Data" what else can be mapped.  "Shared"
\* stands for the shared, mapped and thread-local memory that mapBlock leaves out, and "Io"
\* for what it does not leave out although svcMapProcessMemory refuses it: I/O registers,
\* IPC buffers, transfer memory.
Type == {"Free", "Code", "Data", "Shared", "Io"}
NotMapped == -1
OwnPage == 0 .. OwnPages - 1

-----------------------------------------------------------------------------
(* The kernel *)

\* Areas are reported as the pages between two starts.  Two free areas are never adjacent,
\* and nothing is mapped at address 0.
Layouts(end) ==
  {t \in UNION {[starts \cup {0} -> Type] : starts \in SUBSET (1 .. end - 1)} :
     /\ t[0] = "Free"
     /\ \A a \in DOMAIN t : t[a] = "Free" /\ a # 0 =>
          t[Max({b \in DOMAIN t : b < a})] # "Free"}

AreaEnd(start) == Min({b \in DOMAIN type \cup {limit} : b > start})

\* svcQueryDebugProcessMemory, which reports everything behind the end as one area.
AreaAt(a) ==
  IF a < limit
  THEN LET start == Max({b \in DOMAIN type : b <= a})
       IN  [addr |-> start, size |-> AreaEnd(start) - start, type |-> type[start]]
  ELSE [addr |-> limit, size |-> AddressMod - limit, type |-> "Reserved"]

Wrapped(a) == a % AddressMod

PagesOf(area) == area.addr .. area.addr + area.size - 1

\* virtmemFindAslr: where size pages and the guards around them are neither mapped nor reserved.
FindAslr(size) ==
  {p \in OwnPage :
     \A q \in p - Guard .. p + size + Guard - 1 :
       q \in OwnPage /\ own[q] = NotMapped /\ q \notin reserved}

-----------------------------------------------------------------------------
(* DebuggingSession::findModules *)

Info == AreaAt(addr)
NextAddress == Wrapped(Info.addr + Info.size)

IsNotFree(area) == area.type # "Free"       \* mutant
IsModule(area) == area.type = "Code"

FindModules ==
  /\ pc = "findModules"
  /\ mModules' = IF IsModule(Info) THEN Append(mModules, Info) ELSE mModules
  /\ IF Info.type = "Reserved" \/ NextAddress < addr
     THEN pc' = "mapBlocks" /\ addr' = 0
     ELSE pc' = pc /\ addr' = NextAddress
  /\ UNCHANGED <<processVars, own, reserved, maps, mBlocks, sessions>>

-----------------------------------------------------------------------------
(* MemoryMapMgr::mapBlocks *)

\* addr + info.size == 0x0000008000000000
AtTop == addr + Info.size = Top

CollectArea ==
  /\ pc = "mapBlocks"
  /\ ~AtTop
  /\ Info.type # "Free"
  /\ maps' = Append(maps, Info)
  /\ addr' = Wrapped(addr + Info.size)
  /\ UNCHANGED <<processVars, own, reserved, pc, mModules, mBlocks, sessions>>

SkipFreeArea ==
  /\ pc = "mapBlocks"
  /\ ~AtTop
  /\ Info.type = "Free"
  /\ maps = <<>>
  /\ addr' = Wrapped(addr + Info.size)
  /\ UNCHANGED <<processVars, own, reserved, pc, mModules, maps, mBlocks, sessions>>

SizeFromZero(first, last) == last.addr + last.size            \* mutant
BlockSize(first, last) == last.addr - first.addr + last.size

IsMapped(area) == area.type # "Shared"

\* svcMapProcessMemory fails, and R_ABORT_UNLESS ends the sysmodule.
IsRefused(area) == area.type \in {"Io", "Reserved"}

MappedAreas == {area \in Range(maps) : IsMapped(area)}

\* mapBlock at found; the areas keep their distances.
MapBlockAt(found, first, last) ==
  LET size == BlockSize(first, last)
  IN  /\ own' = [q \in OwnPage |->
                   LET p == q - found + first.addr
                   IN  IF q >= found /\ \E area \in MappedAreas : p \in PagesOf(area)
                       THEN p ELSE own[q]]
      /\ reserved' = reserved \cup (found .. found + size - 1)
      /\ mBlocks' = Append(mBlocks,
                      [startOrig |-> first.addr, startMapped |-> found, size |-> size])

\* A free area ends a block.
MapBlock ==
  /\ pc = "mapBlocks"
  /\ ~AtTop
  /\ Info.type = "Free"
  /\ maps # <<>>
  /\ \A area \in MappedAreas : ~IsRefused(area)
  /\ \E found \in FindAslr(BlockSize(Head(maps), Last(maps))) :
       MapBlockAt(found, Head(maps), Last(maps))
  /\ maps' = <<>>
  /\ addr' = Wrapped(addr + Info.size)
  /\ UNCHANGED <<processVars, pc, mModules, sessions>>

\* No place is found, or one of the areas cannot be mapped.
MapBlockAborts ==
  /\ pc = "mapBlocks"
  /\ ~AtTop
  /\ Info.type = "Free"
  /\ maps # <<>>
  /\ \/ \E area \in MappedAreas : IsRefused(area)
     \/ FindAslr(BlockSize(Head(maps), Last(maps))) = {}
  /\ pc' = "aborted"
  /\ UNCHANGED <<processVars, own, reserved, addr, mModules, maps, mBlocks, sessions>>

\* mapBuffer is freed with what was collected last.
EndMapping ==
  /\ pc = "mapBlocks"
  /\ AtTop
  /\ pc' = "open"
  /\ maps' = <<>>
  /\ addr' = 0
  /\ UNCHANGED <<processVars, own, reserved, mModules, mBlocks, sessions>>

-----------------------------------------------------------------------------
(* MemoryMapMgr::get, and the destructor *)

EndsBehind(block, p) == p <= block.startOrig + block.size       \* mutant
InBlock(block, p) == block.startOrig <= p /\ p <= block.startOrig + block.size

\* The first block that contains p; 0 if there is none.
Get(p) ==
  LET hits == {k \in DOMAIN mBlocks : InBlock(mBlocks[k], p)}
  IN  IF hits = {} THEN 0
      ELSE p - mBlocks[Min(hits)].startOrig + mBlocks[Min(hits)].startMapped

StartUnmapping ==
  /\ pc = "open"
  /\ pc' = "unmap"
  /\ addr' = IF mBlocks = <<>> THEN 0 ELSE Head(mBlocks).startMapped
  /\ UNCHANGED <<processVars, own, reserved, mModules, maps, mBlocks, sessions>>

\* svcQueryMemory in the sysmodule: mapped pages that follow each other are one area.
RunEnd(q) == Min({r \in q .. OwnPages : r = OwnPages \/ own[r] = NotMapped})

BlockEnd(block) == block.startMapped + block.size

EndsBeforeLast(block) == own[addr] = NotMapped \/ RunEnd(addr) >= BlockEnd(block)  \* mutant
EndsUnmapping(block) == own[addr] = NotMapped \/ addr >= BlockEnd(block)

\* unmap() of the first block that is left.
UnmapArea ==
  /\ pc = "unmap"
  /\ mBlocks # <<>>
  /\ ~EndsUnmapping(Head(mBlocks))
  /\ own' = [q \in OwnPage |-> IF addr <= q /\ q < RunEnd(addr) THEN NotMapped ELSE own[q]]
  /\ addr' = RunEnd(addr)
  /\ UNCHANGED <<processVars, reserved, pc, mModules, maps, mBlocks, sessions>>

\* Its reservation is kept.
UnmapEnds ==
  /\ pc = "unmap"
  /\ mBlocks # <<>>
  /\ EndsUnmapping(Head(mBlocks))
  /\ mBlocks' = Tail(mBlocks)
  /\ addr' = IF mBlocks' = <<>> THEN 0 ELSE Head(mBlocks').startMapped
  /\ UNCHANGED <<processVars, own, reserved, pc, mModules, maps, sessions>>

Closed ==
  /\ pc = "unmap"
  /\ mBlocks = <<>>
  /\ pc' = "closed"
  /\ UNCHANGED <<processVars, own, reserved, addr, mModules, maps, mBlocks, sessions>>

\* Another session for the process.
Open ==
  /\ pc = "closed"
  /\ sessions < MaxSessions
  /\ sessions' = sessions + 1
  /\ pc' = "findModules"
  /\ addr' = 0
  /\ mModules' = <<>>
  /\ UNCHANGED <<processVars, own, reserved, maps, mBlocks>>

-----------------------------------------------------------------------------
MapInit ==
  /\ limit \in Limits
  /\ type \in Layouts(limit)
  /\ own = [q \in OwnPage |-> NotMapped]
  /\ reserved = {}
  /\ pc = "findModules"
  /\ addr = 0
  /\ mModules = <<>>
  /\ maps = <<>>
  /\ mBlocks = <<>>
  /\ sessions = 1

MapNext ==
  \/ FindModules
  \/ CollectArea \/ SkipFreeArea \/ MapBlock \/ MapBlockAborts \/ EndMapping
  \/ StartUnmapping \/ UnmapArea \/ UnmapEnds \/ Closed
  \/ Open

MapSpec == MapInit /\ [][MapNext]_mapVars

-----------------------------------------------------------------------------
(* Properties *)

MapTypeOK ==
  /\ limit \in Limits
  /\ DOMAIN type \subseteq 0 .. limit - 1 /\ Range(type) \subseteq Type
  /\ \A q \in OwnPage : own[q] = NotMapped \/ own[q] \in 0 .. limit - 1
  /\ reserved \subseteq OwnPage
  /\ pc \in {"findModules", "mapBlocks", "open", "unmap", "closed", "aborted"}
  /\ addr \in 0 .. AddressMod - 1
  /\ \A k \in DOMAIN mBlocks : mBlocks[k].startMapped + mBlocks[k].size <= OwnPages
  /\ sessions \in 0 .. MaxSessions

Areas == {AreaAt(a) : a \in DOMAIN type}
IsFinal(area) == area.addr + area.size = limit

\* What mapBlocks should have mapped: the areas that can be mapped and that some free
\* area follows, other than the one at the end of the address space.
Followed(area) == \E b \in Areas : b.type = "Free" /\ b.addr > area.addr /\ ~IsFinal(b)
Mappable == {area \in Areas : area.type \in {"Code", "Data"} /\ Followed(area)}
MappablePages == UNION {PagesOf(area) : area \in Mappable}

\* findModules finds all the modules, in the order of their addresses.
ModulesFound ==
  pc = "open" =>
    /\ Range(mModules) = {area \in Areas : area.type = "Code"}
    /\ \A j, k \in DOMAIN mModules : j < k => mModules[j].addr < mModules[k].addr

\* get() translates every page that mapBlocks should have mapped to where it is mapped, in
\* spite of holes in a block and of the end that counts as part of it; any other address to
\* 0, except in the holes of a block and right behind it.
GetIsExact ==
  pc = "open" =>
    \A p \in 0 .. Top - 1 :
      IF p \in MappablePages
      THEN Get(p) \in OwnPage /\ own[Get(p)] = p
      ELSE \/ Get(p) = 0
           \/ AreaAt(p).type = "Shared"
           \/ AreaAt(p).addr = p /\ AreaAt(p).type = "Free"

\* unmap() stops at the first hole.  What stays mapped when the session has been deleted
\* are just the areas of a block behind an area that was left out when it was mapped.
BehindHole(p) ==
  \E b \in Areas :
    /\ b.type = "Shared"
    /\ b.addr < p
    /\ \A f \in Areas : f.type = "Free" => ~(b.addr < f.addr /\ f.addr < p)
LeftoverIsExplained ==
  pc = "closed" => {own[q] : q \in OwnPage} \ {NotMapped} = {p \in MappablePages : BehindHole(p)}

\* The constructor ends the sysmodule only if the address space of the process does not
\* end where mapBlocks expects it, if the process has memory that the kernel refuses to map
\* and that is not in its last block, or if earlier sessions have used up the sysmodule's
\* own address space: no reservation is ever given back.  And no session opens for a
\* process of the first two kinds.
HasRefused == \E area \in Areas : IsRefused(area) /\ Followed(area)
AbortIsExplained ==
  /\ pc = "aborted" => limit # Top \/ HasRefused \/ sessions > 1
  /\ pc \in {"open", "unmap", "closed"} => limit = Top /\ ~HasRefused
=============================================================================
