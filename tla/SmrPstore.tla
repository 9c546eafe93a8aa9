------------------------------ MODULE SmrPstore ------------------------------
(***************************************************************************)
(* Persistence of the zone state: the pages of zone_state in memory, their *)
(* copy behind the last zone of the device, the change flags and the queue *)
(* of smrsim_ptask, and the four parties that use them:                    *)
(*   - bios (smrsim_map), under smrsim_zone_lock;                          *)
(*   - one ioctl at a time (smrsim_ioct_lock), which changes the state     *)
(*     under the zone lock, or not, and marks the change under no lock     *)
(*     shared with the others;                                             *)
(*   - the persistence thread (smrsim_persistence_task);                   *)
(*   - the constructor after a crash or a removal (load, or default).      *)
(*                                                                         *)
(* A page is abstracted to the number of the change that gave it its       *)
(* content, and to whether the zone table is empty (page 0 holds           *)
(* num_zones).  The CRC of the header is abstracted to what it was         *)
(* computed of: no two contents have one CRC.  A page is written whole.    *)
(***************************************************************************)
EXTENDS Integers, FiniteSets, FiniteSetsExt

CONSTANTS
  LastPage,         \* the state takes pages 0..LastPage of 4 KiB
  Zones,            \* zone indices the bios use
  StatsPage,        \* page of a zone's statistics
  StatusPage,       \* page of a zone's status
  Edge,             \* SMR_PSTORE_PG_EDG
  QueueDepth,       \* SMR_PSTORE_QDEPTH
  Gap,              \* SMR_PSTORE_PG_GAP
  UnlockedChanges,  \* whether ioctls change the state outside the zone lock
  WritesMayFail,    \* whether a page write may fail
  MaxVer,           \* bound: changes made
  MaxCrashes        \* bound: crashes or removals

Pages == 0..LastPage

ASSUME LayoutAssumption ==
  /\ LastPage \in Nat
  /\ Zones \subseteq Nat
  /\ StatsPage \in [Zones -> Pages]
  /\ StatusPage \in [Zones -> Pages]

ASSUME BoundsAssumption ==
  /\ Edge \in Nat /\ QueueDepth \in Nat \ {0} /\ Gap \in Nat \ {0}
  /\ UnlockedChanges \in BOOLEAN /\ WritesMayFail \in BOOLEAN
  /\ MaxVer \in Nat /\ MaxCrashes \in Nat

VARIABLES
  mem,        \* zone_state in memory, by page
  crc,        \* header.crc32 in memory: the content it was computed of
  disk,       \* the pages on the device
  diskCrc,    \* header.crc32 on the device
  magic,      \* whether the device's header has the magic number
  flag,       \* smrsim_ptask.flag
  queue,      \* stu_zone_idx[0..stu_zone_idx_cnt-1]
  gap,        \* stu_zone_idx_gap
  sts,        \* sts_zone_idx
  lock,       \* holder of smrsim_zone_lock
  pc,         \* where the persistence thread is
  todo,       \* pages it has still to write
  ioc, iold,  \* where the ioctl is, and the flag it loaded
  bio, bold,  \* where the bio is, and the flag it loaded
  phase,      \* "up", "boot" (constructor to load) or "resave" (it saves)
  ver,        \* changes so far (history)
  owed,       \* last change of each page made under the zone lock and
              \* marked (history)
  asked,      \* last change of each page an ioctl marked (history)
  spoilt,     \* whether a page write failed, or the state changed outside the
              \* zone lock, since the thread computed its CRC (history)
  crashes     \* crashes so far

store == <<mem, crc, disk, diskCrc, magic>>
ptask == <<flag, queue, gap, sts>>
thread == <<pc, todo>>
callers == <<ioc, iold, bio, bold>>
history == <<ver, owed, asked, spoilt>>
vars == <<mem, crc, disk, diskCrc, magic, flag, queue, gap, sts, lock, pc, todo,
          ioc, iold, bio, bold, phase, ver, owed, asked, spoilt, crashes>>

Marks == {"CONFIG", "STATS", "STATUS"}
Page == [ver : 0..MaxVer, empty : BOOLEAN]
Default == [p \in Pages |-> [ver |-> 0, empty |-> FALSE]]
Blank == [p \in Pages |-> [ver |-> 0, empty |-> TRUE]]
NoChange == [p \in Pages |-> 0]

Empty == mem[0].empty

\* A new device: no magic number, so the constructor builds the default
\* state and saves it.
Init ==
  /\ mem = Default /\ crc = Default
  /\ disk = Blank /\ diskCrc = Blank /\ magic = FALSE
  /\ flag = {} /\ queue = {} /\ gap = 0 /\ sts = 0
  /\ lock = "free"
  /\ pc = "sleep" /\ todo = Pages
  /\ ioc = "idle" /\ iold = {}
  /\ bio = "idle" /\ bold = {}
  /\ phase = "resave"
  /\ ver = 0 /\ owed = NoChange /\ asked = NoChange /\ spoilt = FALSE
  /\ crashes = 0

-----------------------------------------------------------------------------
(* Changes of the state.                                                   *)

\* The pages of P get new content; e says whether the table is then empty.
Apply(P, e) ==
  /\ ver < MaxVer
  /\ ver' = ver + 1
  /\ mem' = [p \in Pages |->
               [ver |-> IF p \in P THEN ver + 1 ELSE mem[p].ver,
                empty |-> p = 0 /\ e]]

Change(P, e) == Apply(P, e) /\ spoilt' = spoilt

\* The same without the zone lock, perhaps under the eyes of the thread.
ChangeUnlocked(P, e) == Apply(P, e) /\ spoilt' = (spoilt \/ lock = "task")

Stamp(f, P) == [p \in Pages |-> IF p \in P THEN ver + 1 ELSE f[p]]

Marked(P) == owed' = Stamp(owed, P) /\ asked' = asked
MarkedByIoctl(P) == owed' = Stamp(owed, P) /\ asked' = Stamp(asked, P)
MarkedUnlocked(P) == owed' = owed /\ asked' = Stamp(asked, P)

-----------------------------------------------------------------------------
(* Bios.  flag |= x is a load and a store: the ioctl's is under another    *)
(* lock.                                                                   *)

Near(y, z) == y - z \in (-Edge)..Edge

\* (Defect: the length of the queue is not looked at.)
EnqueueUnbounded(z) ==
  /\ queue' = IF \E y \in queue : Near(y, z) THEN queue ELSE queue \cup {z}
  /\ gap' = gap

\* smrsim_ptask_gap_ok finds the zone just queued, so only a full queue moves
\* the gap.
Enqueue(z) ==
  IF Cardinality(queue) = QueueDepth
    THEN gap' = Gap /\ queue' = queue
    ELSE /\ queue' = IF \E y \in queue : Near(y, z) THEN queue ELSE queue \cup {z}
         /\ gap' = gap

\* A mapped write: the zone's status changes, then STATUS is marked.
MapWrite(z) ==
  /\ phase = "up" /\ lock = "free" /\ ~Empty
  /\ Change({StatusPage[z]}, FALSE) /\ Marked({StatusPage[z]})
  /\ lock' = "bio" /\ bio' = "STATUS" /\ bold' = flag
  /\ Enqueue(z)
  /\ UNCHANGED <<crc, disk, diskCrc, magic, flag, sts, thread, ioc, iold, phase, crashes>>

\* A refused bio: STATS is marked, and most refusals change a counter of the
\* zone (one of a zone that does not exist does not).
MapRefuse(z) ==
  /\ phase = "up" /\ lock = "free"
  /\ \/ ~Empty /\ Change({StatsPage[z]}, FALSE) /\ Marked({StatsPage[z]})
     \/ UNCHANGED <<mem, history>>
  /\ lock' = "bio" /\ bio' = "STATS" /\ bold' = flag
  /\ sts' = z
  /\ UNCHANGED <<crc, disk, diskCrc, magic, flag, queue, gap, thread, ioc, iold, phase, crashes>>

\* (Defect: the mark is forgotten.)
MapDoneUnmarked ==
  /\ bio # "idle"
  /\ bio' = "idle" /\ lock' = "free"
  /\ UNCHANGED <<store, ptask, thread, ioc, iold, bold, phase, history, crashes>>

MapDone ==
  /\ bio # "idle"
  /\ flag' = bold \cup {bio}
  /\ bio' = "idle" /\ lock' = "free" /\ bold' = {}
  /\ UNCHANGED <<store, queue, gap, sts, thread, ioc, iold, phase, history, crashes>>

\* A bio that breaks the rules with both out-of-policy flags set, a bio that
\* passes a read, and a peer module's call of an exported function change
\* the state under the zone lock and mark nothing.
QuietChange(p) ==
  /\ phase = "up" /\ lock = "free"
  /\ Change({p}, Empty)
  /\ UNCHANGED <<crc, disk, diskCrc, magic, ptask, lock, thread, callers, phase,
                 owed, asked, crashes>>

-----------------------------------------------------------------------------
(* Ioctls.                                                                 *)

\* The change, under the zone lock: a zone or the device configuration, or
\* the whole table (RESET_DEFAULTCONFIG, RESET_ZONECONFIG, SET_SIZZONEDEFAULT,
\* ADD_ZONECONFIG of the first zone).
IoctlChange(P) ==
  /\ phase = "up" /\ ioc = "idle" /\ lock = "free"
  /\ Empty => P = Pages
  /\ Change(P, FALSE) /\ MarkedByIoctl(P)
  /\ ioc' = "load"
  /\ UNCHANGED <<crc, disk, diskCrc, magic, ptask, lock, thread, iold, bio, bold,
                 phase, crashes>>

\* CLEAR_ZONECONFIG: the thread does not save an empty table, so nothing
\* is owed any more.  (The statistics it clears before it takes the zone lock
\* are an IoctlQuiet change.)
IoctlClear ==
  /\ phase = "up" /\ ioc = "idle" /\ lock = "free"
  /\ Change(Pages, TRUE)
  /\ owed' = NoChange /\ asked' = NoChange
  /\ ioc' = "load"
  /\ UNCHANGED <<crc, disk, diskCrc, magic, ptask, lock, thread, iold, bio, bold,
                 phase, crashes>>

\* RESET_STATS and RESET_ZONESTATS take no zone lock.
IoctlResetStats(p) ==
  /\ UnlockedChanges
  /\ phase = "up" /\ ioc = "idle" /\ ~Empty
  /\ ChangeUnlocked({p}, FALSE) /\ MarkedUnlocked({p})
  /\ ioc' = "load"
  /\ UNCHANGED <<crc, disk, diskCrc, magic, ptask, lock, thread, iold, bio, bold,
                 phase, crashes>>

\* Neither do BORDER_CROSS and the idle time every ioctl updates; they mark
\* nothing.
IoctlQuiet(p) ==
  /\ UnlockedChanges
  /\ phase = "up" /\ ioc = "idle"
  /\ ChangeUnlocked({p}, Empty)
  /\ UNCHANGED <<crc, disk, diskCrc, magic, ptask, lock, thread, callers, phase,
                 owed, asked, crashes>>

IoctlLoad ==
  /\ ioc = "load"
  /\ ioc' = "store" /\ iold' = flag
  /\ UNCHANGED <<store, ptask, lock, thread, bio, bold, phase, history, crashes>>

\* (Defect: the mark is forgotten.)
IoctlStoreUnmarked ==
  /\ ioc = "store"
  /\ flag' = iold
  /\ ioc' = "idle" /\ iold' = {}
  /\ UNCHANGED <<store, queue, gap, sts, lock, thread, bio, bold, phase, history, crashes>>

IoctlStore ==
  /\ ioc = "store"
  /\ flag' = iold \cup {"CONFIG"}
  /\ ioc' = "idle" /\ iold' = {}
  /\ UNCHANGED <<store, queue, gap, sts, lock, thread, bio, bold, phase, history, crashes>>

-----------------------------------------------------------------------------
(* The persistence thread.                                                 *)

Running(at) == phase = "up" /\ pc = at

\* The lowest page left is copied and written; page 0 takes the header along.
\* The result of the write is not looked at.
WriteNextPage ==
  LET p == Min(todo) IN
  /\ todo' = todo \ {p}
  /\ \/ /\ disk' = [disk EXCEPT ![p] = mem[p]]
        /\ diskCrc' = IF p = 0 THEN crc ELSE diskCrc
        /\ magic' = (magic \/ p = 0)
        /\ spoilt' = spoilt
     \/ WritesMayFail /\ spoilt' = TRUE /\ UNCHANGED <<disk, diskCrc, magic>>
  /\ UNCHANGED <<mem, crc, ver, owed, asked>>

TaskWake ==
  /\ Running("sleep") /\ flag # {}
  /\ pc' = "lock"
  /\ UNCHANGED <<store, ptask, lock, todo, callers, phase, history, crashes>>

TaskLock ==
  /\ Running("lock") /\ lock = "free"
  /\ lock' = "task" /\ pc' = "test"
  /\ UNCHANGED <<store, ptask, todo, callers, phase, history, crashes>>

\* Nothing is saved of an empty table.
TaskSkipEmpty ==
  /\ Running("test") /\ "CONFIG" \in flag /\ Empty
  /\ flag' = {} /\ pc' = "sleep" /\ lock' = "free"
  /\ UNCHANGED <<store, queue, gap, sts, todo, callers, phase, history, crashes>>

\* (Defect: the part page at the end is left out.)
TaskSaveWholePages ==
  /\ Running("test") /\ "CONFIG" \in flag /\ ~Empty
  /\ crc' = mem /\ todo' = Pages \ {LastPage} /\ pc' = "save" /\ spoilt' = FALSE
  /\ UNCHANGED <<mem, disk, diskCrc, magic, ptask, lock, callers, phase, ver,
                 owed, asked, crashes>>

\* smrsim_save_persistence: the CRC, then every page.
TaskSave ==
  /\ Running("test")
  /\ \/ "CONFIG" \in flag /\ ~Empty /\ pc' = "save"
     \/ "CONFIG" \notin flag /\ gap >= Gap /\ pc' = "gapsave"
  /\ crc' = mem /\ todo' = Pages /\ spoilt' = FALSE
  /\ UNCHANGED <<mem, disk, diskCrc, magic, ptask, lock, callers, phase, ver,
                 owed, asked, crashes>>

TaskSavePage ==
  /\ phase = "up" /\ pc \in {"save", "gapsave"} /\ todo # {}
  /\ WriteNextPage
  /\ UNCHANGED <<ptask, lock, pc, callers, phase, crashes>>

TaskSaved ==
  /\ phase = "up" /\ pc \in {"save", "gapsave"} /\ todo = {}
  /\ flag' = {}
  /\ IF pc = "gapsave" THEN queue' = {} /\ gap' = 0 ELSE UNCHANGED <<queue, gap>>
  /\ pc' = "sleep" /\ lock' = "free"
  /\ UNCHANGED <<store, sts, todo, callers, phase, history, crashes>>

\* (Defect: the CRC is not computed again.)
TaskFlushOldCrc ==
  /\ Running("test") /\ "CONFIG" \notin flag /\ gap < Gap
  /\ flag' = {} /\ todo' = {0} /\ pc' = "flush" /\ spoilt' = FALSE
  /\ UNCHANGED <<store, queue, gap, sts, lock, callers, phase, ver, owed, asked,
                 crashes>>

\* smrsim_flush_persistence: the CRC of the whole state; flag &= CONFIG drops
\* the other marks, and CONFIG, if it arrived meanwhile, is dropped next.
TaskFlush ==
  /\ Running("test") /\ "CONFIG" \notin flag /\ gap < Gap
  /\ crc' = mem /\ flag' = {} /\ todo' = {0} /\ pc' = "flush" /\ spoilt' = FALSE
  /\ UNCHANGED <<mem, disk, diskCrc, magic, queue, gap, sts, lock, callers, phase,
                 ver, owed, asked, crashes>>

TaskFlushPage ==
  /\ phase = "up" /\ pc \in {"flush", "stats", "status"} /\ todo # {}
  /\ WriteNextPage
  /\ UNCHANGED <<ptask, lock, pc, callers, phase, crashes>>

\* The pages smrsim_pstore_pg_idx names for a zone.
PagesOf(z) == {StatsPage[z], StatsPage[z] + 1} \cap Pages

\* Page 0 is written; a STATS mark that an ioctl put back is looked at.
TaskFlushStats ==
  /\ Running("flush") /\ todo = {}
  /\ flag' = {}
  /\ IF "STATS" \in flag /\ sts > Edge
       THEN todo' = PagesOf(sts) /\ sts' = 0
       ELSE UNCHANGED <<todo, sts>>
  /\ pc' = "stats"
  /\ UNCHANGED <<store, queue, gap, lock, callers, phase, history, crashes>>

\* So is a STATUS mark.
TaskFlushStatus ==
  /\ Running("stats") /\ todo = {}
  /\ flag' = {}
  /\ IF "STATUS" \in flag
       THEN todo' = UNION {PagesOf(z) : z \in queue} /\ queue' = {} /\ gap' = 0
       ELSE UNCHANGED <<todo, queue, gap>>
  /\ pc' = "status"
  /\ UNCHANGED <<store, sts, lock, callers, phase, history, crashes>>

TaskFlushed ==
  /\ Running("status") /\ todo = {}
  /\ pc' = "sleep" /\ lock' = "free"
  /\ UNCHANGED <<store, ptask, todo, callers, phase, history, crashes>>

-----------------------------------------------------------------------------
(* Crashes and restarts.                                                   *)

\* Power is lost, or the target is removed: the destructor saves nothing.
\* A removal leaves sts_zone_idx as it was.
Crash ==
  /\ crashes < MaxCrashes
  /\ crashes' = crashes + 1
  /\ phase' = "boot"
  /\ flag' = {} /\ queue' = {} /\ gap' = 0
  /\ lock' = "free" /\ pc' = "sleep" /\ todo' = {}
  /\ ioc' = "idle" /\ iold' = {} /\ bio' = "idle" /\ bold' = {}
  /\ sts' \in {0, sts}
  /\ UNCHANGED <<store, history>>

\* (Defect: the CRC is not checked.)
ValidMagicOnly == magic

\* smrsim_load_persistence
Valid == magic /\ disk = diskCrc

LoadState ==
  /\ phase = "boot"
  /\ Valid
  /\ mem' = disk /\ crc' = diskCrc
  /\ owed' = NoChange /\ asked' = NoChange
  /\ phase' = "up"
  /\ UNCHANGED <<disk, diskCrc, magic, ptask, lock, thread, callers, ver, spoilt, crashes>>

\* No state, or one that does not fit its CRC: the default is built and saved.
LoadDefault ==
  /\ phase = "boot"
  /\ ~Valid
  /\ mem' = Default /\ crc' = Default
  /\ owed' = NoChange /\ asked' = NoChange
  /\ phase' = "resave" /\ todo' = Pages
  /\ UNCHANGED <<disk, diskCrc, magic, ptask, lock, pc, callers, ver, spoilt, crashes>>

Resave ==
  /\ phase = "resave" /\ todo # {}
  /\ WriteNextPage
  /\ phase' = IF todo' = {} THEN "up" ELSE "resave"
  /\ UNCHANGED <<ptask, lock, pc, callers, crashes>>

-----------------------------------------------------------------------------
Bio ==
  \/ \E z \in Zones : MapWrite(z) \/ MapRefuse(z)
  \/ \E p \in Pages : QuietChange(p)
  \/ MapDone

Ioctl ==
  \/ \E P \in {{p} : p \in Pages} \cup {Pages} : IoctlChange(P)
  \/ IoctlClear
  \/ \E p \in Pages : IoctlResetStats(p) \/ IoctlQuiet(p)
  \/ IoctlLoad
  \/ IoctlStore

Task ==
  \/ TaskWake \/ TaskLock \/ TaskSkipEmpty
  \/ TaskSave \/ TaskSavePage \/ TaskSaved
  \/ TaskFlush \/ TaskFlushPage \/ TaskFlushStats \/ TaskFlushStatus \/ TaskFlushed

Restart == Crash \/ LoadState \/ LoadDefault \/ Resave

Next == Bio \/ Ioctl \/ Task \/ Restart

Spec == Init /\ [][Next]_vars

\* The thread is scheduled; the kernel mutex hands the zone lock over in the
\* order of arrival, so a waiter gets it; an ioctl and a bio that began go on.
Fairness ==
  /\ WF_vars(Task) /\ SF_vars(TaskLock)
  /\ WF_vars(IoctlLoad \/ IoctlStore)
  /\ WF_vars(MapDone)
  /\ WF_vars(LoadState \/ LoadDefault \/ Resave)

FairSpec == Spec /\ Fairness

-----------------------------------------------------------------------------
(* Types.                                                                  *)

\* Every variable keeps its type, the queue its length and the thread the
\* zone lock from its test to its return to sleep.
TypeOK ==
  /\ mem \in [Pages -> Page] /\ crc \in [Pages -> Page]
  /\ disk \in [Pages -> Page] /\ diskCrc \in [Pages -> Page]
  /\ magic \in BOOLEAN
  /\ flag \subseteq Marks /\ iold \subseteq Marks /\ bold \subseteq Marks
  /\ queue \subseteq Zones /\ Cardinality(queue) <= QueueDepth
  /\ gap \in {0, Gap} /\ sts \in Zones \cup {0}
  /\ lock \in {"free", "bio", "task"}
  /\ pc \in {"sleep", "lock", "test", "save", "gapsave", "flush", "stats", "status"}
  /\ todo \subseteq Pages
  /\ ioc \in {"idle", "load", "store"}
  /\ bio \in {"idle", "STATUS", "STATS"}
  /\ phase \in {"up", "boot", "resave"}
  /\ ver \in 0..MaxVer
  /\ owed \in [Pages -> 0..MaxVer] /\ asked \in [Pages -> 0..MaxVer]
  /\ spoilt \in BOOLEAN
  /\ crashes \in 0..MaxCrashes
  /\ (lock = "bio") <=> (bio # "idle")
  /\ (lock = "task") <=> (pc \notin {"sleep", "lock"})

-----------------------------------------------------------------------------
(* What persistence promises.                                              *)

Quiescent ==
  phase = "up" /\ pc = "sleep" /\ flag = {} /\ ioc = "idle" /\ bio = "idle"

\* Once the flag is clear and nobody is at work, every change that a bio or
\* an ioctl made under the zone lock and marked is on the device: no order of
\* the unsynchronised loads and stores of smrsim_ptask.flag, and no moment at
\* which the thread clears it, loses the last mark of a page.
Durable == Quiescent => \A p \in Pages : disk[p].ver >= owed[p]

\* The state of a small device, one page: no save, no flush, no failed write
\* and no crash at any moment makes what is on the device unloadable; only a
\* change outside the zone lock while the thread is at work does.
StaysLoadable == [][Valid /\ ~spoilt' => Valid']_vars

\* When smrsim_save_persistence has written its last page, none of its writes
\* failed and nobody changed the state meanwhile, the device holds the whole
\* state with a CRC that fits, whatever earlier flushes, failed writes and
\* interrupted saves left there.
FullSaveComplete ==
  (phase = "up" /\ pc \in {"save", "gapsave"} /\ todo = {} /\ ~spoilt)
    => (disk = mem /\ Valid)

\* Two copies of the state, page by page, with a header that belongs to one
\* of them, implement a store of snapshots: whatever order saves, flushes,
\* failed writes, crashes and restarts come in, a restart never mixes pages
\* of different moments and never takes an older header's state for a newer.
Store == INSTANCE ZoneStore WITH
  cur <- IF phase = "boot" THEN {} ELSE {mem},
  head <- {diskCrc},
  kept <- IF Valid THEN {disk} ELSE {}

ImplementsStore == Store!Spec

\* Every change made under the zone lock and marked reaches the device,
\* unless a restart or a clear makes it void first.
EventuallyDurable ==
  \A p \in Pages, v \in 1..MaxVer :
    owed[p] = v ~> (disk[p].ver >= v \/ owed[p] = 0)

\* "flush persist success" (dm-smrsim.c:416): a flush leaves a state on the
\* device that loads.
FlushLoads ==
  (Running("status") /\ todo = {}) => Valid

\* A changed configuration "will be persisted" (INSTALL:78), and a reset to
\* the default configuration flushes the new metadata (INSTALL:80).
ConfigPersisted ==
  \A p \in Pages, v \in 1..MaxVer :
    asked[p] = v ~> (disk[p].ver >= v \/ asked[p] = 0)

=============================================================================
