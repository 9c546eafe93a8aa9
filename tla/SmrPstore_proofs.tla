-------------------------- MODULE SmrPstore_proofs --------------------------
(***************************************************************************)
(* What TLAPS proves of SmrPstore, for any number of pages, zones, changes *)
(* and crashes:                                                            *)
(*   - PstoreTypeCorrect: the variables keep their types, the queue its    *)
(*     bound and the thread the zone lock;                                 *)
(*   - FullSavesAreComplete: what a whole save leaves on the device;       *)
(*   - ImplementsSnapshots: where every change takes the zone lock, the    *)
(*     device implements ZoneStore;                                        *)
(*   - OnePageStaysLoadable, HeadIsDurable, OnePageIsDurable: what the     *)
(*     races on smrsim_ptask.flag, page writes and crashes leave of a      *)
(*     state of one page, and of page 0 of any state.                      *)
(***************************************************************************)
EXTENDS SmrPstore, FiniteSetTheorems, WellFoundedInduction, TLAPS

-----------------------------------------------------------------------------
(* The operators.                                                          *)

\* A nonempty set of naturals has its minimum in it.
LEMMA MinIn ==
  ASSUME NEW S \in SUBSET Nat, S # {}
  PROVE  Min(S) \in S
<1> DEFINE R == {ss \in Nat \X Nat : ss[1] < ss[2]}
<1>1. PICK x \in S : \A y \in S : ~ (<<y, x>> \in R)
  <2>1. IsWellFoundedOn(R, Nat)
    BY NatLessThanWellFounded DEF OpToRel
  <2> HIDE DEF R
  <2> QED BY <2>1, WFMin
<1>2. ASSUME NEW y \in S PROVE x =< y
  <2>1. <<y, x>> \in Nat \X Nat /\ <<y, x>>[1] = y /\ <<y, x>>[2] = x
    OBVIOUS
  <2>2. ~ (y < x)
    BY <1>1, <2>1
  <2> QED BY <2>2
<1> QED BY <1>2 DEF Min

\* Page 0 is a page.
LEMMA HeadIsPage == 0 \in Pages /\ Pages \subseteq Nat
BY LayoutAssumption DEF Pages

\* The page the thread writes next is one of those it has to write.
LEMMA NextPage ==
  ASSUME todo \subseteq Pages, todo # {}
  PROVE  Min(todo) \in todo /\ Min(todo) \in Pages
BY MinIn, HeadIsPage

\* A change gives every page of P the next number, and leaves the others.
LEMMA ChangedPages ==
  ASSUME NEW P, NEW e \in BOOLEAN,
         mem \in [Pages -> Page], ver \in 0..MaxVer, Apply(P, e)
  PROVE  /\ mem' \in [Pages -> Page]
         /\ ver' = ver + 1 /\ ver' \in 0..MaxVer
         /\ mem'[0].ver \in {mem[0].ver, ver + 1}
         /\ 0 \in P => mem'[0].ver = ver + 1
         /\ mem'[0].empty = e
<1>1. ver + 1 \in 0..MaxVer /\ ver' = ver + 1
  BY BoundsAssumption DEF Apply
<1>2. mem' = [p \in Pages |->
               [ver |-> IF p \in P THEN ver + 1 ELSE mem[p].ver,
                empty |-> p = 0 /\ e]]
  BY DEF Apply
<1>3. \A p \in Pages : mem[p].ver \in 0..MaxVer
  BY DEF Page
<1>4. ASSUME NEW p \in Pages
      PROVE  [ver |-> IF p \in P THEN ver + 1 ELSE mem[p].ver,
              empty |-> p = 0 /\ e] \in Page
  <2> DEFINE v == IF p \in P THEN ver + 1 ELSE mem[p].ver
             m == (p = 0 /\ e)
  <2>1. v \in 0..MaxVer /\ m \in BOOLEAN
    BY <1>1, <1>3
  <2> HIDE DEF v, m
  <2>2. [ver |-> v, empty |-> m] \in Page
    BY <2>1 DEF Page
  <2> QED BY <2>2 DEF v, m
<1>5. mem' \in [Pages -> Page]
  BY <1>2, <1>4
<1>6. mem'[0] = [ver |-> IF 0 \in P THEN ver + 1 ELSE mem[0].ver, empty |-> e]
  BY <1>2, HeadIsPage
<1> QED BY <1>1, <1>5, <1>6

\* The pages named for a zone are pages.
LEMMA NamedPages ==
  /\ \A z \in Zones : StatsPage[z] \in Pages /\ StatusPage[z] \in Pages
  /\ \A z : PagesOf(z) \subseteq Pages
BY LayoutAssumption DEF PagesOf

\* The stamps of a change stay below the number of changes.
LEMMA StampType ==
  ASSUME NEW P, NEW f \in [Pages -> 0..MaxVer], ver \in 0..MaxVer, ver < MaxVer
  PROVE  /\ Stamp(f, P) \in [Pages -> 0..MaxVer]
         /\ Stamp(f, P)[0] \in {f[0], ver + 1}
         /\ 0 \notin P => Stamp(f, P)[0] = f[0]
<1>1. ver + 1 \in 0..MaxVer
  BY BoundsAssumption
<1> QED BY <1>1, HeadIsPage DEF Stamp

\* The queue takes a zone only if there is room.
LEMMA EnqueueType ==
  ASSUME NEW z \in Zones, queue \subseteq Zones, IsFiniteSet(queue),
         Cardinality(queue) <= QueueDepth, gap \in {0, Gap}, Enqueue(z)
  PROVE  /\ queue' \subseteq Zones /\ IsFiniteSet(queue')
         /\ Cardinality(queue') <= QueueDepth
         /\ gap' \in {0, Gap}
<1>1. CASE queue' = queue
  BY <1>1 DEF Enqueue
<1>2. CASE queue' # queue
  <2>1. queue' = queue \cup {z} /\ Cardinality(queue) # QueueDepth /\ gap' = gap
    BY <1>2 DEF Enqueue
  <2>2. Cardinality(queue) \in Nat
    BY FS_CardinalityType
  <2>3. IsFiniteSet(queue \cup {z})
        /\ (Cardinality(queue \cup {z}) = Cardinality(queue)
            \/ Cardinality(queue \cup {z}) = Cardinality(queue) + 1)
    BY FS_AddElement
  <2>4. Cardinality(queue) + 1 <= QueueDepth
    BY <2>1, <2>2, BoundsAssumption
  <2> HIDE DEF Enqueue
  <2> QED BY <2>1, <2>2, <2>3, <2>4
<1> QED BY <1>1, <1>2

-----------------------------------------------------------------------------
(* Types.                                                                  *)

\* TypeOK in the parts the actions touch one by one.
StoreTyped ==
  /\ mem \in [Pages -> Page] /\ crc \in [Pages -> Page]
  /\ disk \in [Pages -> Page] /\ diskCrc \in [Pages -> Page]
  /\ magic \in BOOLEAN

MarksTyped ==
  /\ flag \subseteq Marks /\ iold \subseteq Marks /\ bold \subseteq Marks
  /\ gap \in {0, Gap} /\ sts \in Zones \cup {0}

QueueTyped ==
  queue \subseteq Zones /\ IsFiniteSet(queue) /\ Cardinality(queue) <= QueueDepth

PlacesTyped ==
  /\ lock \in {"free", "bio", "task"}
  /\ pc \in {"sleep", "lock", "test", "save", "gapsave", "flush", "stats", "status"}
  /\ todo \subseteq Pages
  /\ ioc \in {"idle", "load", "store"}
  /\ bio \in {"idle", "STATUS", "STATS"}
  /\ phase \in {"up", "boot", "resave"}
  /\ (lock = "bio") <=> (bio # "idle")
  /\ (lock = "task") <=> (pc \notin {"sleep", "lock"})

HistoryTyped ==
  /\ ver \in 0..MaxVer
  /\ owed \in [Pages -> 0..MaxVer] /\ asked \in [Pages -> 0..MaxVer]
  /\ spoilt \in BOOLEAN
  /\ crashes \in 0..MaxCrashes

Typed == StoreTyped /\ MarksTyped /\ QueueTyped /\ PlacesTyped /\ HistoryTyped

LEMMA TypedIsTypeOK == Typed => TypeOK
BY DEF Typed, StoreTyped, MarksTyped, QueueTyped, PlacesTyped, HistoryTyped, TypeOK

LEMMA DefaultsTyped ==
  /\ Default \in [Pages -> Page] /\ Blank \in [Pages -> Page]
  /\ NoChange \in [Pages -> 0..MaxVer]
<1>1. 0 \in 0..MaxVer
  BY BoundsAssumption
<1>2. [ver |-> 0, empty |-> FALSE] \in Page /\ [ver |-> 0, empty |-> TRUE] \in Page
  BY <1>1 DEF Page
<1> QED BY <1>1, <1>2 DEF Default, Blank, NoChange

\* A write puts one page of the state on the device, with the header if it is
\* page 0; a failed one changes nothing but spoilt.
LEMMA PageWritten ==
  ASSUME StoreTyped, todo \subseteq Pages, todo # {}, spoilt \in BOOLEAN,
         WriteNextPage
  PROVE  /\ StoreTyped' /\ todo' \subseteq Pages /\ spoilt' \in BOOLEAN
         /\ Min(todo) \in todo
         /\ todo' = todo \ {Min(todo)}
         /\ \/ /\ disk' = [disk EXCEPT ![Min(todo)] = mem[Min(todo)]]
               /\ diskCrc' = IF Min(todo) = 0 THEN crc ELSE diskCrc
               /\ magic' = (magic \/ Min(todo) = 0)
               /\ spoilt' = spoilt
            \/ /\ WritesMayFail /\ spoilt' = TRUE
               /\ disk' = disk /\ diskCrc' = diskCrc /\ magic' = magic
         /\ mem' = mem /\ crc' = crc /\ ver' = ver /\ owed' = owed /\ asked' = asked
<1> DEFINE p == Min(todo)
<1>1. p \in todo /\ p \in Pages
  BY NextPage
<1>2. /\ todo' = todo \ {p}
      /\ mem' = mem /\ crc' = crc /\ ver' = ver /\ owed' = owed /\ asked' = asked
      /\ \/ /\ disk' = [disk EXCEPT ![p] = mem[p]]
            /\ diskCrc' = IF p = 0 THEN crc ELSE diskCrc
            /\ magic' = (magic \/ p = 0)
            /\ spoilt' = spoilt
         \/ /\ WritesMayFail /\ spoilt' = TRUE
            /\ disk' = disk /\ diskCrc' = diskCrc /\ magic' = magic
  BY DEF WriteNextPage
<1> HIDE DEF p
<1>3. StoreTyped'
  <2>1. magic' \in BOOLEAN /\ diskCrc' \in [Pages -> Page]
    BY <1>2 DEF StoreTyped
  <2>2. disk' \in [Pages -> Page]
    BY <1>1, <1>2 DEF StoreTyped
  <2> QED BY <1>2, <2>1, <2>2 DEF StoreTyped
<1>4. todo' \subseteq Pages /\ spoilt' \in BOOLEAN
  BY <1>2
<1> QED BY <1>1, <1>2, <1>3, <1>4 DEF p

LEMMA InitTyped == Init => Typed
<1> SUFFICES ASSUME Init PROVE Typed
  OBVIOUS
<1>1. StoreTyped
  BY DefaultsTyped DEF Init, StoreTyped
<1>2. QueueTyped
  BY FS_EmptySet, BoundsAssumption DEF Init, QueueTyped
<1>3. MarksTyped /\ PlacesTyped
  BY DEF Init, MarksTyped, PlacesTyped
<1>4. HistoryTyped
  <2>1. 0 \in 0..MaxVer /\ 0 \in 0..MaxCrashes
    BY BoundsAssumption
  <2>2. ver = 0 /\ owed = NoChange /\ asked = NoChange /\ spoilt = FALSE /\ crashes = 0
    BY DEF Init
  <2> QED BY <2>1, <2>2, DefaultsTyped DEF HistoryTyped
<1> QED BY <1>1, <1>2, <1>3, <1>4 DEF Typed

\* What a change leaves of the types.
LEMMA ChangeTyped ==
  ASSUME Typed, NEW P, NEW e \in BOOLEAN, Apply(P, e),
         crc' = crc, disk' = disk, diskCrc' = diskCrc, magic' = magic,
         crashes' = crashes, spoilt' \in BOOLEAN,
         owed' \in {owed, NoChange, Stamp(owed, P)},
         asked' \in {asked, NoChange, Stamp(asked, P)}
  PROVE  StoreTyped' /\ HistoryTyped'
<1>0. /\ mem \in [Pages -> Page] /\ ver \in 0..MaxVer /\ ver < MaxVer
      /\ owed \in [Pages -> 0..MaxVer] /\ asked \in [Pages -> 0..MaxVer]
  BY DEF Typed, StoreTyped, HistoryTyped, Apply
<1>1. mem' \in [Pages -> Page] /\ ver' \in 0..MaxVer
  BY <1>0, ChangedPages
<1>2. StoreTyped'
  BY <1>1 DEF Typed, StoreTyped
<1>3. Stamp(owed, P) \in [Pages -> 0..MaxVer] /\ Stamp(asked, P) \in [Pages -> 0..MaxVer]
  BY <1>0, StampType
<1>4. HistoryTyped'
  BY <1>0, <1>1, <1>3, DefaultsTyped DEF Typed, HistoryTyped
<1> QED BY <1>2, <1>4

\* Bios.
LEMMA BioTyped == Typed /\ Bio => Typed'
<1> SUFFICES ASSUME Typed, Bio PROVE Typed'
  OBVIOUS
<1> USE DEF thread, callers, history, store, ptask
<1>0. FALSE \in BOOLEAN /\ Empty \in BOOLEAN
  BY HeadIsPage DEF Typed, StoreTyped, Empty, Page
<1>1. ASSUME NEW z \in Zones, MapWrite(z) PROVE Typed'
  <2>1. StoreTyped' /\ HistoryTyped'
    BY <1>1, ChangeTyped DEF MapWrite, Change, Marked, Typed, HistoryTyped
  <2>2. QueueTyped' /\ gap' \in {0, Gap}
    BY <1>1, EnqueueType DEF MapWrite, Typed, QueueTyped, MarksTyped
  <2>3. MarksTyped' /\ PlacesTyped'
    BY <1>1, <2>2 DEF MapWrite, Typed, MarksTyped, PlacesTyped
  <2> QED BY <2>1, <2>2, <2>3 DEF Typed
<1>2. ASSUME NEW z \in Zones, MapRefuse(z) PROVE Typed'
  <2>1. StoreTyped' /\ HistoryTyped'
    <3>1. CASE UNCHANGED <<mem, history>>
      BY <1>2, <3>1 DEF MapRefuse, Typed, StoreTyped, HistoryTyped
    <3>2. CASE Change({StatsPage[z]}, FALSE) /\ Marked({StatsPage[z]})
      BY <1>2, <3>2, ChangeTyped DEF MapRefuse, Change, Marked, Typed, HistoryTyped
    <3> QED BY <1>2, <3>1, <3>2 DEF MapRefuse
  <2>2. MarksTyped' /\ PlacesTyped' /\ QueueTyped'
    BY <1>2 DEF MapRefuse, Typed, MarksTyped, PlacesTyped, QueueTyped
  <2> QED BY <2>1, <2>2 DEF Typed
<1>3. ASSUME NEW p \in Pages, QuietChange(p) PROVE Typed'
  <2>1. StoreTyped' /\ HistoryTyped'
    BY <1>0, <1>3, ChangeTyped DEF QuietChange, Change, Typed, HistoryTyped
  <2>2. MarksTyped' /\ PlacesTyped' /\ QueueTyped'
    BY <1>3 DEF QuietChange, Typed, MarksTyped, PlacesTyped, QueueTyped
  <2> QED BY <2>1, <2>2 DEF Typed
<1>4. CASE MapDone
  <2>1. StoreTyped' /\ HistoryTyped' /\ QueueTyped'
    BY <1>4 DEF MapDone, Typed, StoreTyped, HistoryTyped, QueueTyped
  <2>2. PlacesTyped'
    BY <1>4 DEF MapDone, Typed, PlacesTyped
  <2>3. MarksTyped'
    BY <1>4 DEF MapDone, Typed, MarksTyped, PlacesTyped, Marks
  <2> QED BY <2>1, <2>2, <2>3 DEF Typed
<1> QED BY <1>1, <1>2, <1>3, <1>4 DEF Bio

\* Ioctls.
LEMMA IoctlTyped == Typed /\ Ioctl => Typed'
<1> SUFFICES ASSUME Typed, Ioctl PROVE Typed'
  OBVIOUS
<1> USE DEF thread, callers, history, store, ptask
<1>0. FALSE \in BOOLEAN /\ TRUE \in BOOLEAN /\ Empty \in BOOLEAN
  BY HeadIsPage DEF Typed, StoreTyped, Empty, Page
<1>1. ASSUME NEW P, IoctlChange(P) PROVE Typed'
  <2>1. StoreTyped' /\ HistoryTyped'
    BY <1>0, <1>1, ChangeTyped DEF IoctlChange, Change, MarkedByIoctl, Typed, HistoryTyped
  <2>2. MarksTyped' /\ PlacesTyped' /\ QueueTyped'
    BY <1>1 DEF IoctlChange, Typed, MarksTyped, PlacesTyped, QueueTyped
  <2> QED BY <2>1, <2>2 DEF Typed
<1>2. CASE IoctlClear
  <2>1. StoreTyped' /\ HistoryTyped'
    BY <1>0, <1>2, ChangeTyped DEF IoctlClear, Change, Typed, HistoryTyped
  <2>2. MarksTyped' /\ PlacesTyped' /\ QueueTyped'
    BY <1>2 DEF IoctlClear, Typed, MarksTyped, PlacesTyped, QueueTyped
  <2> QED BY <2>1, <2>2 DEF Typed
<1>3. ASSUME NEW p \in Pages, IoctlResetStats(p) PROVE Typed'
  <2>1. StoreTyped' /\ HistoryTyped'
    BY <1>0, <1>3, ChangeTyped
       DEF IoctlResetStats, ChangeUnlocked, MarkedUnlocked, Typed, HistoryTyped
  <2>2. MarksTyped' /\ PlacesTyped' /\ QueueTyped'
    BY <1>3 DEF IoctlResetStats, Typed, MarksTyped, PlacesTyped, QueueTyped
  <2> QED BY <2>1, <2>2 DEF Typed
<1>4. ASSUME NEW p \in Pages, IoctlQuiet(p) PROVE Typed'
  <2>1. StoreTyped' /\ HistoryTyped'
    BY <1>0, <1>4, ChangeTyped DEF IoctlQuiet, ChangeUnlocked, Typed, HistoryTyped
  <2>2. MarksTyped' /\ PlacesTyped' /\ QueueTyped'
    BY <1>4 DEF IoctlQuiet, Typed, MarksTyped, PlacesTyped, QueueTyped
  <2> QED BY <2>1, <2>2 DEF Typed
<1>5. CASE IoctlLoad \/ IoctlStore
  <2>1. StoreTyped' /\ HistoryTyped' /\ QueueTyped'
    BY <1>5 DEF IoctlLoad, IoctlStore, Typed, StoreTyped, HistoryTyped, QueueTyped
  <2>2. PlacesTyped'
    BY <1>5 DEF IoctlLoad, IoctlStore, Typed, PlacesTyped
  <2>3. MarksTyped'
    BY <1>5 DEF IoctlLoad, IoctlStore, Typed, MarksTyped, Marks
  <2> QED BY <2>1, <2>2, <2>3 DEF Typed
<1> QED BY <1>1, <1>2, <1>3, <1>4, <1>5 DEF Ioctl

\* The thread.
LEMMA TaskTyped == Typed /\ Task => Typed'
<1> SUFFICES ASSUME Typed, Task PROVE Typed'
  OBVIOUS
<1> USE DEF thread, callers, history, store, ptask, Running
<1>1. CASE TaskWake \/ TaskLock \/ TaskSkipEmpty \/ TaskFlushed
  <2>1. StoreTyped' /\ HistoryTyped' /\ QueueTyped' /\ MarksTyped'
    BY <1>1 DEF TaskWake, TaskLock, TaskSkipEmpty, TaskFlushed, Typed, StoreTyped,
                HistoryTyped, QueueTyped, MarksTyped
  <2>2. PlacesTyped'
    BY <1>1 DEF TaskWake, TaskLock, TaskSkipEmpty, TaskFlushed, Typed, PlacesTyped
  <2> QED BY <2>1, <2>2 DEF Typed
<1>2. CASE TaskSave \/ TaskFlush
  <2>1. StoreTyped' /\ HistoryTyped' /\ QueueTyped' /\ MarksTyped'
    BY <1>2 DEF TaskSave, TaskFlush, Typed, StoreTyped, HistoryTyped, QueueTyped,
                MarksTyped
  <2>2. PlacesTyped'
    BY <1>2, HeadIsPage DEF TaskSave, TaskFlush, Typed, PlacesTyped
  <2> QED BY <2>1, <2>2 DEF Typed
<1>3. CASE TaskSavePage \/ TaskFlushPage
  <2>1. StoreTyped' /\ todo' \subseteq Pages /\ spoilt' \in BOOLEAN
        /\ ver' = ver /\ owed' = owed /\ asked' = asked
    BY <1>3, PageWritten
       DEF TaskSavePage, TaskFlushPage, Typed, PlacesTyped, HistoryTyped
  <2>2. HistoryTyped' /\ QueueTyped' /\ MarksTyped' /\ PlacesTyped'
    BY <1>3, <2>1 DEF TaskSavePage, TaskFlushPage, Typed, HistoryTyped, QueueTyped,
                      MarksTyped, PlacesTyped
  <2> QED BY <2>1, <2>2 DEF Typed
<1>4. CASE TaskSaved \/ TaskFlushStats \/ TaskFlushStatus
  <2>1. StoreTyped' /\ HistoryTyped'
    BY <1>4 DEF TaskSaved, TaskFlushStats, TaskFlushStatus, Typed, StoreTyped,
                HistoryTyped
  <2>2. QueueTyped'
    <3>1. Cardinality({}) = 0 /\ IsFiniteSet({}) /\ 0 <= QueueDepth
      BY FS_EmptySet, BoundsAssumption
    <3> QED BY <1>4, <3>1 DEF TaskSaved, TaskFlushStats, TaskFlushStatus, Typed, QueueTyped
  <2>3. MarksTyped'
    BY <1>4 DEF TaskSaved, TaskFlushStats, TaskFlushStatus, Typed, MarksTyped
  <2>4. PlacesTyped'
    <3>1. todo' \subseteq Pages
      BY <1>4, NamedPages
         DEF TaskSaved, TaskFlushStats, TaskFlushStatus, Typed, PlacesTyped
    <3> QED BY <1>4, <3>1 DEF TaskSaved, TaskFlushStats, TaskFlushStatus, Typed, PlacesTyped
  <2> QED BY <2>1, <2>2, <2>3, <2>4 DEF Typed
<1> QED BY <1>1, <1>2, <1>3, <1>4 DEF Task

\* Crashes and restarts.
LEMMA RestartTyped == Typed /\ Restart => Typed'
<1> SUFFICES ASSUME Typed, Restart PROVE Typed'
  OBVIOUS
<1> USE DEF thread, callers, history, store, ptask
<1>1. CASE Crash
  <2>1. StoreTyped' /\ MarksTyped' /\ PlacesTyped'
    BY <1>1 DEF Crash, Typed, StoreTyped, MarksTyped, PlacesTyped
  <2>2. QueueTyped'
    BY <1>1, FS_EmptySet, BoundsAssumption DEF Crash, QueueTyped
  <2>3. crashes' \in 0..MaxCrashes
    BY <1>1, BoundsAssumption DEF Crash, Typed, HistoryTyped
  <2>4. HistoryTyped'
    BY <1>1, <2>3 DEF Crash, Typed, HistoryTyped
  <2> QED BY <2>1, <2>2, <2>4 DEF Typed
<1>2. CASE LoadState \/ LoadDefault
  <2>1. StoreTyped'
    BY <1>2, DefaultsTyped DEF LoadState, LoadDefault, Typed, StoreTyped
  <2>2. HistoryTyped'
    BY <1>2, DefaultsTyped DEF LoadState, LoadDefault, Typed, HistoryTyped
  <2>3. MarksTyped' /\ QueueTyped' /\ PlacesTyped'
    BY <1>2 DEF LoadState, LoadDefault, Typed, MarksTyped, QueueTyped, PlacesTyped
  <2> QED BY <2>1, <2>2, <2>3 DEF Typed
<1>3. CASE Resave
  <2>1. StoreTyped' /\ todo' \subseteq Pages /\ spoilt' \in BOOLEAN
        /\ ver' = ver /\ owed' = owed /\ asked' = asked
    BY <1>3, PageWritten DEF Resave, Typed, PlacesTyped, HistoryTyped
  <2>2. HistoryTyped' /\ QueueTyped' /\ MarksTyped' /\ PlacesTyped'
    BY <1>3, <2>1 DEF Resave, Typed, HistoryTyped, QueueTyped, MarksTyped, PlacesTyped
  <2> QED BY <2>1, <2>2 DEF Typed
<1> QED BY <1>1, <1>2, <1>3 DEF Restart

LEMMA StepTyped == Typed /\ [Next]_vars => Typed'
<1>1. Typed /\ UNCHANGED vars => Typed'
  BY DEF vars, Typed, StoreTyped, MarksTyped, QueueTyped, PlacesTyped, HistoryTyped
<1> QED BY <1>1, BioTyped, IoctlTyped, TaskTyped, RestartTyped DEF Next

LEMMA AlwaysTyped == Spec => []Typed
BY InitTyped, StepTyped, PTL DEF Spec

\* Every variable keeps its type; among them, the queue of smrsim_ptask never
\* outgrows SMR_PSTORE_QDEPTH (dm-smrsim.c:1641), and the zone lock is the
\* thread's exactly from its test to its return to sleep.
THEOREM PstoreTypeCorrect == Spec => []TypeOK
BY AlwaysTyped, TypedIsTypeOK, PTL

-----------------------------------------------------------------------------
(* The CRC and the pages of a save.                                        *)

Writing == pc \in {"save", "gapsave", "flush", "stats", "status"}

\* While the thread writes, under the zone lock, its CRC is the memory's: a
\* change gets in only where an ioctl takes no zone lock, and then spoilt tells
\* of it.  So it is while the constructor writes.
CrcFits ==
  /\ phase # "up" => pc = "sleep"
  /\ phase = "resave" => crc = mem
  /\ (phase = "up" /\ Writing /\ (~spoilt \/ ~UnlockedChanges)) => crc = mem

\* A save that nothing spoilt has put the pages it no longer has to write on
\* the device, and the header with page 0.
SavedSoFar ==
  (phase = "up" /\ pc \in {"save", "gapsave"} /\ ~spoilt)
    => /\ \A p \in Pages \ todo : disk[p] = mem[p]
       /\ 0 \notin todo => diskCrc = crc /\ magic

\* Page 0 is either on the device, or somebody is still to do it: a mark is
\* set or about to be set while the thread is before its test, or the thread
\* has page 0 to write.
HeadOnItsWay ==
  /\ owed[0] <= ver /\ mem[0].ver >= owed[0]
  /\ Empty => owed[0] = 0
  /\ phase = "resave" => owed[0] = 0
  /\ phase = "up" =>
       \/ disk[0].ver >= owed[0]
       \/ pc \in {"sleep", "lock", "test"} /\ (flag # {} \/ ioc # "idle" \/ bio # "idle")
       \/ pc \in {"save", "gapsave", "flush"} /\ 0 \in todo

LEMMA InitCrc == Init => CrcFits /\ SavedSoFar
BY DEF Init, CrcFits, SavedSoFar

\* A bio and an ioctl that change the state under the zone lock find the thread
\* asleep or waiting for the lock; of the others, spoilt tells.
LEMMA CallersCrc ==
  Typed /\ CrcFits /\ SavedSoFar /\ (Bio \/ Ioctl) => CrcFits' /\ SavedSoFar'
<1> SUFFICES ASSUME Typed, CrcFits, SavedSoFar, Bio \/ Ioctl
             PROVE  CrcFits' /\ SavedSoFar'
  OBVIOUS
<1> USE DEF thread, callers, history, store, ptask
<1>0. /\ lock = "free" => ~Writing
      /\ Writing => lock = "task"
  BY DEF Typed, PlacesTyped, Writing
<1>1. ASSUME phase = "up", lock = "free", phase' = phase, pc' = pc
      PROVE  CrcFits' /\ SavedSoFar'
  BY <1>0, <1>1 DEF CrcFits, SavedSoFar, Writing
<1>2. ASSUME NEW z \in Zones, MapWrite(z) \/ MapRefuse(z) PROVE CrcFits' /\ SavedSoFar'
  BY <1>1, <1>2 DEF MapWrite, MapRefuse
<1>3. ASSUME NEW p \in Pages, QuietChange(p) PROVE CrcFits' /\ SavedSoFar'
  BY <1>1, <1>3 DEF QuietChange
<1>4. ASSUME NEW P, IoctlChange(P) \/ IoctlClear PROVE CrcFits' /\ SavedSoFar'
  BY <1>1, <1>4 DEF IoctlChange, IoctlClear
<1>5. ASSUME NEW p \in Pages, IoctlResetStats(p) \/ IoctlQuiet(p)
      PROVE  CrcFits' /\ SavedSoFar'
  <2>1. /\ UnlockedChanges /\ phase = "up" /\ phase' = phase /\ pc' = pc
        /\ spoilt' = (spoilt \/ lock = "task")
    BY <1>5 DEF IoctlResetStats, IoctlQuiet, ChangeUnlocked
  <2>2. Writing => spoilt'
    BY <1>0, <2>1
  <2> QED BY <2>1, <2>2 DEF CrcFits, SavedSoFar, Writing
<1>6. CASE MapDone \/ IoctlLoad \/ IoctlStore
  BY <1>6 DEF MapDone, IoctlLoad, IoctlStore, CrcFits, SavedSoFar, Writing
<1> QED BY <1>2, <1>3, <1>4, <1>5, <1>6 DEF Bio, Ioctl

\* The thread computes the CRC when it begins to write.
LEMMA TaskCrc == Typed /\ CrcFits /\ SavedSoFar /\ Task => CrcFits' /\ SavedSoFar'
<1> SUFFICES ASSUME Typed, CrcFits, SavedSoFar, Task PROVE CrcFits' /\ SavedSoFar'
  OBVIOUS
<1> USE DEF thread, callers, history, store, ptask, Running
<1>1. CASE TaskWake \/ TaskLock \/ TaskSkipEmpty \/ TaskFlushed \/ TaskSaved
  BY <1>1 DEF TaskWake, TaskLock, TaskSkipEmpty, TaskFlushed, TaskSaved,
              CrcFits, SavedSoFar, Writing
<1>2. CASE TaskSave
  BY <1>2, HeadIsPage DEF TaskSave, CrcFits, SavedSoFar
<1>3. CASE TaskFlush \/ TaskFlushStats \/ TaskFlushStatus
  BY <1>3 DEF TaskFlush, TaskFlushStats, TaskFlushStatus, CrcFits, SavedSoFar, Writing
<1>4. CASE TaskSavePage \/ TaskFlushPage
  <2> DEFINE p == Min(todo)
  <2>1. /\ todo' = todo \ {p} /\ p \in todo /\ todo \subseteq Pages
        /\ mem' = mem /\ crc' = crc
        /\ \/ /\ disk' = [disk EXCEPT ![p] = mem[p]]
              /\ diskCrc' = IF p = 0 THEN crc ELSE diskCrc
              /\ magic' = (magic \/ p = 0)
              /\ spoilt' = spoilt
           \/ spoilt' = TRUE
    BY <1>4, PageWritten
       DEF TaskSavePage, TaskFlushPage, Typed, PlacesTyped, HistoryTyped
  <2>2. phase' = phase /\ pc' = pc /\ phase = "up" /\ Writing
    BY <1>4 DEF TaskSavePage, TaskFlushPage, Writing
  <2>3. disk \in [Pages -> Page]
    BY DEF Typed, StoreTyped
  <2> HIDE DEF p
  <2>4. CrcFits'
    BY <2>1, <2>2 DEF CrcFits, Writing
  <2>5. SavedSoFar'
    <3> SUFFICES ASSUME pc \in {"save", "gapsave"}, ~spoilt'
                 PROVE  /\ \A q \in Pages \ todo' : disk'[q] = mem'[q]
                        /\ 0 \notin todo' => diskCrc' = crc' /\ magic'
      BY <2>2 DEF SavedSoFar
    <3>1. /\ disk' = [disk EXCEPT ![p] = mem[p]]
          /\ diskCrc' = IF p = 0 THEN crc ELSE diskCrc
          /\ magic' = (magic \/ p = 0)
          /\ ~spoilt
      BY <2>1
    <3>2. /\ \A q \in Pages \ todo : disk[q] = mem[q]
          /\ 0 \notin todo => diskCrc = crc /\ magic
      BY <2>2, <3>1 DEF SavedSoFar
    <3>3. \A q \in Pages \ todo' : disk'[q] = mem'[q]
      BY <2>1, <2>3, <3>1, <3>2
    <3>4. 0 \notin todo' => diskCrc' = crc' /\ magic'
      BY <2>1, <3>1, <3>2
    <3> QED BY <3>3, <3>4
  <2> QED BY <2>4, <2>5
<1> QED BY <1>1, <1>2, <1>3, <1>4 DEF Task

LEMMA RestartCrc == Typed /\ CrcFits /\ SavedSoFar /\ Restart => CrcFits' /\ SavedSoFar'
<1> SUFFICES ASSUME Typed, CrcFits, SavedSoFar, Restart PROVE CrcFits' /\ SavedSoFar'
  OBVIOUS
<1> USE DEF thread, callers, history, store, ptask
<1>1. CASE Crash \/ LoadState \/ LoadDefault
  BY <1>1 DEF Crash, LoadState, LoadDefault, CrcFits, SavedSoFar, Writing
<1>2. CASE Resave
  BY <1>2 DEF Resave, WriteNextPage, CrcFits, SavedSoFar, Writing
<1> QED BY <1>1, <1>2 DEF Restart

LEMMA StepCrc ==
  Typed /\ CrcFits /\ SavedSoFar /\ [Next]_vars => CrcFits' /\ SavedSoFar'
<1>1. CrcFits /\ SavedSoFar /\ UNCHANGED vars => CrcFits' /\ SavedSoFar'
  BY DEF vars, CrcFits, SavedSoFar, Writing
<1> QED BY <1>1, CallersCrc, TaskCrc, RestartCrc DEF Next

LEMMA AlwaysCrc == Spec => [](Typed /\ CrcFits /\ SavedSoFar)
<1>1. Init => Typed /\ CrcFits /\ SavedSoFar
  BY InitTyped, InitCrc
<1>2. (Typed /\ CrcFits /\ SavedSoFar) /\ [Next]_vars => (Typed /\ CrcFits /\ SavedSoFar)'
  BY StepTyped, StepCrc
<1> QED BY <1>1, <1>2, PTL DEF Spec

\* When smrsim_save_persistence (dm-smrsim.c:422) has written its last page,
\* none of its writes failed and no ioctl changed the state without the zone
\* lock meanwhile, the device holds the whole state with a CRC that fits,
\* whatever flushes, failed writes, crashes and interrupted saves went before.
THEOREM FullSavesAreComplete == Spec => []FullSaveComplete
<1>1. Typed /\ CrcFits /\ SavedSoFar => FullSaveComplete
  <2> SUFFICES ASSUME Typed, CrcFits, SavedSoFar,
                      phase = "up", pc \in {"save", "gapsave"}, todo = {}, ~spoilt
               PROVE  disk = mem /\ Valid
    BY DEF FullSaveComplete
  <2>1. crc = mem
    BY DEF CrcFits, Writing
  <2>2. (\A p \in Pages : disk[p] = mem[p]) /\ diskCrc = crc /\ magic
    BY DEF SavedSoFar
  <2>3. disk = mem
    BY <2>2 DEF Typed, StoreTyped
  <2> QED BY <2>1, <2>2, <2>3 DEF Valid
<1> QED BY <1>1, AlwaysCrc, PTL

-----------------------------------------------------------------------------
(* What is on the device after a restart.                                  *)

\* Only the thread and the constructor write to the device, a page at a time
\* and, but for an ioctl without the zone lock, under a CRC that fits.
LEMMA DeviceSteps ==
  ASSUME Typed, CrcFits, Next
  PROVE  \/ UNCHANGED <<disk, diskCrc, magic>>
         \/ /\ WriteNextPage /\ todo # {} /\ phase \in {"up", "resave"}
            /\ phase' \in {"up", "resave"}
            /\ (phase = "up" /\ spoilt /\ UnlockedChanges) \/ crc = mem
<1> USE DEF thread, callers, history, store, ptask
<1>1. CASE Bio
  BY <1>1 DEF Bio, MapWrite, MapRefuse, QuietChange, MapDone
<1>2. CASE Ioctl
  BY <1>2 DEF Ioctl, IoctlChange, IoctlClear, IoctlResetStats, IoctlQuiet, IoctlLoad,
              IoctlStore
<1>3. CASE Task
  <2>1. CASE TaskSavePage \/ TaskFlushPage
    <3>1. spoilt \in BOOLEAN /\ UnlockedChanges \in BOOLEAN
      BY BoundsAssumption DEF Typed, HistoryTyped
    <3> QED BY <2>1, <3>1 DEF TaskSavePage, TaskFlushPage, CrcFits, Writing
  <2>2. CASE ~(TaskSavePage \/ TaskFlushPage)
    BY <1>3, <2>2 DEF Task, TaskWake, TaskLock, TaskSkipEmpty, TaskSave, TaskSaved,
                      TaskFlush, TaskFlushStats, TaskFlushStatus, TaskFlushed
  <2> QED BY <2>1, <2>2
<1>4. CASE Restart
  BY <1>4 DEF Restart, Crash, LoadState, LoadDefault, Resave, CrcFits
<1> QED BY <1>1, <1>2, <1>3, <1>4 DEF Next

\* A state of one page: no save, flush, failed write or crash at any moment
\* makes what is on the device unloadable (smrsim_load_persistence,
\* dm-smrsim.c:469); only an ioctl that changes the state without the zone
\* lock while the thread is at work does.
THEOREM OnePageStaysLoadable ==
  ASSUME LastPage = 0
  PROVE  Spec => StaysLoadable
<1>1. ASSUME Typed, CrcFits, [Next]_vars, Valid, ~spoilt' PROVE Valid'
  <2>1. CASE UNCHANGED <<disk, diskCrc, magic>>
    BY <1>1, <2>1 DEF Valid
  <2>2. CASE WriteNextPage /\ todo # {} /\ (spoilt \/ crc = mem)
    <3>1. /\ Min(todo) \in todo /\ todo \subseteq Pages
          /\ disk' = [disk EXCEPT ![Min(todo)] = mem[Min(todo)]]
          /\ diskCrc' = IF Min(todo) = 0 THEN crc ELSE diskCrc
          /\ magic' = (magic \/ Min(todo) = 0)
          /\ spoilt' = spoilt
      BY <1>1, <2>2, PageWritten DEF Typed, PlacesTyped, HistoryTyped
    <3>2. Min(todo) = 0 /\ Pages = {0}
      <4>1. Pages = {0}
        BY DEF Pages
      <4> QED BY <3>1, <4>1
    <3>3. disk \in [{0} -> Page] /\ mem \in [{0} -> Page]
      BY <1>1, <3>2 DEF Typed, StoreTyped
    <3>4. disk' = mem
      BY <3>1, <3>2, <3>3
    <3>5. diskCrc' = crc /\ magic' /\ crc = mem
      BY <1>1, <2>2, <3>1, <3>2
    <3> QED BY <3>4, <3>5 DEF Valid
  <2>3. CASE UNCHANGED vars
    BY <2>3, <2>1 DEF vars
  <2> QED BY <1>1, <2>1, <2>2, <2>3, DeviceSteps
<1>2. Typed /\ CrcFits /\ [Next]_vars => [Valid /\ ~spoilt' => Valid']_vars
  BY <1>1
<1> QED BY <1>2, AlwaysCrc, PTL DEF Spec, StaysLoadable

-----------------------------------------------------------------------------
(* The store of snapshots.                                                 *)

\* In the terms of ZoneStore.
Cur == IF phase = "boot" THEN {} ELSE {mem}
Kept == IF Valid THEN {disk} ELSE {}

\* A page that is written begins a snapshot, completes one or tears one up.
LEMMA PageStep ==
  ASSUME Typed, WriteNextPage, todo # {}, phase # "boot", phase' # "boot", crc = mem
  PROVE  [Store!Next]_(Store!svars)
<1> DEFINE p == Min(todo)
<1>1. mem' = mem /\ crc' = crc
  BY DEF WriteNextPage
<1>2. \/ /\ diskCrc' = IF p = 0 THEN crc ELSE diskCrc
         /\ magic' = (magic \/ p = 0)
      \/ disk' = disk /\ diskCrc' = diskCrc /\ magic' = magic
  BY DEF WriteNextPage
<1> HIDE DEF p
<1>3. CASE UNCHANGED <<disk, diskCrc, magic>>
  BY <1>1, <1>3 DEF Store!svars, Valid
<1>4. CASE p = 0 /\ diskCrc' = crc /\ magic'
  <2>1. {diskCrc'} = Cur /\ Cur # {} /\ Cur' = Cur
    BY <1>1, <1>4 DEF Cur
  <2>2. Kept' \in {{}, Cur}
    BY <1>1, <1>4, <2>1 DEF Kept, Valid
  <2>3. Store!Begin
    BY <2>1, <2>2 DEF Store!Begin, Cur, Kept
  <2> QED BY <2>3 DEF Store!Next
<1>5. CASE p # 0 /\ diskCrc' = diskCrc /\ (magic' = magic)
  <2>0. Cur # {} /\ Cur' = Cur
    BY <1>1 DEF Cur
  <2>1. CASE ~Valid'
    <3>1. Store!Tear
      BY <1>5, <2>0, <2>1 DEF Store!Tear, Cur
    <3> QED BY <3>1 DEF Store!Next
  <2>2. CASE Valid' /\ Valid
    <3>1. disk' = disk
      BY <1>5, <2>2 DEF Valid
    <3> QED BY <1>3, <1>5, <2>2, <3>1 DEF Valid
  <2>3. CASE Valid' /\ ~Valid
    <3>1. Store!Complete
      BY <1>5, <2>0, <2>3 DEF Store!Complete, Cur, Valid
    <3> QED BY <3>1 DEF Store!Next
  <2> QED BY <2>1, <2>2, <2>3
<1>6. magic \in BOOLEAN
  BY DEF Typed, StoreTyped
<1> QED BY <1>2, <1>3, <1>4, <1>5, <1>6

\* Where every change takes the zone lock, saves, flushes, failed writes,
\* crashes and restarts in any order implement a store of snapshots: a restart
\* never mixes pages of different moments and never takes an older header's
\* state for a newer (smrsim_load_persistence, dm-smrsim.c:469).
THEOREM ImplementsSnapshots ==
  ASSUME ~UnlockedChanges
  PROVE  Spec => ImplementsStore
<1> USE DEF thread, callers, history, store, ptask
<1>1. Init => Store!Init
  BY DEF Init, Store!Init, Valid
<1>2. ASSUME Typed, CrcFits, [Next]_vars PROVE [Store!Next]_(Store!svars)
  <2>1. ASSUME phase = "up", phase' = "up", UNCHANGED <<disk, diskCrc, magic>>
        PROVE  [Store!Next]_(Store!svars)
    <3>1. Store!Change
      BY <2>1 DEF Store!Change, Valid
    <3> QED BY <3>1 DEF Store!Next
  <2>2. CASE Bio \/ Ioctl
    <3>1. UNCHANGED <<phase, disk, diskCrc, magic>> /\ (phase = "up" \/ mem' = mem)
      BY <2>2 DEF Bio, MapWrite, MapRefuse, QuietChange, MapDone, Ioctl, IoctlChange,
                  IoctlClear, IoctlResetStats, IoctlQuiet, IoctlLoad, IoctlStore
    <3>2. CASE phase = "up"
      BY <2>1, <3>1, <3>2
    <3>3. CASE mem' = mem
      BY <3>1, <3>3 DEF Store!svars, Valid
    <3> QED BY <3>1, <3>2, <3>3
  <2>3. CASE TaskSavePage \/ TaskFlushPage \/ Resave
    <3>1. WriteNextPage /\ todo # {} /\ phase # "boot" /\ phase' # "boot" /\ crc = mem
      BY <1>2, <2>3 DEF TaskSavePage, TaskFlushPage, Resave, CrcFits, Writing
    <3> QED BY <1>2, <3>1, PageStep
  <2>4. CASE Task /\ ~(TaskSavePage \/ TaskFlushPage)
    BY <2>4 DEF Task, TaskWake, TaskLock, TaskSkipEmpty, TaskSave, TaskSaved, TaskFlush,
                TaskFlushStats, TaskFlushStatus, TaskFlushed, Store!svars, Valid
  <2>5. CASE Crash
    <3>1. Store!Stop
      BY <2>5 DEF Crash, Store!Stop, Valid
    <3> QED BY <3>1 DEF Store!Next
  <2>6. CASE LoadState
    <3>1. Store!Restart
      BY <2>6 DEF LoadState, Store!Restart, Valid
    <3> QED BY <3>1 DEF Store!Next
  <2>7. CASE LoadDefault
    <3>1. Store!Restart
      BY <2>7 DEF LoadDefault, Store!Restart, Valid
    <3> QED BY <3>1 DEF Store!Next
  <2>8. CASE UNCHANGED vars
    BY <2>8 DEF vars, Store!svars, Valid
  <2> QED BY <1>2, <2>2, <2>3, <2>4, <2>5, <2>6, <2>7, <2>8 DEF Next, Restart
<1>3. Typed /\ CrcFits /\ [Next]_vars => [Store!Next]_(Store!svars)
  BY <1>2
<1> QED BY <1>1, <1>3, AlwaysCrc, PTL DEF Spec, ImplementsStore, Store!Spec

-----------------------------------------------------------------------------
(* The last mark of a page is not lost.                                    *)

LEMMA InitHead == Init => HeadOnItsWay
BY HeadIsPage DEF Init, HeadOnItsWay, Empty, Default, NoChange

\* The version numbers are numbers.
LEMMA Versions ==
  ASSUME Typed
  PROVE  ver \in Nat /\ owed[0] \in Nat /\ mem[0].ver \in Nat /\ disk[0].ver \in Nat
<1>1. 0..MaxVer \subseteq Nat
  BY BoundsAssumption
<1> QED BY <1>1, HeadIsPage DEF Typed, StoreTyped, HistoryTyped, Page

\* A change under the zone lock that owes its pages to the device leaves a mark
\* to be set, and the thread has not yet looked at the marks.
LEMMA OwedChange ==
  ASSUME Typed, HeadOnItsWay, NEW P, NEW e \in BOOLEAN, Apply(P, e),
         lock = "free", phase' = "up", pc' = pc,
         \/ ~e /\ owed' = Stamp(owed, P) /\ (bio' # "idle" \/ ioc' # "idle")
         \/ owed' = NoChange /\ disk' = disk
  PROVE  HeadOnItsWay'
<1>0. pc \in {"sleep", "lock"}
  BY DEF Typed, PlacesTyped
<1>1. /\ mem \in [Pages -> Page] /\ ver \in 0..MaxVer /\ ver < MaxVer
      /\ owed \in [Pages -> 0..MaxVer] /\ owed[0] <= ver /\ mem[0].ver >= owed[0]
  BY DEF Typed, StoreTyped, HistoryTyped, Apply, HeadOnItsWay
<1>2. /\ ver' = ver + 1 /\ mem'[0].ver \in {mem[0].ver, ver + 1}
      /\ 0 \in P => mem'[0].ver = ver + 1
      /\ mem'[0].empty = e
  BY <1>1, ChangedPages
<1>3. CASE ~e /\ owed' = Stamp(owed, P) /\ (bio' # "idle" \/ ioc' # "idle")
  <2>1. owed'[0] \in {owed[0], ver + 1} /\ (0 \notin P => owed'[0] = owed[0])
    BY <1>1, <1>3, StampType
  <2>2. owed'[0] <= ver' /\ mem'[0].ver >= owed'[0]
    BY <1>1, <1>2, <2>1, Versions
  <2> QED BY <1>0, <1>2, <1>3, <2>2 DEF HeadOnItsWay, Empty
<1>4. CASE owed' = NoChange /\ disk' = disk
  <2>1. owed'[0] = 0
    BY <1>4, HeadIsPage DEF NoChange
  <2>2. owed'[0] <= ver' /\ mem'[0].ver >= owed'[0] /\ disk'[0].ver >= owed'[0]
    BY <1>2, <1>4, <2>1, Versions
  <2> QED BY <2>1, <2>2 DEF HeadOnItsWay
<1> QED BY <1>3, <1>4

\* A change that nothing is owed for takes nothing from what is.
LEMMA QuietStep ==
  ASSUME Typed, HeadOnItsWay, NEW P, NEW e \in BOOLEAN, Apply(P, e),
         owed' = owed, disk' = disk, phase = "up", phase' = "up", pc' = pc,
         todo' = todo, flag' = flag, bio' = bio, ioc' \in {ioc, "load"},
         e => Empty
  PROVE  HeadOnItsWay'
<1>1. /\ mem \in [Pages -> Page] /\ ver \in 0..MaxVer
      /\ owed[0] <= ver /\ mem[0].ver >= owed[0] /\ (Empty => owed[0] = 0)
  BY DEF Typed, StoreTyped, HistoryTyped, HeadOnItsWay
<1>2. /\ ver' = ver + 1 /\ mem'[0].ver \in {mem[0].ver, ver + 1}
      /\ mem'[0].empty = e
  BY <1>1, ChangedPages
<1>3. owed'[0] <= ver' /\ mem'[0].ver >= owed'[0]
  BY <1>1, <1>2, Versions
<1>4. Empty' => owed'[0] = 0
  BY <1>1, <1>2 DEF Empty
<1> QED BY <1>3, <1>4 DEF HeadOnItsWay

LEMMA CallersHead == Typed /\ HeadOnItsWay /\ (Bio \/ Ioctl) => HeadOnItsWay'
<1> SUFFICES ASSUME Typed, HeadOnItsWay, Bio \/ Ioctl PROVE HeadOnItsWay'
  OBVIOUS
<1> USE DEF thread, callers, history, store, ptask
<1>0. FALSE \in BOOLEAN /\ TRUE \in BOOLEAN /\ Empty \in BOOLEAN
  BY HeadIsPage DEF Typed, StoreTyped, Empty, Page
<1>1. ASSUME NEW z \in Zones, MapWrite(z) PROVE HeadOnItsWay'
  BY <1>0, <1>1, OwedChange DEF MapWrite, Change, Marked
<1>2. ASSUME NEW z \in Zones, MapRefuse(z) PROVE HeadOnItsWay'
  <2>1. CASE Change({StatsPage[z]}, FALSE) /\ Marked({StatsPage[z]})
    BY <1>0, <1>2, <2>1, OwedChange DEF MapRefuse, Change, Marked
  <2>2. CASE UNCHANGED <<mem, history>>
    <3>1. pc \in {"sleep", "lock"}
      BY <1>2 DEF MapRefuse, Typed, PlacesTyped
    <3> QED BY <1>2, <2>2, <3>1 DEF MapRefuse, HeadOnItsWay, Empty
  <2> QED BY <1>2, <2>1, <2>2 DEF MapRefuse
<1>3. ASSUME NEW p \in Pages, QuietChange(p) PROVE HeadOnItsWay'
  BY <1>0, <1>3, QuietStep DEF QuietChange, Change
<1>4. CASE MapDone
  <2>1. flag' # {} /\ pc \in {"sleep", "lock"}
    BY <1>4 DEF MapDone, Typed, PlacesTyped
  <2> QED BY <1>4, <2>1 DEF MapDone, HeadOnItsWay, Empty
<1>5. ASSUME NEW P, IoctlChange(P) PROVE HeadOnItsWay'
  BY <1>0, <1>5, OwedChange DEF IoctlChange, Change, MarkedByIoctl
<1>6. CASE IoctlClear
  BY <1>0, <1>6, OwedChange DEF IoctlClear, Change
<1>7. ASSUME NEW p \in Pages, IoctlResetStats(p) PROVE HeadOnItsWay'
  BY <1>0, <1>7, QuietStep DEF IoctlResetStats, ChangeUnlocked, MarkedUnlocked
<1>8. ASSUME NEW p \in Pages, IoctlQuiet(p) PROVE HeadOnItsWay'
  BY <1>0, <1>8, QuietStep DEF IoctlQuiet, ChangeUnlocked
<1>9. CASE IoctlLoad \/ IoctlStore
  BY <1>9 DEF IoctlLoad, IoctlStore, HeadOnItsWay, Empty
<1> QED BY <1>1, <1>2, <1>3, <1>4, <1>5, <1>6, <1>7, <1>8, <1>9 DEF Bio, Ioctl

\* Whoever writes page 0 writes what is owed of it.
LEMMA PageHead ==
  ASSUME Typed, HeadOnItsWay, ~WritesMayFail, WriteNextPage, todo # {}
  PROVE  /\ mem' = mem /\ ver' = ver /\ owed' = owed
         /\ disk'[0].ver >= owed[0] \/ (disk'[0] = disk[0] /\ (0 \in todo => 0 \in todo'))
<1>1. /\ Min(todo) \in todo /\ todo \subseteq Pages /\ todo' = todo \ {Min(todo)}
      /\ disk' = [disk EXCEPT ![Min(todo)] = mem[Min(todo)]]
      /\ mem' = mem /\ ver' = ver /\ owed' = owed
  BY PageWritten DEF Typed, PlacesTyped, HistoryTyped
<1>2. disk \in [Pages -> Page] /\ mem[0].ver >= owed[0]
  BY DEF Typed, StoreTyped, HeadOnItsWay
<1>3. CASE Min(todo) = 0
  <2>1. disk'[0] = mem[0]
    BY <1>1, <1>2, <1>3, HeadIsPage
  <2> QED BY <1>1, <1>2, <2>1
<1>4. CASE Min(todo) # 0
  <2>1. disk'[0] = disk[0]
    BY <1>1, <1>2, <1>4, HeadIsPage
  <2> QED BY <1>1, <1>4, <2>1
<1> QED BY <1>3, <1>4

LEMMA TaskHead ==
  ASSUME Typed, HeadOnItsWay, ~WritesMayFail, Task PROVE HeadOnItsWay'
<1> USE DEF thread, callers, history, store, ptask, Running
<1>1. CASE TaskWake \/ TaskLock \/ TaskSaved \/ TaskFlushStats \/ TaskFlushStatus
           \/ TaskFlushed
  BY <1>1 DEF TaskWake, TaskLock, TaskSaved, TaskFlushStats, TaskFlushStatus,
              TaskFlushed, HeadOnItsWay, Empty
<1>2. CASE TaskSkipEmpty
  <2>1. owed[0] = 0 /\ disk[0].ver >= owed[0]
    BY <1>2, Versions DEF TaskSkipEmpty, HeadOnItsWay
  <2> QED BY <1>2, <2>1 DEF TaskSkipEmpty, HeadOnItsWay, Empty
<1>3. CASE TaskSave \/ TaskFlush
  BY <1>3, HeadIsPage DEF TaskSave, TaskFlush, HeadOnItsWay, Empty
<1>4. CASE TaskSavePage \/ TaskFlushPage
  <2>1. phase = "up" /\ UNCHANGED <<phase, pc>> /\ Writing /\ WriteNextPage /\ todo # {}
    BY <1>4 DEF TaskSavePage, TaskFlushPage, Writing
  <2>2. disk[0].ver >= owed[0] \/ (pc \in {"save", "gapsave", "flush"} /\ 0 \in todo)
    BY <2>1 DEF HeadOnItsWay, Writing
  <2>3. /\ mem' = mem /\ ver' = ver /\ owed' = owed
        /\ disk'[0].ver >= owed[0] \/ (disk'[0] = disk[0] /\ (0 \in todo => 0 \in todo'))
    BY <2>1, PageHead
  <2> QED BY <2>1, <2>2, <2>3 DEF HeadOnItsWay, Empty
<1> QED BY <1>1, <1>2, <1>3, <1>4 DEF Task

LEMMA RestartHead ==
  ASSUME Typed, Typed', HeadOnItsWay, ~WritesMayFail, Restart PROVE HeadOnItsWay'
<1> USE DEF thread, callers, history, store, ptask
<1>1. CASE Crash
  BY <1>1 DEF Crash, HeadOnItsWay, Empty
<1>2. CASE LoadState \/ LoadDefault
  <2>1. owed'[0] = 0
    BY <1>2, HeadIsPage DEF LoadState, LoadDefault, NoChange
  <2>2. ver' \in Nat /\ mem'[0].ver \in Nat /\ disk'[0].ver \in Nat
    <3>1. 0..MaxVer \subseteq Nat
      BY BoundsAssumption
    <3> QED BY <3>1, HeadIsPage DEF Typed, StoreTyped, HistoryTyped, Page
  <2> QED BY <2>1, <2>2 DEF HeadOnItsWay
<1>3. CASE Resave
  <2>1. mem' = mem /\ ver' = ver /\ owed' = owed /\ phase = "resave" /\ owed[0] = 0
    BY <1>3 DEF Resave, WriteNextPage, HeadOnItsWay
  <2>2. disk'[0].ver \in Nat
    <3>1. 0..MaxVer \subseteq Nat
      BY BoundsAssumption
    <3> QED BY <3>1, HeadIsPage DEF Typed, StoreTyped, Page
  <2> QED BY <2>1, <2>2 DEF HeadOnItsWay, Empty
<1> QED BY <1>1, <1>2, <1>3 DEF Restart

LEMMA AlwaysHead ==
  ASSUME ~WritesMayFail
  PROVE  Spec => [](Typed /\ HeadOnItsWay)
<1>1. Init => Typed /\ HeadOnItsWay
  BY InitTyped, InitHead
<1>2. (Typed /\ HeadOnItsWay) /\ [Next]_vars => (Typed /\ HeadOnItsWay)'
  <2> SUFFICES ASSUME Typed, HeadOnItsWay, [Next]_vars PROVE Typed' /\ HeadOnItsWay'
    OBVIOUS
  <2>1. Typed'
    BY StepTyped
  <2>2. CASE UNCHANGED vars
    BY <2>1, <2>2 DEF vars, HeadOnItsWay, Empty
  <2> QED BY <2>1, <2>2, CallersHead, TaskHead, RestartHead DEF Next
<1> QED BY <1>1, <1>2, PTL DEF Spec

\* No order of the unsynchronised loads and stores of smrsim_ptask.flag by a
\* bio, an ioctl and the thread, and no moment at which the thread clears it,
\* loses the last mark of a change made under the zone lock: once the marks
\* are clear and nobody is at work, the change is on the device.  So it is with
\* page 0, the header and the device configuration, of a state of any length.
THEOREM HeadIsDurable ==
  ASSUME ~WritesMayFail
  PROVE  Spec => [](Quiescent => disk[0].ver >= owed[0])
<1>1. Typed /\ HeadOnItsWay => (Quiescent => disk[0].ver >= owed[0])
  BY DEF HeadOnItsWay, Quiescent
<1> QED BY <1>1, AlwaysHead, PTL

\* A state of one page, up to 92 zones, is the whole of it: no change marked and
\* made under the zone lock is lost to the races on smrsim_ptask.flag.
THEOREM OnePageIsDurable ==
  ASSUME ~WritesMayFail, LastPage = 0
  PROVE  Spec => []Durable
<1>1. (Quiescent => disk[0].ver >= owed[0]) => Durable
  <2>1. Pages = {0}
    BY DEF Pages
  <2> QED BY <2>1 DEF Durable
<1> QED BY <1>1, HeadIsDurable, PTL

=============================================================================
