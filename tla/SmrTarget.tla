----------------------------- MODULE SmrTarget -----------------------------
(***************************************************************************)
(* The life of smrsim targets: constructor, destructor and module reload,  *)
(* and the layout of the backing device they share: zones in front, the    *)
(* saved zone state behind them at smrsim_ptask.pstore_lba.                *)
(*                                                                         *)
(* The module's globals outlive a target: the zone size, the zone count    *)
(* and the place of the saved state are those of the last constructor, and *)
(* the next one starts from them.  zone_state lives from a constructor to  *)
(* the destructor.                                                         *)
(*                                                                         *)
(* Lengths are in 4 KiB blocks, which are also the pages of the saved      *)
(* state.  The table is abstracted to its counts, the length of its first  *)
(* zone and the number of the last change; how its pages get saved one by  *)
(* one is SmrPstore, here a save is one step.                              *)
(***************************************************************************)
EXTENDS Integers, FiniteSets

CONSTANTS
  Creators,        \* processes that create and remove targets (dmsetup)
  DefaultSize,     \* blocks of a zone by default
  Sizes,           \* zone sizes the host asks for
  Lens, Starts,    \* lengths and starts of the targets that are created
  DevLen,          \* blocks of the backing device
  Wrap,            \* 2^32 sectors: width of the computation of pstore_lba
  ZonesPerPage,    \* zones whose state a page holds, behind the header
  AllocMayFail,    \* whether vzalloc may fail in smrsim_set_size_zone_default
  MaxVer           \* bound: changes made

ASSUME SizesAssumption ==
  /\ DefaultSize \in Nat \ {0}
  /\ Sizes \subseteq Nat \ {0}
  /\ Lens \subseteq Nat /\ Starts \subseteq Nat
  /\ DevLen \in Nat
  /\ Wrap \in Nat \ {0} /\ Wrap % DefaultSize = 0
  /\ ZonesPerPage \in Nat \ {0}
  /\ AllocMayFail \in BOOLEAN
  /\ MaxVer \in Nat

VARIABLES
  single,          \* smrsim_single
  num, size,       \* SMR_NUMZONES, num_sectors_zone()
  numdef,          \* SMR_NUMZONES_DEFAULT
  capacity,        \* SMR_CAPACITY
  pstore,          \* smrsim_ptask.pstore_lba
  state,           \* *zone_state
  pc,              \* where each constructor is, or its target
  target,          \* what each constructor was asked for
  disk,            \* saved pages on the backing device
  ver,             \* changes so far (history)
  promise          \* what the last whole save put where (history)

globals == <<single, num, size, numdef, capacity, pstore>>
vars == <<single, num, size, numdef, capacity, pstore, state, pc, target, disk,
          ver, promise>>

-----------------------------------------------------------------------------
(* The zone state and its pages.                                           *)

\* num: stats.num_zones; base: the zone count its table is laid out for;
\* length: the zones header.length counts; zone0: zone_status[0].z_length;
\* made: SMR_NUMZONES_DEFAULT when it was built, ver: the last change
\* (history).
NoState == [num |-> 0, base |-> 0, length |-> 0, zone0 |-> 0, made |-> 0, ver |-> 0]

StatePages(s) == 1 + (s.length \div ZonesPerPage)

\* Page i of saved state s; a part of 0 is a page of anything else.
Saved(s, i) == [of |-> s, part |-> i + 1]
Foreign == [of |-> NoState, part |-> 0]

Blocks == 0..(DevLen - 1)

StateArea(lba, s) == lba..(lba + StatePages(s) - 1)

\* Writes past the end of the device fail, and nobody looks.
WithSaved(lba, s) ==
  [x \in Blocks |-> IF x \in StateArea(lba, s) THEN Saved(s, x - lba) ELSE disk[x]]

\* smrsim_load_persistence reads the header, then as many pages as it says,
\* and holds all against its CRC.
Loadable(lba) ==
  /\ lba \in Blocks /\ disk[lba].part = 1
  /\ \A x \in StateArea(lba, disk[lba].of) :
       x \in Blocks /\ disk[x] = Saved(disk[lba].of, x - lba)

\* (Defects: the current number of zones places the state; nothing about the
\* target does.)
PstoreLbaOfNum(n) == (num * DefaultSize) % Wrap
PstoreLbaFixed(n) == DevLen - 4

\* SMR_NUMZONES_DEFAULT << shifts, in u32; the target's start is not added.
PstoreLba(n) == (n * DefaultSize) % Wrap

\* smrsim_init_zone_state_default: a table of n zones of s blocks.
DefaultState(n, s, def, v) ==
  [num |-> n, base |-> n, length |-> n, zone0 |-> IF n = 0 THEN 0 ELSE s,
   made |-> def, ver |-> v]

\* What a load finds as the first zone's length.  The table is looked for
\* behind the statistics of stats.num_zones zones: fewer than it was laid out
\* for, and that falls on cleared statistics; more, and it falls on fields of
\* some other zone.
LoadedZone0(s) ==
  IF s.num = s.base THEN {s.zone0}
  ELSE IF s.num < s.base THEN {0}
  ELSE Sizes \cup {0}

\* (Defects: the size stays the default; a length of 0 is taken as it is.)
SizeOfDefault(length) == DefaultSize
SizeOfAsIs(length) == length

\* index_power_of_2 makes a zone of one block of a length of 0.
SizeOf(length) == IF length = 0 THEN 1 ELSE length

-----------------------------------------------------------------------------
Init ==
  /\ single = FALSE
  /\ num = 0 /\ size = 1 /\ numdef = 0 /\ capacity = 0 /\ pstore = 0
  /\ state = NoState
  /\ pc = [c \in Creators |-> "none"]
  /\ target = [c \in Creators |-> [start |-> 0, len |-> 0]]
  /\ disk = [x \in Blocks |-> Foreign]
  /\ ver = 0
  /\ promise = [start |-> 0, len |-> 0, of |-> NoState]

Live == {c \in Creators : pc[c] = "live"}

\* The history: a whole state is on the device, for this target.
Promise(t, s, lba) ==
  promise' = [start |-> t.start, len |-> t.len,
              of |-> IF StateArea(lba, s) \subseteq Blocks THEN s ELSE NoState]

\* The first half of smrsim_ctr: the checks.  Too small is what is smaller
\* than a zone of the last target; an unaligned length is only reported.
CtrBegin(c, start, len) ==
  /\ pc[c] = "none"
  /\ ~single
  /\ len >= size
  /\ start + len <= DevLen
  /\ pc' = [pc EXCEPT ![c] = "begun"]
  /\ target' = [target EXCEPT ![c] = [start |-> start, len |-> len]]
  /\ UNCHANGED <<globals, state, disk, ver, promise>>

InitZoneDefault(len) ==
  /\ capacity' = len
  /\ numdef' = len \div DefaultSize
  /\ pstore' = PstoreLba(len \div DefaultSize)

Constructed(c) == pc' = [pc EXCEPT ![c] = "live"] /\ single' = TRUE

\* The second half, smrsim_persistence_thread: the state found is taken over.
CtrLoad(c) ==
  LET t == target[c]
      lba == PstoreLba(t.len \div DefaultSize)
      found == disk[lba].of
  IN
  /\ pc[c] = "begun"
  /\ Loadable(lba)
  /\ InitZoneDefault(t.len)
  /\ num' = found.num
  /\ \E length \in LoadedZone0(found) :
       /\ size' = SizeOf(length)
       /\ state' = [found EXCEPT !.base = found.num, !.zone0 = length]
  /\ Constructed(c)
  /\ promise' = IF promise.start = t.start /\ promise.len = t.len
                  THEN promise ELSE [promise EXCEPT !.of = NoState]
  /\ UNCHANGED <<target, disk, ver>>

\* None is found, or not a whole one: the default is built and saved.
CtrDefault(c) ==
  LET t == target[c]
      n == t.len \div DefaultSize
      s == DefaultState(n, DefaultSize, n, 0)
  IN
  /\ pc[c] = "begun"
  /\ ~Loadable(PstoreLba(n))
  /\ InitZoneDefault(t.len)
  /\ num' = n /\ size' = DefaultSize
  /\ state' = s
  /\ disk' = WithSaved(PstoreLba(n), s)
  /\ Promise(t, s, PstoreLba(n))
  /\ Constructed(c)
  /\ UNCHANGED <<target, ver>>

\* smrsim_dtr saves nothing; the globals stay.
Dtr(c) ==
  /\ pc[c] = "live"
  /\ pc' = [pc EXCEPT ![c] = "none"]
  /\ single' = FALSE
  /\ state' = NoState
  /\ UNCHANGED <<num, size, numdef, capacity, pstore, target, disk, ver, promise>>

\* The module is loaded again, or the host boots after a power failure.
Reload ==
  /\ single' = FALSE
  /\ num' = 0 /\ size' = 1 /\ numdef' = 0 /\ capacity' = 0 /\ pstore' = 0
  /\ state' = NoState
  /\ pc' = [c \in Creators |-> "none"]
  /\ UNCHANGED <<target, disk, ver, promise>>

-----------------------------------------------------------------------------
(* What changes the zone state while the target lives.                     *)

Changed == ver < MaxVer /\ ver' = ver + 1

\* SET_SIZZONEDEFAULT
SetZoneSize(s) ==
  /\ Live # {} /\ Changed
  /\ size' = s /\ num' = capacity \div s
  /\ state' = DefaultState(num', s, numdef, ver + 1)
  /\ UNCHANGED <<single, numdef, capacity, pstore, pc, target, disk, promise>>

\* The same when vzalloc fails.
SetZoneSizeNoMem(s) ==
  /\ AllocMayFail
  /\ Live # {}
  /\ size' = s /\ num' = capacity \div s
  /\ UNCHANGED <<single, numdef, capacity, pstore, state, pc, target, disk, ver, promise>>

\* RESET_ZONECONFIG
ResetZoneConfig ==
  /\ Live # {} /\ Changed
  /\ size' = DefaultSize /\ num' = numdef
  /\ state' = DefaultState(numdef, DefaultSize, numdef, ver + 1)
  /\ UNCHANGED <<single, numdef, capacity, pstore, pc, target, disk, promise>>

\* CLEAR_ZONECONFIG
ClearZones ==
  /\ Live # {} /\ Changed
  /\ num' = 0
  /\ state' = [state EXCEPT !.num = 0, !.zone0 = IF num = 0 THEN @ ELSE 0,
                            !.ver = ver + 1]
  /\ UNCHANGED <<single, size, numdef, capacity, pstore, pc, target, disk, promise>>

\* ADD_ZONECONFIG: the table is not laid out anew.
AddZone ==
  /\ Live # {} /\ Changed
  /\ num < numdef
  /\ num' = num + 1
  /\ state' = [state EXCEPT !.num = @ + 1,
                            !.zone0 = IF num = 0 THEN size ELSE @,
                            !.ver = ver + 1]
  /\ UNCHANGED <<single, size, numdef, capacity, pstore, pc, target, disk, promise>>

\* Blocks of the backing device that bios to target t reach: those of the
\* configured zones, inside the target.
HostArea(t) == {x \in t.start..(t.start + t.len - 1) : x - t.start < num * size}

\* A mapped write: the zone's pointer moves, and what was saved at the block
\* is gone.
MapWrite(c) ==
  \E x \in HostArea(target[c]) :
    /\ pc[c] = "live" /\ Changed
    /\ state' = [state EXCEPT !.ver = ver + 1]
    /\ disk' = [disk EXCEPT ![x] = Foreign]
    /\ UNCHANGED <<globals, pc, target, promise>>

\* smrsim_save_persistence, which the thread skips when there are no zones.
Save(c) ==
  /\ pc[c] = "live"
  /\ num > 0
  /\ disk' = WithSaved(pstore, state)
  /\ Promise(target[c], state, pstore)
  /\ UNCHANGED <<globals, state, pc, target, ver>>

\* Every page but the first may be up to date on the device.
RestSaved ==
  \A x \in StateArea(pstore, state) \ {pstore} :
    x \in Blocks /\ disk[x].part = x - pstore + 1 /\ disk[x].of.length = state.length

\* smrsim_flush_persistence writes page 0 with the CRC of all the pages, which
\* fits if the others happen to be up to date.
Flush(c) ==
  /\ pc[c] = "live"
  /\ pstore \in Blocks
  /\ \/ /\ RestSaved
        /\ disk' = WithSaved(pstore, state)
        /\ Promise(target[c], state, pstore)
     \/ /\ StatePages(state) > 1
        /\ disk' = [disk EXCEPT ![pstore] = Saved(state, 0)]
        /\ promise' = [promise EXCEPT !.of = NoState]
  /\ UNCHANGED <<globals, state, pc, target, ver>>

-----------------------------------------------------------------------------
Ctr ==
  \E c \in Creators :
    \/ \E start \in Starts, len \in Lens : CtrBegin(c, start, len)
    \/ CtrLoad(c)
    \/ CtrDefault(c)

Config ==
  \/ \E s \in Sizes : SetZoneSize(s) \/ SetZoneSizeNoMem(s)
  \/ ResetZoneConfig
  \/ ClearZones
  \/ AddZone

Next ==
  \/ Ctr
  \/ \E c \in Creators : Dtr(c) \/ MapWrite(c) \/ Save(c) \/ Flush(c)
  \/ Reload
  \/ Config

Spec == Init /\ [][Next]_vars

-----------------------------------------------------------------------------
(* Types.                                                                  *)

StateRec == [num : Nat, base : Nat, length : Nat, zone0 : Nat, made : Nat, ver : 0..MaxVer]

\* Every variable keeps its type; a zone has at least one block, whatever
\* table a constructor came upon.
TypeOK ==
  /\ single \in BOOLEAN
  /\ num \in Nat /\ size \in Nat \ {0} /\ numdef \in Nat
  /\ capacity \in Nat /\ pstore \in 0..(Wrap - 1)
  /\ state \in StateRec
  /\ pc \in [Creators -> {"none", "begun", "live"}]
  /\ target \in [Creators -> [start : Nat, len : Nat]]
  /\ disk \in [Blocks -> [of : StateRec, part : Nat]]
  /\ ver \in 0..MaxVer
  /\ promise \in [start : Nat, len : Nat, of : StateRec]

-----------------------------------------------------------------------------
(* What the layout promises.                                               *)

\* A target as INSTALL sets it up: from the start of the device, of whole
\* zones.
Documented(t) == t.start = 0 /\ t.len % DefaultSize = 0

\* One that is small enough for pstore_lba to be computed in 32 bits.
Supported(t) == Documented(t) /\ t.len < Wrap

\* The saved state lies behind everything bios reach, however the zones are
\* resized, cleared and added and whatever the previous targets were.
StateBehindZones ==
  \A c \in Live : Supported(target[c]) =>
    HostArea(target[c]) \cap StateArea(pstore, state) = {}

\* The same of every target below the 10 TB the constructor allows
\* (dm-smrsim.c:1213): smr_format.sh:38 computes the zones "leaving room for
\* persistence data after last zone".
RoomBehindZones ==
  \A c \in Live : Documented(target[c]) =>
    HostArea(target[c]) \cap StateArea(pstore, state) = {}

\* A target takes over only what a target of as many default zones saved,
\* whatever others left on the device, unless the length of another was so
\* large that its pstore_lba wrapped round to the same block (README).
OwnState ==
  [][\A c \in Creators :
       /\ pc[c] = "begun" /\ pc'[c] = "live"
       /\ Supported(target[c])
       => state'.made = numdef']_vars

\* A whole save is what the same target gets after a removal, a reload or a
\* power failure: zone count, zone size and table, also when the size change
\* before it had run out of memory.  Said of tables that have as many zones as
\* they were laid out for, the first among them: of one that was only partly
\* filled again after a clear the restart finds something else (README).
RestartRestores ==
  [][\A c \in Creators :
       LET s == promise.of IN
       /\ pc[c] = "begun" /\ pc'[c] = "live"
       /\ Supported(target[c])
       /\ target[c] = [start |-> promise.start, len |-> promise.len]
       /\ s.num = s.base /\ s.zone0 > 0
       => state' = s /\ num' = s.num /\ size' = s.zone0]_vars

\* "Any attempt to create more than one SMRSim device will be rejected"
\* (INSTALL:84).
SingleTarget == Cardinality(Live) <= 1

=============================================================================
