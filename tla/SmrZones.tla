------------------------------ MODULE SmrZones ------------------------------
(***************************************************************************)
(* The zone table of the simulated SMR drive (zone_status[] in             *)
(* dm-smrsim.c), the read and write rules every bio is checked against,    *)
(* and the operations that configure the table.                            *)
(*                                                                         *)
(* smrsim_map runs wholly under smrsim_zone_lock, so one bio is one step.  *)
(* ioctls are serialised by smrsim_ioct_lock; the one that takes the zone  *)
(* lock several times (RESET_DEFAULTCONFIG) is several steps, with bios in *)
(* between.                                                                *)
(*                                                                         *)
(* An LBA is the pair (zone, offset in the zone) the code's two shifts     *)
(* split it into, so zone_idx_lba(z) + o is written <<z, o>>.              *)
(***************************************************************************)
EXTENDS Integers, FiniteSets

CONSTANTS
  BlockSize,       \* sectors in a 4 KiB block (1 << SMR_BLOCK_SIZE_SHIFT)
  Capacity,        \* SMR_CAPACITY, in sectors
  ZoneSizeDefault, \* 1 << SMR_BLOCK_SIZE_SHIFT << SMR_ZONE_SIZE_SHIFT_DEFAULT
  ZoneSizes,       \* the zone sizes the host asks for
  MaxZones,        \* the most zones any of those sizes gives
  MaxWp,           \* bound: no write takes a pointer past this offset
  Policies,        \* values the out-of-policy flags are given
  ResetFlags,      \* values smrsim_wp_reset_flag is given
  AdjustFlags,     \* values smrsim_wp_adjust_flag is given
  CrossCodes,      \* border-crossing codes the host issues
  ModifyArgs,      \* (type, condition, pointer) given to MODIFY_ZONECONFIG
  AllocMayFail     \* whether vzalloc may fail in smrsim_set_size_zone_default

Conds == {"NO_WP", "EMPTY", "CLOSED", "RO", "FULL", "OFFLINE"}
Types == {"RESERVED", "CONV", "SEQ"}
Codes == {"OFF", "SEQ", "CUR"}

ModifyArg == [z_type : Types, z_conds : Conds, z_write_ptr_offset : Nat]

ASSUME SizesAssumption ==
  /\ BlockSize \in Nat \ {0}
  /\ Capacity \in Nat
  /\ ZoneSizes \subseteq Nat \ {0}
  /\ ZoneSizeDefault \in ZoneSizes
  /\ MaxZones \in Nat
  /\ \A s \in ZoneSizes : Capacity \div s \in 0..MaxZones
  /\ MaxWp \in Nat

ASSUME InputsAssumption ==
  /\ Policies \subseteq Nat
  /\ ResetFlags \subseteq {0, 1}
  /\ AdjustFlags \subseteq {0, 1}
  /\ CrossCodes \subseteq Codes
  /\ ModifyArgs \subseteq ModifyArg
  /\ AllocMayFail \in BOOLEAN

VARIABLES
  num_zones,       \* SMR_NUMZONES
  zone_size,       \* num_sectors_zone()
  zone_status,     \* the table, and the zeroed slack behind it
  rflag, wflag,    \* out_of_policy_read_flag, out_of_policy_write_flag
  wp_reset_flag, wp_adjust_flag,
  ioctl,           \* progress of the ioctl that holds smrsim_ioct_lock
  op,              \* what the last step was (history)
  written,         \* offsets of each sequential zone written since it was
                   \* last restarted (history: the data the host may read)
  tainted          \* zones whose pointer was moved by other than in-policy
                   \* writes since they were last restarted (history)

flags == <<rflag, wflag, wp_reset_flag, wp_adjust_flag>>
table == <<num_zones, zone_size, zone_status, written, tainted>>
vars == <<num_zones, zone_size, zone_status, rflag, wflag, wp_reset_flag,
          wp_adjust_flag, ioctl, op, written, tainted>>

-----------------------------------------------------------------------------
(* The table.  A write of exactly two zones indexes the slot two past its  *)
(* own, hence the slots past MaxZones.                                     *)

Slots == 0..(MaxZones + 1)

NumZonesDefault == Capacity \div ZoneSizeDefault

\* What z_flag may hold.
FlagCodes == CrossCodes \cup {"OFF"}

ZoneRec == [z_length : Nat, z_write_ptr_offset : Nat, z_conds : Conds,
            z_type : Types, z_flag : FlagCodes]

Zeroed == [z_length |-> 0, z_write_ptr_offset |-> 0, z_conds |-> "NO_WP",
           z_type |-> "RESERVED", z_flag |-> "OFF"]

FreshZone(type, size) ==
  [z_length |-> size, z_write_ptr_offset |-> 0,
   z_conds |-> IF type = "CONV" THEN "NO_WP" ELSE "EMPTY",
   z_type |-> type, z_flag |-> "OFF"]

\* The first and the last of several zones are conventional.
InitZoneStatus(n, size) ==
  [i \in Slots |->
     IF i >= n THEN Zeroed
     ELSE FreshZone(IF n > 1 /\ i \in {0, n - 1} THEN "CONV" ELSE "SEQ", size)]

Wp(z) == zone_status[z].z_write_ptr_offset
Cond(z) == zone_status[z].z_conds
IsSeq(z) == zone_status[z].z_type = "SEQ"
IsConv(z) == zone_status[z].z_type = "CONV"

Configured == {z \in Slots : z < num_zones}
SeqZones == {z \in Configured : IsSeq(z)}

\* (Defect: the new table keeps the zones of the old one.)
RebuildKept(n, size) ==
  /\ num_zones' = n
  /\ zone_size' = size
  /\ zone_status' = [i \in Slots |->
       IF i < n /\ i < num_zones THEN [zone_status[i] EXCEPT !.z_length = size]
       ELSE InitZoneStatus(n, size)[i]]
  /\ written' = [z \in Slots |-> {}]
  /\ tainted' = {}

Rebuild(n, size) ==
  /\ num_zones' = n
  /\ zone_size' = size
  /\ zone_status' = InitZoneStatus(n, size)
  /\ written' = [z \in Slots |-> {}]
  /\ tainted' = {}

Init ==
  /\ num_zones = NumZonesDefault
  /\ zone_size = ZoneSizeDefault
  /\ zone_status = InitZoneStatus(NumZonesDefault, ZoneSizeDefault)
  /\ rflag = 0 /\ wflag = 0
  /\ wp_reset_flag = 0 /\ wp_adjust_flag = 0
  /\ ioctl = "idle"
  /\ op = "none"
  /\ written = [z \in Slots |-> {}]
  /\ tainted = {}

-----------------------------------------------------------------------------
(* Bios.  The block layer keeps them inside the device.  An empty bio is a *)
(* flush, which device mapper sends as a write of nothing at sector 0.     *)

Bios == {b \in [zone : 0..MaxZones, off : 0..(zone_size - 1), n : 0..(2 * zone_size + 1)] :
           /\ b.zone <= num_zones
           /\ b.n = 0 => b.zone = 0 /\ b.off = 0
           /\ b.zone * zone_size + b.off + b.n <= Capacity}

End(b) == b.off + b.n

\* smrsim_map's checks of any bio: out of range, too large, offline.
Unreachable(b) ==
  \/ b.zone >= num_zones
  \/ End(b) > 2 * zone_size
  \/ Cond(b.zone) = "OFFLINE"

\* smrsim_map's checks of a write: read-only or full zone.
\* (Defect: a read-only zone is not looked for.)
BarredFullOnly(b) == wflag = 0 /\ Cond(b.zone) = "FULL" /\ b.off # 0

Barred(b) ==
  /\ wflag = 0
  /\ \/ Cond(b.zone) = "RO"
     \/ Cond(b.zone) = "FULL" /\ b.off # 0

Unaligned(b) == IsSeq(b.zone) /\ b.n % BlockSize # 0

OffPointer(b) == IsSeq(b.zone) /\ Wp(b.zone) # b.off

\* The research flags that move the pointer to where the write starts.
ByReset(b) == OffPointer(b) /\ wp_reset_flag = 1 /\ b.off = 0
ByAdjust(b) ==
  OffPointer(b) /\ ~ByReset(b) /\ wp_adjust_flag = 1 /\ b.off > Wp(b.zone)

\* (Defect: the pointer stays where it was.)
StartWpKept(b) == Wp(b.zone)

StartWp(b) == IF ByReset(b) \/ ByAdjust(b) THEN b.off ELSE Wp(b.zone)

\* (Defect: the pointer is not checked.)
RuleBrokenNoPointer(b) == wflag = 0 /\ Unaligned(b)

RuleBroken(b) ==
  /\ wflag = 0
  /\ Unaligned(b) \/ (OffPointer(b) /\ ~ByReset(b) /\ ~ByAdjust(b))

\* The write reaches the pointer update of smrsim_write_rule_check.
Passes(b) == ~Unreachable(b) /\ ~Barred(b) /\ ~RuleBroken(b)

\* The "internal trace" of a conventional zone returns at once; a write that
\* ends exactly at the pointer falls through to Advance.
Traced(b) ==
  /\ IsConv(b.zone)
  /\ \/ End(b) = zone_size
     \/ End(b) < Wp(b.zone)
     \/ Wp(b.zone) < End(b) /\ End(b) < zone_size

Crosses(b) == ~Traced(b) /\ End(b) > zone_size

\* elba >> shifts: a write that ends on the second border indexes zone + 2.
EndIdx(b) == b.zone + (IF End(b) = 2 * zone_size THEN 2 ELSE 1)

MaySplit(b) ==
  /\ IsSeq(b.zone) /\ IsSeq(b.zone + 1)
  /\ b.zone + 1 < num_zones
  /\ zone_status[b.zone].z_flag # "OFF"
  /\ wp_reset_flag = 1 \/ Wp(b.zone + 1) = 0

\* (Defect: the last zone of the span is not looked at.)
BorderBrokenOneShort(b) ==
  /\ wflag = 0
  /\ \/ IsSeq(b.zone)
     \/ IsConv(b.zone) /\ \E i \in (b.zone + 1)..(EndIdx(b) - 1) : ~IsConv(i)

BorderBroken(b) ==
  /\ wflag = 0
  /\ \/ IsSeq(b.zone)
     \/ IsConv(b.zone) /\ \E i \in (b.zone + 1)..EndIdx(b) : ~IsConv(i)

\* Offsets of zone z the bio writes.
Covers(b, z) ==
  {o \in 0..(zone_size - 1) :
     \/ z = b.zone /\ b.off <= o /\ o < End(b)
     \/ z = b.zone + 1 /\ o < End(b) - zone_size}

\* The rule is not enforced on the write: it moves the pointer over sectors
\* the host never wrote, or, with a flag that is neither 0 nor 1, past the
\* border without a look at the next zone.
Outside(b) ==
  \/ ByAdjust(b)
  \/ wflag # 0 /\ OffPointer(b) /\ ~ByReset(b)
  \/ wflag \notin {0, 1} /\ IsSeq(b.zone) /\ Crosses(b)

\* History of a mapped write that restarts the zones of R.
Record(b, R) ==
  /\ written' = [z \in Slots |->
                   IF ~IsSeq(z) THEN written[z]
                   ELSE (IF z \in R THEN {} ELSE written[z]) \cup Covers(b, z)]
  /\ tainted' = (tainted \ R) \cup
                (IF Outside(b) THEN {b.zone} ELSE {})

Restarted(b) == IF ByReset(b) THEN {b.zone} ELSE {}

Mapped == op' = "mapped" /\ UNCHANGED <<num_zones, zone_size, flags, ioctl>>
Refused == op' = "refused" /\ UNCHANGED <<num_zones, zone_size, flags, ioctl>>

\* (Defect: a zone that fills up is closed.)
CondAtClosed(wp) == "CLOSED"

CondAt(wp) == IF wp = zone_size THEN "FULL" ELSE "CLOSED"

-----------------------------------------------------------------------------
(* smrsim_map of a write, one action per way through                       *)
(* smrsim_write_rule_check.                                                *)

WriteRefused(b) ==
  /\ Unreachable(b) \/ Barred(b) \/ RuleBroken(b)
  /\ Refused
  /\ UNCHANGED <<zone_status, written, tainted>>

\* (Defect: the pointer goes to the border before the border is checked.)
WriteRefusedAtBorderMoved(b) ==
  /\ Passes(b) /\ Crosses(b) /\ ~MaySplit(b) /\ BorderBroken(b)
  /\ zone_status' = [zone_status EXCEPT ![b.zone].z_write_ptr_offset = zone_size]
  /\ Refused
  /\ UNCHANGED <<written, tainted>>

\* The border is checked after the research flags have moved the pointer.
WriteRefusedAtBorder(b) ==
  /\ Passes(b) /\ Crosses(b) /\ ~MaySplit(b) /\ BorderBroken(b)
  /\ zone_status' = [zone_status EXCEPT ![b.zone].z_write_ptr_offset = StartWp(b)]
  /\ written' = [written EXCEPT ![b.zone] = IF ByReset(b) THEN {} ELSE @]
  /\ tainted' = (tainted \ Restarted(b)) \cup
                (IF ByAdjust(b) THEN {b.zone} ELSE {})
  /\ Refused

WriteTraced(b) ==
  /\ Passes(b) /\ Traced(b)
  /\ zone_status' = [zone_status EXCEPT ![b.zone].z_write_ptr_offset =
                       IF End(b) < @ /\ End(b) # zone_size THEN @ ELSE End(b)]
  /\ Record(b, {})
  /\ Mapped

\* (Defect: the second zone's pointer is taken from the write's length.)
WriteSplitByLength(b) ==
  /\ Passes(b) /\ Crosses(b) /\ MaySplit(b)
  /\ zone_status' = [zone_status EXCEPT
       ![b.zone].z_conds = "FULL",
       ![b.zone].z_write_ptr_offset = zone_size,
       ![b.zone + 1].z_write_ptr_offset = b.n,
       ![b.zone + 1].z_conds = "CLOSED"]
  /\ Record(b, Restarted(b) \cup {b.zone + 1})
  /\ Mapped

WriteSplit(b) ==
  /\ Passes(b) /\ Crosses(b) /\ MaySplit(b)
  /\ zone_status' = [zone_status EXCEPT
       ![b.zone].z_conds = "FULL",
       ![b.zone].z_write_ptr_offset = zone_size,
       ![b.zone + 1].z_write_ptr_offset = End(b) - zone_size,
       ![b.zone + 1].z_conds = "CLOSED"]
  /\ Record(b, Restarted(b) \cup {b.zone + 1})
  /\ Mapped

WriteSpan(b) ==
  /\ Passes(b) /\ Crosses(b) /\ ~MaySplit(b) /\ ~BorderBroken(b)
  /\ IsConv(b.zone) \/ wflag = 1
  /\ zone_status' = [z \in Slots |->
       LET zs == zone_status[z] IN
         IF z \in b.zone..(EndIdx(b) - 1)
           THEN [zs EXCEPT !.z_write_ptr_offset = zone_size,
                           !.z_conds = IF IsConv(z) THEN "NO_WP" ELSE "FULL"]
         ELSE IF z = EndIdx(b)
           THEN [zs EXCEPT !.z_write_ptr_offset =
                              IF End(b) = 2 * zone_size THEN 0 ELSE End(b) - zone_size,
                           !.z_conds = IF IsSeq(z) THEN "CLOSED" ELSE @]
         ELSE zs]
  /\ Record(b, Restarted(b))
  /\ Mapped

Within(b) == ~Traced(b) /\ (Crosses(b) => ~MaySplit(b) /\ ~BorderBroken(b)
                                          /\ ~IsConv(b.zone) /\ wflag # 1)

WriteRewriteFull(b) ==
  /\ Passes(b) /\ Within(b)
  /\ wflag = 1 /\ Cond(b.zone) = "FULL"
  /\ zone_status' = [zone_status EXCEPT
       ![b.zone].z_write_ptr_offset = End(b),
       ![b.zone].z_conds = CondAt(End(b))]
  /\ Record(b, Restarted(b))
  /\ Mapped

WriteAdvance(b) ==
  LET wp == StartWp(b) + b.n IN
  /\ Passes(b) /\ Within(b)
  /\ ~(wflag = 1 /\ Cond(b.zone) = "FULL")
  /\ wp <= MaxWp
  /\ zone_status' = [zone_status EXCEPT
       ![b.zone].z_write_ptr_offset = wp,
       ![b.zone].z_conds = IF IsSeq(b.zone) THEN CondAt(wp) ELSE @]
  /\ Record(b, Restarted(b))
  /\ Mapped

MapWrite(b) ==
  \/ WriteRefused(b)
  \/ WriteRefusedAtBorder(b)
  \/ WriteTraced(b)
  \/ WriteSplit(b)
  \/ WriteSpan(b)
  \/ WriteRewriteFull(b)
  \/ WriteAdvance(b)

(* smrsim_map of a read: it never changes the table.                       *)

\* (Defect: only the start of the read is held against the pointer.)
ReadInPolicyStart(b) ==
  /\ End(b) <= zone_size
  /\ IsConv(b.zone) \/ b.off <= Wp(b.zone)

ReadInPolicy(b) ==
  /\ End(b) <= zone_size
  /\ IsConv(b.zone) \/ End(b) <= Wp(b.zone)

MapRead(b) ==
  /\ b.n > 0
  /\ IF ~Unreachable(b) /\ (ReadInPolicy(b) \/ rflag = 1) THEN Mapped ELSE Refused
  /\ UNCHANGED <<zone_status, written, tainted>>

-----------------------------------------------------------------------------
(* Zone configuration, one action per ioctl that takes the zone lock once. *)

Idle(what) == ioctl = "idle" /\ ioctl' = "idle" /\ op' = what

\* (Defect: the condition is reset, the pointer is not.)
ResetZonePtrCondOnly(z) ==
  /\ Idle("admin")
  /\ z < num_zones /\ ~IsConv(z)
  /\ zone_status' = [zone_status EXCEPT ![z].z_conds = IF IsSeq(z) THEN "EMPTY" ELSE @]
  /\ written' = [written EXCEPT ![z] = {}]
  /\ tainted' = tainted \ {z}
  /\ UNCHANGED <<num_zones, zone_size, flags>>

\* IOCTL_SMRSIM_ZBC_RESET_ZONE at the first sector of a zone.
ResetZonePtr(z) ==
  /\ Idle("admin")
  /\ z < num_zones /\ ~IsConv(z)
  /\ zone_status' = [zone_status EXCEPT
       ![z].z_write_ptr_offset = 0,
       ![z].z_conds = IF IsSeq(z) THEN "EMPTY" ELSE @]
  /\ written' = [written EXCEPT ![z] = {}]
  /\ tainted' = tainted \ {z}
  /\ UNCHANGED <<num_zones, zone_size, flags>>

\* (Defect: off by one.)
LosesLastSeqLate(z, a) == Cardinality(SeqZones) < 1 /\ a.z_type = "CONV" /\ IsSeq(z)

LosesLastSeq(z, a) == Cardinality(SeqZones) <= 1 /\ a.z_type = "CONV" /\ IsSeq(z)

\* IOCTL_SMRSIM_MODIFY_ZONECONFIG with z_length = num_sectors_zone().
ModifyZone(z, a) ==
  /\ Idle("modify")
  /\ z < num_zones
  /\ ~LosesLastSeq(z, a)
  /\ a.z_write_ptr_offset <= zone_size
  /\ a.z_write_ptr_offset = zone_size => Cond(z) = "FULL"
  /\ a.z_conds = "NO_WP" => a.z_type = "CONV"
  /\ a.z_conds = "EMPTY" /\ a.z_type = "SEQ" => a.z_write_ptr_offset = 0
  /\ zone_status' = [zone_status EXCEPT ![z] =
       [z_length |-> @.z_length, z_write_ptr_offset |-> a.z_write_ptr_offset,
        z_conds |-> a.z_conds, z_type |-> a.z_type, z_flag |-> "OFF"]]
  /\ written' = [written EXCEPT ![z] = {}]
  /\ tainted' = IF a.z_write_ptr_offset = 0 THEN tainted \ {z} ELSE tainted \cup {z}
  /\ UNCHANGED <<num_zones, zone_size, flags>>

\* (Defects: the bound is off by one; any size is taken.)
AddableOneMore(length) == num_zones <= NumZonesDefault /\ length = zone_size
AddableAnySize(length) == num_zones < NumZonesDefault

Addable(length) == num_zones < NumZonesDefault /\ length = zone_size

\* IOCTL_SMRSIM_ADD_ZONECONFIG: the new zone must be the next one, empty,
\* of the current size, and below the default number of zones.
AddZone(type, length) ==
  /\ Idle("admin")
  /\ Addable(length)
  /\ zone_status' = [zone_status EXCEPT ![num_zones] = FreshZone(type, length)]
  /\ num_zones' = num_zones + 1
  /\ written' = [written EXCEPT ![num_zones] = {}]
  /\ tainted' = tainted \ {num_zones}
  /\ UNCHANGED <<zone_size, flags>>

\* IOCTL_SMRSIM_CLEAR_ZONECONFIG
ClearZones ==
  /\ Idle("admin")
  /\ zone_status' = [z \in Slots |-> IF z < num_zones THEN Zeroed ELSE zone_status[z]]
  /\ num_zones' = 0
  /\ written' = [z \in Slots |-> {}]
  /\ tainted' = {}
  /\ UNCHANGED <<zone_size, flags>>

IsPowerOf2(s) == \E k \in 0..s : s = 2^k

\* IOCTL_SMRSIM_SET_SIZZONEDEFAULT
SetZoneSize(s) ==
  /\ Idle("admin")
  /\ s % BlockSize = 0 /\ IsPowerOf2(s)
  /\ Rebuild(Capacity \div s, s)
  /\ UNCHANGED flags

\* The same when vzalloc fails: the size and the number of zones are already
\* the new ones, the table is still the old one.
SetZoneSizeNoMem(s) ==
  /\ AllocMayFail
  /\ Idle("admin")
  /\ s % BlockSize = 0 /\ IsPowerOf2(s)
  /\ zone_size' = s
  /\ num_zones' = Capacity \div s
  /\ tainted' = Slots
  /\ UNCHANGED <<zone_status, written, flags>>

\* IOCTL_SMRSIM_RESET_ZONECONFIG
ResetZoneConfig ==
  /\ Idle("admin")
  /\ Rebuild(NumZonesDefault, ZoneSizeDefault)
  /\ UNCHANGED flags

\* IOCTL_SMRSIM_RESET_DEVCONFIG
ResetDevConfig ==
  /\ Idle("admin")
  /\ rflag' = 0 /\ wflag' = 0
  /\ UNCHANGED <<table, wp_reset_flag, wp_adjust_flag>>

\* IOCTL_SMRSIM_RESET_DEFAULTCONFIG: the zones, then the device flags, then
\* the research flags; the zone lock is free between the steps.
ResetDefaultZones ==
  /\ ioctl = "idle"
  /\ Rebuild(NumZonesDefault, ZoneSizeDefault)
  /\ ioctl' = "devconfig" /\ op' = "admin"
  /\ UNCHANGED flags

ResetDefaultDev ==
  /\ ioctl = "devconfig"
  /\ rflag' = 0 /\ wflag' = 0
  /\ ioctl' = "rtflags" /\ op' = "admin"
  /\ UNCHANGED <<table, wp_reset_flag, wp_adjust_flag>>

ResetDefaultRt ==
  /\ ioctl = "rtflags"
  /\ wp_reset_flag' = 0 /\ wp_adjust_flag' = 0
  /\ ioctl' = "idle" /\ op' = "admin"
  /\ UNCHANGED <<table, rflag, wflag>>

\* IOCTL_SMRSIM_SET_DEVRCONFIG, IOCTL_SMRSIM_SET_DEVWCONFIG
SetReadPolicy(v) ==
  /\ Idle("admin")
  /\ rflag' = v
  /\ UNCHANGED <<table, wflag, wp_reset_flag, wp_adjust_flag>>

SetWritePolicy(v) ==
  /\ Idle("admin")
  /\ wflag' = v
  /\ UNCHANGED <<table, rflag, wp_reset_flag, wp_adjust_flag>>

\* IOCTL_SMRSIM_BDWP_RESET, IOCTL_SMRSIM_FDWP_ADJST
SetWpReset(v) ==
  /\ Idle("admin")
  /\ wp_reset_flag' = v
  /\ UNCHANGED <<table, rflag, wflag, wp_adjust_flag>>

SetWpAdjust(v) ==
  /\ Idle("admin")
  /\ wp_adjust_flag' = v
  /\ UNCHANGED <<table, rflag, wflag, wp_reset_flag>>

\* IOCTL_SMRSIM_BORDER_CROSS: one zone (its index is not checked), every
\* sequential zone, or clear all.
BorderAcross(code, z) ==
  /\ Idle("admin")
  /\ zone_status' = [i \in Slots |->
       IF \/ code = "CUR" /\ i = z
          \/ code = "SEQ" /\ i \in SeqZones
          \/ code = "OFF" /\ i \in Configured
       THEN [zone_status[i] EXCEPT !.z_flag = code]
       ELSE zone_status[i]]
  /\ UNCHANGED <<num_zones, zone_size, written, tainted, flags>>

-----------------------------------------------------------------------------
Bio == \E b \in Bios : MapWrite(b) \/ MapRead(b)

ZoneIoctl ==
  \/ \E z \in Slots : ResetZonePtr(z)
  \/ \E z \in Slots, a \in ModifyArgs : ModifyZone(z, a)
  \/ \E type \in {"CONV", "SEQ"}, l \in ZoneSizes : AddZone(type, l)
  \/ ClearZones
  \/ \E s \in ZoneSizes : SetZoneSize(s) \/ SetZoneSizeNoMem(s)
  \/ ResetZoneConfig
  \/ \E c \in CrossCodes, z \in Slots : BorderAcross(c, z)

DeviceIoctl ==
  \/ ResetDevConfig
  \/ ResetDefaultZones
  \/ ResetDefaultDev
  \/ ResetDefaultRt
  \/ \E v \in Policies : SetReadPolicy(v) \/ SetWritePolicy(v)
  \/ \E v \in ResetFlags : SetWpReset(v)
  \/ \E v \in AdjustFlags : SetWpAdjust(v)

Next == Bio \/ ZoneIoctl \/ DeviceIoctl

Spec == Init /\ [][Next]_vars

-----------------------------------------------------------------------------
(* Types.                                                                  *)

\* Every variable keeps its type; the number of zones never passes the most
\* the configuration ioctls can give.
TypeOK ==
  /\ num_zones \in 0..MaxZones
  /\ zone_size \in Nat \ {0}
  /\ zone_status \in [Slots -> ZoneRec]
  /\ rflag \in Policies \cup {0} /\ wflag \in Policies \cup {0}
  /\ wp_reset_flag \in ResetFlags \cup {0} /\ wp_adjust_flag \in AdjustFlags \cup {0}
  /\ ioctl \in {"idle", "devconfig", "rtflags"}
  /\ op \in {"none", "mapped", "refused", "admin", "modify"}
  /\ written \in [Slots -> SUBSET Nat]
  /\ tainted \subseteq Slots

-----------------------------------------------------------------------------
(* What the host may rely on.                                              *)

\* Below its write pointer a sequential zone holds only sectors the host
\* wrote since the zone was last restarted, as long as nobody moved the
\* pointer past the rules: every path of smrsim_write_rule_check that moves
\* the pointer, and every ioctl that restarts zones, keeps the two in step.
PrefixWritten ==
  \A z \in SeqZones \ tainted :
    /\ Wp(z) <= zone_size
    /\ 0..(Wp(z) - 1) \subseteq written[z]

\* A read that smrsim_read_rule_check finds in policy, in a sequential zone
\* whose pointer moved by in-policy writes only, returns written sectors.
ReadsSeeWrites ==
  \A b \in Bios :
    (/\ b.n > 0 /\ ~Unreachable(b) /\ ReadInPolicy(b)
     /\ IsSeq(b.zone) /\ b.zone \notin tainted)
      => b.off..(End(b) - 1) \subseteq written[b.zone]

\* The condition the host is told agrees with the pointer the writes are
\* checked against: a zone whose pointer is at its end is full, a started
\* zone is closed or full, and a full zone has no room left above a pointer
\* that moved (the host may declare a zone full with its pointer at 0).
CondAgrees ==
  \A z \in SeqZones :
    /\ Wp(z) = zone_size => Cond(z) = "FULL"
    /\ Wp(z) > 0 => Cond(z) \in {"CLOSED", "FULL"}
    /\ Cond(z) = "FULL" => Wp(z) \in {0, zone_size}

\* No sequence of bios takes the pointer of a sequential zone past the end of
\* the zone, also when the research flags move it.
SeqWpInRange == \A z \in SeqZones : Wp(z) <= zone_size

\* SMRSim has no zones of different sizes: whatever the order of size
\* changes, clears and additions, every configured zone has the current size.
UniformZones ==
  \A z \in Configured : zone_status[z].z_length = zone_size

\* modify_zone_config refuses a pointer past the end of the zone, "zone wp is
\* out of range" (dm-smrsim.c:949).  The code does not keep it: a write that
\* ends exactly at the pointer of a conventional zone advances it again.
WpInRange == \A z \in Configured : Wp(z) <= zone_size

\* A bio changes a sequential zone only by appending: what it writes starts at
\* the pointer and the pointer ends up behind it.  Said of steps from states
\* where no pointer of a conventional zone has overrun its zone: see
\* SeqWritesAtPointer for what happens then.
AppendOnly ==
  [][op' = "mapped" /\ WpInRange =>
       \A z \in SeqZones :
         /\ Wp(z)' >= Wp(z)
         /\ written'[z] = written[z] \cup Wp(z)..(Wp(z)' - 1)]_vars

\* A bio the simulator refuses leaves every zone as it was.
RefusedLeavesZones ==
  [][op' = "refused" => UNCHANGED <<zone_status, written>>]_vars

\* No bio changes a read-only or an offline sequential zone.
BarredSeqZoneKept ==
  [][op' = "mapped" =>
       \A z \in SeqZones :
         Cond(z) \in {"RO", "OFFLINE"} => zone_status'[z] = zone_status[z]]_vars

\* A mapped bio under the research flags leaves a sequential zone with a
\* pointer just behind sectors it has written, or leaves the zone alone.
PointerFollowsData ==
  [][op' = "mapped" =>
       \A z \in SeqZones :
         Wp(z)' # Wp(z) => Wp(z)' = 0 \/ (Wp(z)' - 1) \in written'[z]]_vars

\* smrsim_modify_zone_config never takes the last sequential zone away.
LastSeqZoneKept ==
  [][op' = "modify" /\ SeqZones # {} => SeqZones' # {}]_vars

-----------------------------------------------------------------------------
(* The table as the host sees it.                                          *)

ZoneKind(z) ==
  IF z >= num_zones \/ ~(IsSeq(z) \/ IsConv(z)) THEN "none"
  ELSE IF IsSeq(z) THEN "seq" ELSE "conv"

Appendable(z) == ZoneKind(z) = "seq"

Stepped == IF op \in {"mapped", "refused"}
             THEN IF op = "mapped" THEN "write" ELSE "refused"
             ELSE "config"

Zac == INSTANCE ZacDevice WITH
  Zones <- Slots,
  kind <- [z \in Slots |-> ZoneKind(z)],
  next <- [z \in Slots |-> IF Appendable(z) THEN Wp(z) ELSE 0],
  data <- [z \in Slots |-> IF Appendable(z) THEN written[z] ELSE {}],
  size <- zone_size,
  barred <- {z \in Slots : Appendable(z) /\ Cond(z) \in {"RO", "OFFLINE"}},
  sound <- WpInRange,
  by <- Stepped

\* With the out-of-policy and research flags clear the write rules implement
\* the host-managed device: smrsim_write_rule_check lets a sequential zone
\* grow only at its pointer, a refused bio changes nothing, and only the
\* configuration ioctls restart zones, all of them when their size changes.
ImplementsZac == Zac!Spec

-----------------------------------------------------------------------------
(* What the repository says of the program and the code does not keep.     *)

\* In the default configuration a write into a sequential zone that does not
\* start at its pointer is rejected (README.md:7, README.md:52).
SeqWritesAtPointer ==
  [][op' = "mapped" /\ wflag = 0 /\ wp_reset_flag = 0 /\ wp_adjust_flag = 0 =>
       \A z \in SeqZones :
         written'[z] \subseteq written[z] \cup Wp(z)..(Wp(z)' - 1)]_vars

=============================================================================
