----------------------- MODULE SmrZones_default_proofs -----------------------
(***************************************************************************)
(* What TLAPS proves of SmrZones when some of the simulator's modes are    *)
(* not used, for every device, zone size and sequence of bios and ioctls:  *)
(*   - with the out-of-policy flags at 0, whatever the research flags do:  *)
(*     SeqPointersInRange, PointersBehindData, BarredZonesKept;            *)
(*   - with the research flags at 0, whatever the out-of-policy flags do:  *)
(*     RefusalsChangeNothing;                                              *)
(*   - in every mode: OneZoneSize, unless an allocation fails, and         *)
(*     LastSeqZoneStays;                                                   *)
(*   - of the default, host-managed device: ConditionsAgree, WritesAppend, *)
(*     and RefinesZac, that it implements ZacDevice.                       *)
(***************************************************************************)
EXTENDS SmrZones_proofs, FiniteSetTheorems

\* The out-of-policy flags are only ever given the value 0.
PoliciesOff == Policies \subseteq {0}

\* So are the research flags, and no zone is given a border-crossing code.
ResearchOff == ResetFlags \subseteq {0} /\ AdjustFlags \subseteq {0}
CrossingOff == CrossCodes \subseteq {"OFF"}

\* MODIFY_ZONECONFIG retypes a zone as one of the two types.
ModifyTyped == \A a \in ModifyArgs : a.z_type \in {"CONV", "SEQ"}

\* The default device: no flag, no change of the zone size that fails, and
\* MODIFY_ZONECONFIG as smrsim_util sends it, with the pointer at 0.
HostManaged ==
  /\ PoliciesOff /\ ResearchOff /\ CrossingOff
  /\ ~AllocMayFail
  /\ ModifyTyped
  /\ \A a \in ModifyArgs : a.z_write_ptr_offset = 0

-----------------------------------------------------------------------------
(* What a write does to one zone.                                          *)

\* A write never changes what type a zone has, nor how long it is.
LEMMA WriteKeepsTypes ==
  ASSUME TypeOK, NEW b \in Bios, MapWrite(b), NEW z \in Slots
  PROVE  /\ zone_status'[z].z_type = zone_status[z].z_type
         /\ zone_status'[z].z_length = zone_status[z].z_length
         /\ num_zones' = num_zones /\ zone_size' = zone_size
<1>0. /\ b.zone \in Slots /\ b.zone + 1 \in Slots /\ b.zone # b.zone + 1
      /\ zone_status \in [Slots -> ZoneRec] /\ zone_status[z] \in ZoneRec
  BY BioFacts DEF TypeOK
<1>1. num_zones' = num_zones /\ zone_size' = zone_size
  BY DEF MapWrite, WriteRefused, WriteRefusedAtBorder, WriteTraced, WriteSplit, WriteSpan,
         WriteRewriteFull, WriteAdvance, Mapped, Refused
<1>2. CASE WriteRefused(b)
  BY <1>1, <1>2 DEF WriteRefused
<1>3. CASE WriteRefusedAtBorder(b) \/ WriteTraced(b)
  BY <1>0, <1>1, <1>3 DEF WriteRefusedAtBorder, WriteTraced, ZoneRec
<1>4. CASE WriteSplit(b)
  BY <1>0, <1>1, <1>4 DEF WriteSplit, ZoneRec
<1>5. CASE WriteSpan(b)
  BY <1>0, <1>1, <1>5 DEF WriteSpan, ZoneRec
<1>6. CASE WriteRewriteFull(b) \/ WriteAdvance(b)
  BY <1>0, <1>1, <1>6 DEF WriteRewriteFull, WriteAdvance, ZoneRec
<1> QED BY <1>2, <1>3, <1>4, <1>5, <1>6 DEF MapWrite

\* So the sequential zones stay the sequential zones.
LEMMA WriteKeepsSeqZones ==
  ASSUME TypeOK, NEW b \in Bios, MapWrite(b)
  PROVE  SeqZones' = SeqZones /\ Configured' = Configured
  BY WriteKeepsTypes DEF SeqZones, Configured, IsSeq

\* With the flag at 0 a write that passes the rules starts at the pointer, or
\* a research flag takes the pointer to where it starts.
LEMMA PassesAtPointer ==
  ASSUME TypeOK, wflag = 0, NEW b \in Bios, Passes(b), IsSeq(b.zone)
  PROVE  StartWp(b) = b.off
  BY DEF Passes, RuleBroken, StartWp, OffPointer

\* Then it advances inside its zone,
LEMMA AdvanceWithin ==
  ASSUME TypeOK, wflag = 0, NEW b \in Bios, WriteAdvance(b), IsSeq(b.zone)
  PROVE  /\ b.off = StartWp(b) /\ End(b) <= zone_size
         /\ zone_status'[b.zone] =
              [zone_status[b.zone] EXCEPT !.z_write_ptr_offset = End(b),
                                          !.z_conds = CondAt(End(b))]
<1>0. /\ b.zone \in Slots /\ b.off \in Nat /\ b.n \in Nat /\ zone_size \in Nat
      /\ zone_status[b.zone] \in ZoneRec
  BY BioFacts DEF TypeOK
<1>1. StartWp(b) = b.off
  BY PassesAtPointer DEF WriteAdvance
<1>2. End(b) <= zone_size
  BY <1>0 DEF WriteAdvance, Within, Crosses, BorderBroken, End
<1>3. StartWp(b) + b.n = End(b)
  BY <1>1 DEF End
<1>4. zone_status'[b.zone] =
        [zone_status[b.zone] EXCEPT !.z_write_ptr_offset = End(b),
                                    !.z_conds = CondAt(End(b))]
  BY <1>0, <1>3 DEF WriteAdvance, TypeOK, ZoneRec
<1> QED BY <1>1, <1>2, <1>4

\* it does not rewrite a full zone, and it spans conventional zones only.
LEMMA SpanConvOnly ==
  ASSUME TypeOK, wflag = 0, NEW b \in Bios, WriteSpan(b), NEW z \in Slots, IsSeq(z)
  PROVE  zone_status'[z] = zone_status[z] /\ z # b.zone /\ z # b.zone + 1
<1>0. /\ b.zone \in Nat /\ z \in Nat /\ EndIdx(b) \in {b.zone + 1, b.zone + 2}
  BY BioFacts DEF EndIdx, Slots
<1>1. /\ IsConv(b.zone)
      /\ \A i \in (b.zone + 1)..EndIdx(b) : IsConv(i)
  <2>1. (IsConv(b.zone) \/ wflag = 1) /\ ~BorderBroken(b)
    BY DEF WriteSpan
  <2>2. IsConv(b.zone)
    BY <2>1
  <2> QED BY <2>1, <2>2 DEF BorderBroken
<1>2. ~IsConv(z)
  BY DEF IsSeq, IsConv
<1>3. z \notin b.zone..EndIdx(b)
  BY <1>0, <1>1, <1>2
<1> QED BY <1>0, <1>3, SpanTable

\* The ways a write reaches a sequential zone while the flag is 0.
LEMMA SeqZoneStep ==
  ASSUME TypeOK, wflag = 0, NEW b \in Bios, MapWrite(b), NEW z \in Slots, IsSeq(z)
  PROVE  \/ zone_status'[z] = zone_status[z]
         \/ /\ WriteRefusedAtBorder(b) /\ z = b.zone
            /\ zone_status'[z] = [zone_status[z] EXCEPT !.z_write_ptr_offset = b.off]
         \/ WriteAdvance(b) /\ z = b.zone
         \/ WriteSplit(b) /\ z \in {b.zone, b.zone + 1}
<1>0. /\ b.zone \in Slots /\ b.zone + 1 \in Slots
      /\ zone_status \in [Slots -> ZoneRec]
  BY BioFacts DEF TypeOK
<1>1. CASE WriteRefused(b)
  BY <1>1 DEF WriteRefused
<1>2. CASE WriteRefusedAtBorder(b)
  <2>1. CASE z = b.zone
    <3>1. StartWp(b) = b.off
      BY <1>2, <2>1, PassesAtPointer DEF WriteRefusedAtBorder
    <3>2. zone_status'[z] = [zone_status[z] EXCEPT !.z_write_ptr_offset = StartWp(b)]
      BY <1>0, <1>2, <2>1 DEF WriteRefusedAtBorder
    <3> QED BY <1>2, <2>1, <3>1, <3>2
  <2>2. CASE z # b.zone
    BY <1>0, <1>2, <2>2 DEF WriteRefusedAtBorder
  <2> QED BY <2>1, <2>2
<1>3. CASE WriteTraced(b)
  <2>1. z # b.zone
    BY <1>3 DEF WriteTraced, Traced, IsSeq, IsConv
  <2> QED BY <1>0, <1>3, <2>1 DEF WriteTraced
<1>4. CASE WriteSplit(b)
  BY <1>0, <1>4, SplitTable
<1>5. CASE WriteSpan(b)
  BY <1>5, SpanConvOnly
<1>6. ~WriteRewriteFull(b)
  BY DEF WriteRewriteFull
<1>7. CASE WriteAdvance(b)
  BY <1>0, <1>7 DEF WriteAdvance
<1> QED BY <1>1, <1>2, <1>3, <1>4, <1>5, <1>6, <1>7 DEF MapWrite

\* A mapped write that moves a pointer leaves it inside the zone, at the start
\* or just behind a sector it covers.
LEMMA SeqPointerStep ==
  ASSUME TypeOK, wflag = 0, NEW b \in Bios, MapWrite(b), NEW z \in Slots, IsSeq(z)
  PROVE  \/ Wp(z)' = Wp(z)
         \/ /\ Wp(z)' <= zone_size
            /\ op' = "mapped" =>
                 Wp(z)' = 0 \/ (Wp(z)' - 1 \in Covers(b, z) /\ Covers(b, z) \subseteq written'[z])
<1>0. /\ b.zone \in Nat /\ b.off \in Nat /\ b.n \in Nat /\ End(b) \in Nat
      /\ zone_size \in Nat \ {0} /\ b.off < zone_size /\ End(b) = b.off + b.n
      /\ b.zone \in Slots /\ (b.n = 0 => b.off = 0)
      /\ zone_status[z] \in ZoneRec
  BY BioFacts DEF TypeOK, End, Bios
<1>1. CASE zone_status'[z] = zone_status[z]
  BY <1>1 DEF Wp
<1>2. CASE /\ WriteRefusedAtBorder(b) /\ z = b.zone
           /\ zone_status'[z] = [zone_status[z] EXCEPT !.z_write_ptr_offset = b.off]
  <2>1. Wp(z)' = b.off /\ op' = "refused"
    BY <1>0, <1>2 DEF Wp, ZoneRec, WriteRefusedAtBorder, Refused
  <2> QED BY <1>0, <2>1
<1>3. CASE WriteAdvance(b) /\ z = b.zone
  <2>1. Wp(z)' = End(b) /\ End(b) <= zone_size
    BY <1>0, <1>3, AdvanceWithin DEF Wp, ZoneRec
  <2>2. Covers(b, z) \subseteq written'[z]
    BY <1>0, <1>3 DEF WriteAdvance, Record
  <2>3. CASE b.n = 0
    BY <1>0, <2>1, <2>3
  <2>4. CASE b.n # 0
    <3>1. End(b) - 1 \in Covers(b, z)
      BY <1>0, <1>3, <2>1, <2>4 DEF Covers
    <3> QED BY <2>1, <2>2, <3>1
  <2> QED BY <2>3, <2>4
<1>4. CASE WriteSplit(b) /\ z \in {b.zone, b.zone + 1}
  <2>1. End(b) > zone_size /\ End(b) <= 2 * zone_size
    BY <1>0, <1>4 DEF WriteSplit, Crosses, Passes, Unreachable
  <2>2. Covers(b, z) \subseteq written'[z]
    BY <1>0, <1>4 DEF WriteSplit, Record
  <2>3. CASE z = b.zone
    <3>1. Wp(z)' = zone_size
      BY <1>4, <2>3, SplitTable DEF Wp
    <3>2. zone_size - 1 \in Covers(b, z)
      BY <1>0, <2>1, <2>3 DEF Covers
    <3> QED BY <1>0, <2>2, <3>1, <3>2
  <2>4. CASE z = b.zone + 1
    <3>1. Wp(z)' = End(b) - zone_size
      BY <1>4, <2>4, SplitTable DEF Wp
    <3>2. End(b) - zone_size - 1 \in Covers(b, z)
      BY <1>0, <2>1, <2>4 DEF Covers
    <3> QED BY <1>0, <2>1, <2>2, <3>1, <3>2
  <2> QED BY <1>4, <2>3, <2>4
<1> QED BY <1>1, <1>2, <1>3, <1>4, SeqZoneStep

-----------------------------------------------------------------------------
(* The out-of-policy flags at 0.                                           *)

\* The flags keep the only value they are given.
LEMMA FlagsOff ==
  ASSUME TypeOK, PoliciesOff
  PROVE  rflag = 0 /\ wflag = 0
  BY DEF TypeOK, PoliciesOff

\* An ioctl that does not fail for memory leaves every sequential zone with
\* its pointer, at 0, or inside the zone as MODIFY_ZONECONFIG checks.
LEMMA IoctlInRange ==
  ASSUME TypeOK, SeqWpInRange, ~AllocMayFail, ZoneIoctl \/ DeviceIoctl
  PROVE  SeqWpInRange'
<1> SUFFICES ASSUME NEW z \in SeqZones'
             PROVE  Wp(z)' <= zone_size'
  BY DEF SeqWpInRange
<1>1. z \in Slots /\ z < num_zones' /\ zone_status'[z].z_type = "SEQ"
  BY DEF SeqZones, Configured, IsSeq
<1>2. ASSUME Wp(z)' = 0, zone_size' \in Nat PROVE Wp(z)' <= zone_size'
  BY <1>2
<1>3. ASSUME /\ zone_status'[z].z_write_ptr_offset = zone_status[z].z_write_ptr_offset
             /\ zone_status'[z].z_type = zone_status[z].z_type
             /\ z < num_zones /\ zone_size' = zone_size
      PROVE  Wp(z)' <= zone_size'
  <2>1. z \in SeqZones
    BY <1>1, <1>3 DEF SeqZones, Configured, IsSeq
  <2> QED BY <1>3, <2>1 DEF SeqWpInRange, Wp
<1>4. ASSUME NEW n \in Nat, NEW size \in Nat, Rebuild(n, size)
      PROVE  Wp(z)' = 0 /\ zone_size' = size
  BY <1>1, <1>4 DEF Rebuild, InitZoneStatus, FreshZone, Zeroed, Wp
<1>5. ASSUME NEW y \in Slots, ResetZonePtr(y) PROVE Wp(z)' <= zone_size'
  <2>1. CASE z = y
    BY <1>1, <1>2, <1>5, <2>1 DEF ResetZonePtr, Wp, TypeOK, ZoneRec
  <2>2. CASE z # y
    BY <1>1, <1>3, <1>5, <2>2 DEF ResetZonePtr, TypeOK
  <2> QED BY <2>1, <2>2
<1>6. ASSUME NEW y \in Slots, NEW a \in ModifyArgs, ModifyZone(y, a)
      PROVE  Wp(z)' <= zone_size'
  <2>1. CASE z = y
    BY <1>1, <1>6, <2>1 DEF ModifyZone, Wp, TypeOK
  <2>2. CASE z # y
    BY <1>1, <1>3, <1>6, <2>2 DEF ModifyZone, TypeOK
  <2> QED BY <2>1, <2>2
<1>7. ASSUME NEW type \in {"CONV", "SEQ"}, NEW l \in ZoneSizes, AddZone(type, l)
      PROVE  Wp(z)' <= zone_size'
  <2>1. CASE z = num_zones
    BY <1>1, <1>2, <1>7, <2>1 DEF AddZone, FreshZone, Wp, TypeOK
  <2>2. CASE z # num_zones
    BY <1>1, <1>3, <1>7, <2>2 DEF AddZone, TypeOK, Slots
  <2> QED BY <2>1, <2>2
<1>8. ASSUME ClearZones PROVE Wp(z)' <= zone_size'
  BY <1>1, <1>8 DEF ClearZones, Slots
<1>9. ASSUME NEW s \in ZoneSizes, SetZoneSize(s) PROVE Wp(z)' <= zone_size'
  BY <1>2, <1>4, <1>9, NumZonesBound DEF SetZoneSize
<1>10. \A s \in ZoneSizes : ~SetZoneSizeNoMem(s)
  BY DEF SetZoneSizeNoMem
<1>11. ASSUME ResetZoneConfig \/ ResetDefaultZones PROVE Wp(z)' <= zone_size'
  BY <1>2, <1>4, <1>11, NumZonesBound, SizesAssumption DEF ResetZoneConfig, ResetDefaultZones
<1>12. ASSUME NEW c \in CrossCodes, NEW y \in Slots, BorderAcross(c, y)
       PROVE  Wp(z)' <= zone_size'
  <2>1. /\ zone_status'[z].z_write_ptr_offset = zone_status[z].z_write_ptr_offset
        /\ zone_status'[z].z_type = zone_status[z].z_type
    BY <1>1, <1>12 DEF BorderAcross, TypeOK, ZoneRec
  <2> QED BY <1>1, <1>3, <1>12, <2>1 DEF BorderAcross, TypeOK
<1>13. ASSUME DeviceIoctl, ~ResetDefaultZones PROVE Wp(z)' <= zone_size'
  <2>1. UNCHANGED table
    BY <1>13
    DEF DeviceIoctl, ResetDevConfig, ResetDefaultDev, ResetDefaultRt, SetReadPolicy,
        SetWritePolicy, SetWpReset, SetWpAdjust
  <2> QED BY <1>1, <1>3, <2>1 DEF table
<1> QED
  BY <1>5, <1>6, <1>7, <1>8, <1>9, <1>10, <1>11, <1>12, <1>13 DEF ZoneIoctl

\* No sequence of writes and configuration takes a pointer past its zone.
LEMMA StepInRange ==
  ASSUME PoliciesOff, ~AllocMayFail
  PROVE  TypeOK /\ SeqWpInRange /\ [Next]_vars => SeqWpInRange'
<1> SUFFICES ASSUME TypeOK, SeqWpInRange, [Next]_vars PROVE SeqWpInRange'
  OBVIOUS
<1>1. ASSUME NEW b \in Bios, MapWrite(b) PROVE SeqWpInRange'
  <2> SUFFICES ASSUME NEW z \in SeqZones PROVE Wp(z)' <= zone_size'
    BY <1>1, WriteKeepsSeqZones DEF SeqWpInRange
  <2>1. z \in Slots /\ IsSeq(z) /\ Wp(z) <= zone_size
    BY DEF SeqZones, Configured, SeqWpInRange
  <2>2. zone_size' = zone_size
    BY <1>1, <2>1, WriteKeepsTypes
  <2>3. Wp(z)' = Wp(z) \/ Wp(z)' <= zone_size
    BY <1>1, <2>1, FlagsOff, SeqPointerStep
  <2> QED BY <2>1, <2>2, <2>3
<1>2. CASE UNCHANGED <<num_zones, zone_size, zone_status>>
  BY <1>2 DEF SeqWpInRange, SeqZones, Configured, IsSeq, Wp
<1>3. ASSUME NEW b \in Bios, MapRead(b) PROVE SeqWpInRange'
  BY <1>2, <1>3 DEF MapRead, Mapped, Refused
<1>4. UNCHANGED vars => SeqWpInRange'
  BY <1>2 DEF vars
<1> QED BY <1>1, <1>3, <1>4, IoctlInRange DEF Next, Bio

\* While the out-of-policy flags are 0 and no zone size change runs out of
\* memory, the pointer of a sequential zone never leaves the zone, also when
\* the research flags of smrsim_write_rule_check move it or split a write.
THEOREM SeqPointersInRange ==
  ASSUME PoliciesOff, ~AllocMayFail
  PROVE  Spec => []SeqWpInRange
<1>1. Init => SeqWpInRange
  BY SizesAssumption
  DEF Init, InitZoneStatus, FreshZone, Zeroed, Wp, SeqWpInRange, SeqZones, Configured
<1> QED BY InitType, StepType, StepInRange, <1>1, PTL DEF Spec

\* While the out-of-policy flags are 0 a mapped bio leaves the pointer of a
\* sequential zone alone, at the start, or just behind a written sector.
THEOREM PointersBehindData ==
  ASSUME PoliciesOff
  PROVE  Spec => PointerFollowsData
<1>1. TypeOK /\ [Next]_vars =>
        [op' = "mapped" =>
           \A z \in SeqZones :
             Wp(z)' # Wp(z) => Wp(z)' = 0 \/ (Wp(z)' - 1) \in written'[z]]_vars
  <2> SUFFICES ASSUME TypeOK, Next, op' = "mapped", NEW z \in SeqZones, Wp(z)' # Wp(z)
               PROVE  Wp(z)' = 0 \/ (Wp(z)' - 1) \in written'[z]
    OBVIOUS
  <2>1. z \in Slots /\ IsSeq(z)
    BY DEF SeqZones, Configured
  <2>2. ASSUME NEW b \in Bios, MapWrite(b)
        PROVE  Wp(z)' = 0 \/ (Wp(z)' - 1) \in written'[z]
    BY <2>1, <2>2, FlagsOff, SeqPointerStep
  <2>3. ~\E b \in Bios : MapRead(b)
    BY DEF MapRead, Wp
  <2>4. ~ZoneIoctl /\ ~DeviceIoctl
    BY DEF ZoneIoctl, DeviceIoctl, Idle, ResetZonePtr, ModifyZone, AddZone, ClearZones,
           SetZoneSize, SetZoneSizeNoMem, ResetZoneConfig, BorderAcross, ResetDevConfig,
           ResetDefaultZones, ResetDefaultDev, ResetDefaultRt, SetReadPolicy,
           SetWritePolicy, SetWpReset, SetWpAdjust
  <2> QED BY <2>2, <2>3, <2>4 DEF Next, Bio
<1> QED BY <1>1, InitType, StepType, PTL DEF Spec, PointerFollowsData

-----------------------------------------------------------------------------
(* Properties of the ioctls alone, and of bios the simulator refuses.      *)

\* The flags of the research modes keep the only value they are given, and
\* no zone carries a border-crossing code.
LEMMA ModesOff ==
  ASSUME TypeOK
  PROVE  /\ ResearchOff => wp_reset_flag = 0 /\ wp_adjust_flag = 0
         /\ CrossingOff => \A z \in Slots : zone_status[z].z_flag = "OFF"
  BY DEF TypeOK, ResearchOff, CrossingOff, ZoneRec, FlagCodes

\* So nothing moves a pointer before a write is checked, and no write splits.
LEMMA NoModes ==
  ASSUME TypeOK, NEW b \in Bios
  PROVE  /\ ResearchOff => StartWp(b) = Wp(b.zone) /\ ~ByReset(b) /\ ~ByAdjust(b)
         /\ CrossingOff => ~WriteSplit(b)
<1>1. b.zone \in Slots
  BY BioFacts
<1> QED
  BY <1>1, ModesOff DEF StartWp, ByReset, ByAdjust, WriteSplit, MaySplit

\* Every configured zone keeps the current size, whatever writes, clears,
\* additions and size changes do, as long as no allocation fails.
LEMMA StepUniform ==
  ASSUME ~AllocMayFail
  PROVE  TypeOK /\ UniformZones /\ [Next]_vars => UniformZones'
<1> SUFFICES ASSUME TypeOK, UniformZones, [Next]_vars, NEW z \in Configured'
             PROVE  zone_status'[z].z_length = zone_size'
  BY DEF UniformZones
<1>0. /\ z \in Slots /\ z < num_zones' /\ z \in Nat /\ num_zones \in Nat
      /\ zone_status \in [Slots -> ZoneRec]
  BY SizesAssumption DEF Configured, Slots, TypeOK
<1>1. ASSUME z < num_zones, zone_status'[z].z_length = zone_status[z].z_length,
             zone_size' = zone_size
      PROVE  zone_status'[z].z_length = zone_size'
  BY <1>0, <1>1 DEF UniformZones, Configured
<1>2. ASSUME NEW b \in Bios, MapWrite(b) PROVE zone_status'[z].z_length = zone_size'
  BY <1>0, <1>1, <1>2, WriteKeepsTypes
<1>3. ASSUME NEW b \in Bios, MapRead(b) PROVE zone_status'[z].z_length = zone_size'
  BY <1>0, <1>1, <1>3 DEF MapRead, Mapped, Refused
<1>4. ASSUME NEW n \in Nat, NEW size, Rebuild(n, size)
      PROVE  zone_status'[z].z_length = zone_size'
  BY <1>0, <1>4 DEF Rebuild, InitZoneStatus, FreshZone
<1>5. ASSUME NEW y \in Slots, ResetZonePtr(y) PROVE zone_status'[z].z_length = zone_size'
  <2>1. zone_status'[z].z_length = zone_status[z].z_length
    BY <1>0, <1>5 DEF ResetZonePtr, ZoneRec
  <2> QED BY <1>0, <1>1, <1>5, <2>1 DEF ResetZonePtr
<1>6. ASSUME NEW y \in Slots, NEW a \in ModifyArgs, ModifyZone(y, a)
      PROVE  zone_status'[z].z_length = zone_size'
  <2>1. zone_status'[z].z_length = zone_status[z].z_length
    BY <1>0, <1>6 DEF ModifyZone, ZoneRec
  <2> QED BY <1>0, <1>1, <1>6, <2>1 DEF ModifyZone
<1>7. ASSUME NEW type \in {"CONV", "SEQ"}, NEW l \in ZoneSizes, AddZone(type, l)
      PROVE  zone_status'[z].z_length = zone_size'
  <2>1. CASE z = num_zones
    BY <1>0, <1>7, <2>1 DEF AddZone, Addable, FreshZone
  <2>2. CASE z # num_zones
    BY <1>0, <1>1, <1>7, <2>2 DEF AddZone
  <2> QED BY <2>1, <2>2
<1>8. ASSUME ClearZones PROVE zone_status'[z].z_length = zone_size'
  BY <1>0, <1>8 DEF ClearZones
<1>9. ASSUME NEW s \in ZoneSizes, SetZoneSize(s) \/ SetZoneSizeNoMem(s)
      PROVE  zone_status'[z].z_length = zone_size'
  BY <1>4, <1>9, NumZonesBound DEF SetZoneSize, SetZoneSizeNoMem
<1>10. ASSUME ResetZoneConfig \/ ResetDefaultZones
       PROVE  zone_status'[z].z_length = zone_size'
  BY <1>4, <1>10, NumZonesBound DEF ResetZoneConfig, ResetDefaultZones
<1>11. ASSUME NEW c \in CrossCodes, NEW y \in Slots, BorderAcross(c, y)
       PROVE  zone_status'[z].z_length = zone_size'
  <2>1. zone_status'[z].z_length = zone_status[z].z_length
    BY <1>0, <1>11 DEF BorderAcross, ZoneRec
  <2> QED BY <1>0, <1>1, <1>11, <2>1 DEF BorderAcross
<1>12. ASSUME UNCHANGED table PROVE zone_status'[z].z_length = zone_size'
  BY <1>0, <1>1, <1>12 DEF table
<1>13. ASSUME DeviceIoctl, ~ResetDefaultZones PROVE UNCHANGED table
  BY <1>13
  DEF DeviceIoctl, ResetDevConfig, ResetDefaultDev, ResetDefaultRt, SetReadPolicy,
      SetWritePolicy, SetWpReset, SetWpAdjust
<1>14. ASSUME UNCHANGED vars PROVE UNCHANGED table
  BY <1>14 DEF vars, table
<1> QED
  BY <1>2, <1>3, <1>5, <1>6, <1>7, <1>8, <1>9, <1>10, <1>11, <1>12, <1>13, <1>14
  DEF Next, Bio, ZoneIoctl

\* While no zone size change runs out of memory every configured zone has the
\* size smrsim_set_size_zone_default last set, in every mode.
THEOREM OneZoneSize ==
  ASSUME ~AllocMayFail
  PROVE  Spec => []UniformZones
<1>1. Init => UniformZones
  BY NumZonesBound, SizesAssumption
  DEF Init, UniformZones, Configured, InitZoneStatus, FreshZone, Slots
<1> QED BY InitType, StepType, StepUniform, <1>1, PTL DEF Spec

\* An ioctl is told apart from a bio by what it reports.
LEMMA IoctlReports ==
  ASSUME ZoneIoctl \/ DeviceIoctl
  PROVE  /\ op' \in {"admin", "modify"}
         /\ op' = "modify" => \E z \in Slots, a \in ModifyArgs : ModifyZone(z, a)
  BY DEF ZoneIoctl, DeviceIoctl, Idle, ResetZonePtr, ModifyZone, AddZone, ClearZones,
         SetZoneSize, SetZoneSizeNoMem, ResetZoneConfig, BorderAcross, ResetDevConfig,
         ResetDefaultZones, ResetDefaultDev, ResetDefaultRt, SetReadPolicy,
         SetWritePolicy, SetWpReset, SetWpAdjust

\* So is a write that is mapped from one that is refused.
LEMMA WriteReports ==
  ASSUME NEW b \in Bios, MapWrite(b)
  PROVE  /\ WriteRefused(b) \/ WriteRefusedAtBorder(b) => op' = "refused"
         /\ WriteTraced(b) \/ WriteSplit(b) \/ WriteSpan(b) => op' = "mapped"
         /\ WriteRewriteFull(b) \/ WriteAdvance(b) => op' = "mapped"
<1>1. WriteRefused(b) \/ WriteRefusedAtBorder(b) => op' = "refused"
  BY DEF WriteRefused, WriteRefusedAtBorder, Refused
<1>2. WriteTraced(b) \/ WriteSplit(b) \/ WriteSpan(b) => op' = "mapped"
  BY DEF WriteTraced, WriteSplit, WriteSpan, Mapped
<1>3. WriteRewriteFull(b) \/ WriteAdvance(b) => op' = "mapped"
  BY DEF WriteRewriteFull, WriteAdvance, Mapped
<1> QED BY <1>1, <1>2, <1>3

\* A bio refused at the border finds the pointer where it was.
LEMMA RefusedKeeps ==
  ASSUME TypeOK, ResearchOff, NEW b \in Bios, WriteRefused(b) \/ WriteRefusedAtBorder(b)
  PROVE  UNCHANGED <<num_zones, zone_size, zone_status, written>>
<1>0. /\ b.zone \in Slots /\ zone_status \in [Slots -> ZoneRec]
      /\ written \in [Slots -> SUBSET Nat] /\ zone_status[b.zone] \in ZoneRec
  BY BioFacts DEF TypeOK
<1>1. CASE WriteRefused(b)
  BY <1>1 DEF WriteRefused, Refused
<1>2. CASE WriteRefusedAtBorder(b)
  <2>1. StartWp(b) = zone_status[b.zone].z_write_ptr_offset /\ ~ByReset(b)
    BY NoModes DEF Wp
  <2>2. [zone_status[b.zone] EXCEPT !.z_write_ptr_offset = StartWp(b)] = zone_status[b.zone]
    BY <1>0, <2>1 DEF ZoneRec
  <2>3. zone_status' = zone_status
    BY <1>0, <1>2, <2>2 DEF WriteRefusedAtBorder
  <2>4. written' = written
    BY <1>0, <1>2, <2>1 DEF WriteRefusedAtBorder
  <2> QED BY <1>2, <2>3, <2>4 DEF WriteRefusedAtBorder, Refused
<1> QED BY <1>1, <1>2

\* While the research flags are 0 a bio that smrsim_map refuses, for whatever
\* reason and in whatever out-of-policy mode, changes no zone.
THEOREM RefusalsChangeNothing ==
  ASSUME ResearchOff
  PROVE  Spec => RefusedLeavesZones
<1>1. TypeOK /\ [Next]_vars =>
        [op' = "refused" => UNCHANGED <<zone_status, written>>]_vars
  <2> SUFFICES ASSUME TypeOK, Next, op' = "refused"
               PROVE  UNCHANGED <<zone_status, written>>
    OBVIOUS
  <2>1. ASSUME NEW b \in Bios, MapWrite(b) PROVE UNCHANGED <<zone_status, written>>
    BY <2>1, WriteReports, RefusedKeeps DEF MapWrite
  <2>2. ASSUME NEW b \in Bios, MapRead(b) PROVE UNCHANGED <<zone_status, written>>
    BY <2>2 DEF MapRead
  <2> QED BY <2>1, <2>2, IoctlReports DEF Next, Bio
<1> QED BY <1>1, InitType, StepType, PTL DEF Spec, RefusedLeavesZones

\* While the out-of-policy flags are 0 and no border-crossing code is given,
\* a read-only or offline sequential zone takes no write, also when the write
\* starts in the zone before it and also under the research flags.
THEOREM BarredZonesKept ==
  ASSUME PoliciesOff, CrossingOff
  PROVE  Spec => BarredSeqZoneKept
<1>1. TypeOK /\ [Next]_vars =>
        [op' = "mapped" =>
           \A z \in SeqZones :
             Cond(z) \in {"RO", "OFFLINE"} => zone_status'[z] = zone_status[z]]_vars
  <2> SUFFICES ASSUME TypeOK, Next, op' = "mapped",
                      NEW z \in SeqZones, Cond(z) \in {"RO", "OFFLINE"}
               PROVE  zone_status'[z] = zone_status[z]
    OBVIOUS
  <2>1. z \in Slots /\ IsSeq(z)
    BY DEF SeqZones, Configured
  <2>2. ASSUME NEW b \in Bios, MapWrite(b) PROVE zone_status'[z] = zone_status[z]
    <3>1. ~(WriteAdvance(b) /\ z = b.zone)
      BY FlagsOff DEF WriteAdvance, Passes, Unreachable, Barred
    <3>2. ~WriteSplit(b) /\ ~WriteRefusedAtBorder(b)
      BY <2>2, NoModes, WriteReports DEF WriteRefusedAtBorder, Refused
    <3> QED BY <2>1, <2>2, <3>1, <3>2, FlagsOff, SeqZoneStep
  <2>3. ASSUME NEW b \in Bios, MapRead(b) PROVE zone_status'[z] = zone_status[z]
    BY <2>3 DEF MapRead
  <2> QED BY <2>2, <2>3, IoctlReports DEF Next, Bio
<1> QED BY <1>1, InitType, StepType, PTL DEF Spec, BarredSeqZoneKept

\* If one sequential zone is not the only one there is another.
LEMMA AnotherSeqZone ==
  ASSUME TypeOK, NEW z \in SeqZones, Cardinality(SeqZones) > 1
  PROVE  \E y \in SeqZones : y # z
<1>1. SUFFICES ASSUME \A y \in SeqZones : y = z PROVE FALSE
  OBVIOUS
<1>2. SeqZones = {z}
  BY <1>1
<1> QED BY <1>2, FS_Singleton

\* smrsim_modify_zone_config never takes the last sequential zone away, in any
\* mode, as long as the type it is given is one of the two the host may ask
\* for: its check of the last zone looks only for CONVENTIONAL.
THEOREM LastSeqZoneStays ==
  ASSUME ModifyTyped
  PROVE  Spec => LastSeqZoneKept
<1>1. TypeOK /\ [Next]_vars =>
        [op' = "modify" /\ SeqZones # {} => SeqZones' # {}]_vars
  <2> SUFFICES ASSUME TypeOK, Next, op' = "modify", SeqZones # {}
               PROVE  SeqZones' # {}
    OBVIOUS
  <2>1. PICK z \in Slots, a \in ModifyArgs : ModifyZone(z, a)
    <3>1. ~Bio
      BY WriteReports DEF Bio, MapWrite, MapRead, Mapped, Refused
    <3> QED BY <3>1, IoctlReports DEF Next
  <2>2. /\ zone_status \in [Slots -> ZoneRec] /\ num_zones' = num_zones
        /\ ~LosesLastSeq(z, a) /\ z < num_zones
        /\ zone_status'[z].z_type = a.z_type
        /\ \A y \in Slots \ {z} : zone_status'[y] = zone_status[y]
    BY <2>1 DEF ModifyZone, TypeOK
  <2>3. \A y \in SeqZones \ {z} : y \in SeqZones'
    BY <2>2 DEF SeqZones, Configured, IsSeq
  <2>4. CASE a.z_type = "SEQ"
    BY <2>2, <2>4 DEF SeqZones, Configured, IsSeq
  <2>5. CASE a.z_type = "CONV" /\ IsSeq(z)
    <3>1. z \in SeqZones
      BY <2>2, <2>5 DEF SeqZones, Configured
    <3>2. SeqZones \subseteq 0..(MaxZones + 1)
      BY DEF SeqZones, Configured, Slots
    <3>3. IsFiniteSet(0..(MaxZones + 1))
      BY FS_Interval, SizesAssumption
    <3>4. Cardinality(SeqZones) \in Nat
      BY <3>2, <3>3, FS_Subset, FS_CardinalityType
    <3>5. Cardinality(SeqZones) > 1
      BY <2>2, <2>5, <3>4 DEF LosesLastSeq
    <3> QED BY <2>3, <3>1, <3>5, AnotherSeqZone
  <2>6. CASE ~IsSeq(z)
    <3>1. z \notin SeqZones
      BY <2>6 DEF SeqZones
    <3> QED BY <2>3, <3>1
  <2> QED BY <2>4, <2>5, <2>6 DEF ModifyTyped
<1> QED BY <1>1, InitType, StepType, PTL DEF Spec, LastSeqZoneKept

-----------------------------------------------------------------------------
(* The default device: what an ioctl does to one zone.                     *)

\* The zone is as it was, its border-crossing code aside,
SameZone(z) ==
  /\ z < num_zones' <=> z < num_zones
  /\ zone_size' = zone_size
  /\ zone_status'[z].z_type = zone_status[z].z_type
  /\ zone_status'[z].z_conds = zone_status[z].z_conds
  /\ zone_status'[z].z_write_ptr_offset = zone_status[z].z_write_ptr_offset
  /\ written'[z] = written[z]

\* or it starts anew, if it is there at all.
AnewZone(z) ==
  z < num_zones' =>
    /\ zone_status'[z].z_write_ptr_offset = 0
    /\ written'[z] = {}
    /\ \/ zone_status'[z].z_type \in {"CONV", "SEQ"}
       \/ z < num_zones /\ zone_status'[z].z_type = zone_status[z].z_type

\* Every ioctl does the one or the other to every zone.
LEMMA IoctlZone ==
  ASSUME TypeOK, HostManaged, ZoneIoctl \/ DeviceIoctl, NEW z \in Slots
  PROVE  SameZone(z) \/ AnewZone(z)
<1>0. /\ z \in Nat /\ num_zones \in Nat /\ zone_status \in [Slots -> ZoneRec]
      /\ written \in [Slots -> SUBSET Nat] /\ zone_status[z] \in ZoneRec
  BY SizesAssumption DEF TypeOK, Slots
<1>1. ASSUME UNCHANGED table PROVE SameZone(z)
  BY <1>1 DEF table, SameZone
<1>2. ASSUME NEW n \in Nat, NEW size, Rebuild(n, size) PROVE AnewZone(z)
  BY <1>0, <1>2 DEF Rebuild, InitZoneStatus, FreshZone, AnewZone
<1>3. ASSUME NEW y \in Slots, ResetZonePtr(y) PROVE SameZone(z) \/ AnewZone(z)
  <2>1. CASE z = y
    BY <1>0, <1>3, <2>1 DEF ResetZonePtr, AnewZone, ZoneRec
  <2>2. CASE z # y
    BY <1>0, <1>3, <2>2 DEF ResetZonePtr, SameZone
  <2> QED BY <2>1, <2>2
<1>4. ASSUME NEW y \in Slots, NEW a \in ModifyArgs, ModifyZone(y, a)
      PROVE  SameZone(z) \/ AnewZone(z)
  <2>0. a.z_type \in {"CONV", "SEQ"} /\ a.z_write_ptr_offset = 0
    BY DEF HostManaged, ModifyTyped
  <2>1. CASE z = y
    BY <1>0, <1>4, <2>0, <2>1 DEF ModifyZone, AnewZone
  <2>2. CASE z # y
    BY <1>0, <1>4, <2>2 DEF ModifyZone, SameZone
  <2> QED BY <2>1, <2>2
<1>5. ASSUME NEW type \in {"CONV", "SEQ"}, NEW l \in ZoneSizes, AddZone(type, l)
      PROVE  SameZone(z) \/ AnewZone(z)
  <2>1. CASE z = num_zones
    BY <1>0, <1>5, <2>1 DEF AddZone, FreshZone, AnewZone
  <2>2. CASE z # num_zones
    BY <1>0, <1>5, <2>2 DEF AddZone, SameZone
  <2> QED BY <2>1, <2>2
<1>6. ASSUME ClearZones PROVE AnewZone(z)
  BY <1>0, <1>6 DEF ClearZones, AnewZone
<1>7. ASSUME NEW s \in ZoneSizes, SetZoneSize(s) \/ SetZoneSizeNoMem(s) PROVE AnewZone(z)
  BY <1>2, <1>7, NumZonesBound DEF SetZoneSize, SetZoneSizeNoMem, HostManaged
<1>8. ASSUME ResetZoneConfig \/ ResetDefaultZones PROVE AnewZone(z)
  BY <1>2, <1>8, NumZonesBound DEF ResetZoneConfig, ResetDefaultZones
<1>9. ASSUME NEW c \in CrossCodes, NEW y \in Slots, BorderAcross(c, y) PROVE SameZone(z)
  <2>1. \/ zone_status'[z] = [zone_status[z] EXCEPT !.z_flag = c]
        \/ zone_status'[z] = zone_status[z]
    BY <1>9 DEF BorderAcross
  <2> QED BY <1>0, <1>9, <2>1 DEF BorderAcross, SameZone, ZoneRec
<1>10. ASSUME DeviceIoctl, ~ResetDefaultZones PROVE UNCHANGED table
  BY <1>10
  DEF DeviceIoctl, ResetDevConfig, ResetDefaultDev, ResetDefaultRt, SetReadPolicy,
      SetWritePolicy, SetWpReset, SetWpAdjust
<1> QED
  BY <1>1, <1>3, <1>4, <1>5, <1>6, <1>7, <1>8, <1>9, <1>10 DEF ZoneIoctl

-----------------------------------------------------------------------------
(* The default device: the invariant, inductive.                           *)

\* Every configured zone has one of the two types: without it a write into a
\* zone of neither type would pass the border check and reach the next zone.
TypedZones == \A z \in Configured : IsSeq(z) \/ IsConv(z)

HmInv == TypeOK /\ TypedZones /\ SeqWpInRange /\ CondAgrees

\* A bio leaves a sequential zone alone or advances its pointer, with the
\* condition that goes with it.
LEMMA HmWrite ==
  ASSUME TypeOK, HostManaged, NEW b \in Bios, MapWrite(b), NEW z \in Slots, IsSeq(z)
  PROVE  zone_status'[z] = zone_status[z] \/ (WriteAdvance(b) /\ z = b.zone)
<1>1. ~WriteSplit(b)
  BY NoModes DEF HostManaged
<1>2. WriteRefusedAtBorder(b) => zone_status'[z] = zone_status[z]
  BY RefusedKeeps DEF HostManaged
<1> QED BY <1>1, <1>2, FlagsOff, SeqZoneStep DEF HostManaged

\* Every step keeps condition and pointer in agreement.
LEMMA StepConds ==
  ASSUME HostManaged
  PROVE  TypeOK /\ CondAgrees /\ [Next]_vars => CondAgrees'
<1> DEFINE Fits(z) == /\ Wp(z)' = zone_size' => Cond(z)' = "FULL"
                      /\ Wp(z)' > 0 => Cond(z)' \in {"CLOSED", "FULL"}
                      /\ Cond(z)' = "FULL" => Wp(z)' \in {0, zone_size'}
<1> SUFFICES ASSUME TypeOK, CondAgrees, [Next]_vars, NEW z \in SeqZones'
             PROVE  Fits(z)
  BY DEF CondAgrees
<1>0. /\ z \in Slots /\ z < num_zones' /\ zone_status'[z].z_type = "SEQ"
      /\ TypeOK' /\ zone_status[z] \in ZoneRec
  BY StepType DEF SeqZones, Configured, IsSeq, TypeOK
<1>1. ASSUME SameZone(z) PROVE Fits(z)
  <2>1. z \in SeqZones
    BY <1>0, <1>1 DEF SameZone, SeqZones, Configured, IsSeq
  <2> QED BY <1>1, <2>1 DEF SameZone, CondAgrees, Wp, Cond
<1>2. ASSUME AnewZone(z) PROVE Fits(z)
  BY <1>0, <1>2 DEF AnewZone, Wp, TypeOK
<1>3. ASSUME NEW b \in Bios, MapWrite(b) PROVE Fits(z)
  <2>1. z \in SeqZones /\ IsSeq(z) /\ zone_size' = zone_size
    BY <1>0, <1>3, WriteKeepsSeqZones, WriteKeepsTypes DEF IsSeq
  <2>2. CASE zone_status'[z] = zone_status[z]
    BY <2>1, <2>2 DEF CondAgrees, Wp, Cond
  <2>3. CASE WriteAdvance(b) /\ z = b.zone
    <3>1. Wp(z)' = End(b) /\ Cond(z)' = CondAt(End(b)) /\ End(b) \in Nat
      BY <1>0, <2>1, <2>3, FlagsOff, AdvanceWithin, BioFacts
      DEF Wp, Cond, ZoneRec, HostManaged
    <3> QED BY <2>1, <3>1 DEF CondAt
  <2> QED BY <1>0, <1>3, <2>1, <2>2, <2>3, HmWrite
<1>4. ASSUME NEW b \in Bios, MapRead(b) PROVE SameZone(z)
  BY <1>4 DEF MapRead, Mapped, Refused, SameZone
<1>5. ASSUME UNCHANGED vars PROVE SameZone(z)
  BY <1>5 DEF vars, SameZone
<1> HIDE DEF Fits
<1> QED BY <1>0, <1>1, <1>2, <1>3, <1>4, <1>5, IoctlZone DEF Next, Bio

\* Every step leaves the configured zones with one of the two types.
LEMMA StepTyped ==
  ASSUME HostManaged
  PROVE  TypeOK /\ TypedZones /\ [Next]_vars => TypedZones'
<1> SUFFICES ASSUME TypeOK, TypedZones, [Next]_vars, NEW z \in Configured'
             PROVE  zone_status'[z].z_type \in {"CONV", "SEQ"}
  BY DEF TypedZones, IsSeq, IsConv
<1>0. z \in Slots /\ z < num_zones'
  BY DEF Configured
<1>1. z < num_zones => zone_status[z].z_type \in {"CONV", "SEQ"}
  BY <1>0 DEF TypedZones, Configured, IsSeq, IsConv
<1>2. ASSUME NEW b \in Bios, MapWrite(b) PROVE zone_status'[z].z_type \in {"CONV", "SEQ"}
  BY <1>0, <1>1, <1>2, WriteKeepsTypes
<1>3. ASSUME NEW b \in Bios, MapRead(b) PROVE SameZone(z)
  BY <1>3 DEF MapRead, Mapped, Refused, SameZone
<1>4. ASSUME UNCHANGED vars PROVE SameZone(z)
  BY <1>4 DEF vars, SameZone
<1>5. SameZone(z) \/ AnewZone(z) => zone_status'[z].z_type \in {"CONV", "SEQ"}
  BY <1>0, <1>1 DEF SameZone, AnewZone
<1> QED BY <1>0, <1>2, <1>3, <1>4, <1>5, IoctlZone DEF Next, Bio

\* A new device satisfies all of it.
LEMMA HmInit == Init => HmInv
<1> SUFFICES ASSUME Init PROVE TypedZones /\ SeqWpInRange /\ CondAgrees
  BY InitType DEF HmInv
<1>1. ASSUME NEW z \in Configured
      PROVE  Wp(z) = 0 /\ Cond(z) # "FULL" /\ (IsSeq(z) \/ IsConv(z))
  BY <1>1, NumZonesBound, SizesAssumption
  DEF Init, InitZoneStatus, FreshZone, Configured, Slots, Wp, Cond, IsSeq, IsConv
<1>2. zone_size \in Nat \ {0} /\ SeqZones \subseteq Configured
  BY SizesAssumption DEF Init, SeqZones
<1> QED BY <1>1, <1>2 DEF TypedZones, SeqWpInRange, CondAgrees

\* HmInv is inductive on the default device.
LEMMA HmStep ==
  ASSUME HostManaged
  PROVE  HmInv /\ [Next]_vars => HmInv'
  BY StepType, StepTyped, StepInRange, StepConds DEF HmInv, HostManaged

\* On the default device the condition a zone report shows agrees with the
\* pointer writes are checked against, after any writes, resets, retypes and
\* size changes.
THEOREM ConditionsAgree ==
  ASSUME HostManaged
  PROVE  Spec => []CondAgrees
<1>1. HmInv => CondAgrees
  BY DEF HmInv
<1> QED BY <1>1, HmInit, HmStep, PTL DEF Spec

-----------------------------------------------------------------------------
(* The default device: writes append.                                      *)

\* A mapped write restarts nothing: a sequential zone gains what it covers.
LEMMA HmRecord ==
  ASSUME TypeOK, HostManaged, NEW b \in Bios, MapWrite(b), op' = "mapped",
         NEW z \in Slots, IsSeq(z)
  PROVE  /\ Passes(b) /\ b.zone \in Configured
         /\ written'[z] = written[z] \cup Covers(b, z)
<1>1. Restarted(b) = {} /\ ~WriteSplit(b)
  BY NoModes DEF Restarted, HostManaged
<1>2. Passes(b) /\ Record(b, {})
  BY <1>1, WriteReports DEF MapWrite, WriteTraced, WriteSpan, WriteRewriteFull, WriteAdvance
<1>3. b.zone \in Configured
  BY <1>2, BioFacts DEF Passes, Unreachable, Configured, TypeOK
<1> QED BY <1>2, <1>3, RecordKeeps

\* The zone a write starts in, when it is sequential, is advanced from where
\* the write starts to where it ends.
LEMMA HmAdvance ==
  ASSUME TypeOK, HostManaged, NEW b \in Bios, MapWrite(b), op' = "mapped", IsSeq(b.zone)
  PROVE  /\ WriteAdvance(b)
         /\ b.off = Wp(b.zone) /\ End(b) <= zone_size
         /\ Wp(b.zone)' = End(b) /\ Cond(b.zone)' = CondAt(End(b))
<1>0. b.zone \in Slots /\ zone_status[b.zone] \in ZoneRec /\ wflag = 0
  BY BioFacts, FlagsOff DEF TypeOK, HostManaged
<1>1. ~WriteTraced(b) /\ ~WriteRewriteFull(b)
  BY <1>0 DEF WriteTraced, Traced, IsSeq, IsConv, WriteRewriteFull
<1>2. ~WriteSpan(b) /\ ~WriteSplit(b)
  BY <1>0, SpanConvOnly, NoModes DEF HostManaged
<1>3. WriteAdvance(b)
  BY <1>1, <1>2, WriteReports DEF MapWrite
<1>4. b.off = Wp(b.zone)
  BY <1>0, <1>3, AdvanceWithin, NoModes DEF HostManaged
<1> QED BY <1>0, <1>3, <1>4, AdvanceWithin DEF Wp, Cond, ZoneRec

\* A write does not reach the sequential zone behind the one it starts in, as
\* long as no pointer of a conventional zone has overrun its end.
LEMMA HmStopsShort ==
  ASSUME TypeOK, TypedZones, WpInRange, HostManaged,
         NEW b \in Bios, MapWrite(b), op' = "mapped", NEW z \in Slots, IsSeq(z), z # b.zone
  PROVE  Covers(b, z) = {}
<1>0. /\ b.zone \in Slots /\ End(b) \in Nat /\ zone_size \in Nat
      /\ wflag = 0 /\ b.zone \in Configured
      /\ Wp(b.zone) \in Nat
  BY BioFacts, FlagsOff, HmRecord DEF TypeOK, HostManaged, ZoneRec, Wp
<1>1. SUFFICES ASSUME z = b.zone + 1 PROVE End(b) <= zone_size
  BY <1>0 DEF Covers
<1>2. CASE IsSeq(b.zone)
  BY <1>2, HmAdvance
<1>3. CASE IsConv(b.zone)
  <2>1. ~WriteSpan(b) /\ ~WriteSplit(b) /\ ~WriteRewriteFull(b)
    BY <1>0, <1>1, SpanConvOnly, NoModes DEF HostManaged, WriteRewriteFull
  <2>2. CASE WriteTraced(b)
    <3>1. Wp(b.zone) <= zone_size
      BY <1>0 DEF WpInRange
    <3> QED BY <1>0, <2>2, <3>1 DEF WriteTraced, Traced
  <2>3. CASE WriteAdvance(b)
    BY <1>0, <1>3, <2>3 DEF WriteAdvance, Within, Crosses
  <2> QED BY <2>1, <2>2, <2>3, WriteReports DEF MapWrite
<1> QED BY <1>0, <1>2, <1>3 DEF TypedZones

\* So a mapped write appends to a sequential zone, or does nothing to it.
LEMMA HmAppend ==
  ASSUME TypeOK, TypedZones, WpInRange, HostManaged,
         NEW b \in Bios, MapWrite(b), op' = "mapped", NEW z \in SeqZones
  PROVE  /\ Wp(z)' >= Wp(z)
         /\ written'[z] = written[z] \cup Wp(z)..(Wp(z)' - 1)
<1>0. /\ z \in Slots /\ IsSeq(z) /\ zone_status[z] \in ZoneRec
      /\ b.off \in Nat /\ b.n \in Nat /\ zone_size \in Nat /\ End(b) = b.off + b.n
      /\ b.zone \in Nat
      /\ Wp(z) \in Nat
  BY BioFacts DEF SeqZones, Configured, TypeOK, ZoneRec, Wp, End
<1>1. written'[z] = written[z] \cup Covers(b, z)
  BY <1>0, HmRecord
<1>2. CASE z = b.zone
  <2>1. Wp(z) = b.off /\ Wp(z)' = End(b) /\ End(b) <= zone_size
    BY <1>0, <1>2, HmAdvance
  <2>2. Covers(b, z) = Wp(z)..(Wp(z)' - 1)
    BY <1>0, <1>2, <2>1 DEF Covers
  <2> QED BY <1>0, <1>1, <2>1, <2>2
<1>3. CASE z # b.zone
  <2>1. Wp(z)' = Wp(z) /\ Covers(b, z) = {}
    BY <1>0, <1>3, HmWrite, HmStopsShort DEF Wp
  <2>2. Wp(z)..(Wp(z)' - 1) = {}
    BY <1>0, <2>1
  <2> QED BY <1>0, <1>1, <2>1, <2>2
<1> QED BY <1>2, <1>3

\* On the default device a mapped bio changes a sequential zone only by adding
\* the sectors from the old pointer up to the new one, while no pointer of a
\* conventional zone has overrun its end: the way through the trace of
\* smrsim_write_rule_check lets a write past the border otherwise.
THEOREM WritesAppend ==
  ASSUME HostManaged
  PROVE  Spec => AppendOnly
<1>1. HmInv /\ [Next]_vars =>
        [op' = "mapped" /\ WpInRange =>
           \A z \in SeqZones :
             /\ Wp(z)' >= Wp(z)
             /\ written'[z] = written[z] \cup Wp(z)..(Wp(z)' - 1)]_vars
  <2> SUFFICES ASSUME TypeOK, TypedZones, Next, op' = "mapped", WpInRange, NEW z \in SeqZones
               PROVE  /\ Wp(z)' >= Wp(z)
                      /\ written'[z] = written[z] \cup Wp(z)..(Wp(z)' - 1)
    BY DEF HmInv
  <2>1. ASSUME NEW b \in Bios, MapRead(b)
        PROVE  /\ Wp(z)' >= Wp(z)
               /\ written'[z] = written[z] \cup Wp(z)..(Wp(z)' - 1)
    <3>1. Wp(z)' = Wp(z) /\ written' = written /\ Wp(z) \in Nat
      BY <2>1 DEF MapRead, Wp, TypeOK, ZoneRec, SeqZones, Configured
    <3>2. Wp(z)..(Wp(z)' - 1) = {}
      BY <3>1
    <3> QED BY <3>1, <3>2
  <2> QED BY <2>1, HmAppend, IoctlReports DEF Next, Bio
<1> QED BY <1>1, HmInit, HmStep, PTL DEF Spec, AppendOnly

-----------------------------------------------------------------------------
(* The default device implements ZacDevice.                                *)

\* The host sees a sequential zone that is read-only or offline.
BarredZone(z) == Appendable(z) /\ Cond(z) \in {"RO", "OFFLINE"}

\* A zone of which the host sees no change.
LEMMA ZacKept ==
  ASSUME NEW z \in Slots,
         ZoneKind(z)' = ZoneKind(z),
         Appendable(z) => /\ Wp(z)' = Wp(z) /\ written'[z] = written[z]
                          /\ BarredZone(z)' <=> BarredZone(z)
  PROVE  Zac!Kept(z)
<1>1. Appendable(z)' <=> Appendable(z)
  BY DEF Appendable
<1>2. (z \in {y \in Slots : BarredZone(y)})' = (z \in {y \in Slots : BarredZone(y)})
  BY <1>1 DEF BarredZone
<1> QED BY <1>1, <1>2 DEF Zac!Kept, Zac!zone, BarredZone

\* A zone that starts anew, or is not a sequential zone now.
LEMMA ZacRestarted ==
  ASSUME NEW z \in Slots, Appendable(z)' => Wp(z)' = 0 /\ written'[z] = {}
  PROVE  Zac!Restarted(z)
  BY DEF Zac!Restarted

\* A new device.
LEMMA ZacInit == Init => Zac!Init
<1> SUFFICES ASSUME Init PROVE Zac!Init
  OBVIOUS
<1>1. ASSUME NEW z \in Slots
      PROVE  Wp(z) = 0 /\ written[z] = {} /\ Cond(z) \in {"NO_WP", "EMPTY"}
  BY <1>1 DEF Init, InitZoneStatus, FreshZone, Zeroed, Wp, Cond
<1>2. \A z \in Slots : ZoneKind(z) \in {"none", "conv", "seq"}
  BY DEF ZoneKind
<1>3. {z \in Slots : Appendable(z) /\ Cond(z) \in {"RO", "OFFLINE"}} = {}
  BY <1>1
<1>4. WpInRange = TRUE
  <2>1. \A z \in Configured : Wp(z) <= zone_size
    BY <1>1, SizesAssumption DEF Init, Configured
  <2> QED BY <2>1 DEF WpInRange
<1>5. Stepped = "config"
  BY DEF Init, Stepped
<1> QED BY <1>1, <1>2, <1>3, <1>4, <1>5 DEF Zac!Init

\* An ioctl configures.
LEMMA ZacConfigure ==
  ASSUME TypeOK, HostManaged, ZoneIoctl \/ DeviceIoctl
  PROVE  Zac!Configure
<1>1. Stepped' = "config"
  BY IoctlReports DEF Stepped
<1>2. ASSUME NEW z \in Slots
      PROVE  (Zac!Kept(z) /\ zone_size' = zone_size) \/ Zac!Restarted(z)
  <2>1. CASE SameZone(z)
    <3>1. ZoneKind(z)' = ZoneKind(z)
      <4>1. z \in Nat /\ num_zones \in Nat /\ num_zones' \in Nat
        BY IoctlType, SizesAssumption DEF TypeOK, Slots
      <4> QED BY <2>1, <4>1 DEF SameZone, ZoneKind, IsSeq, IsConv
    <3>2. /\ Wp(z)' = Wp(z) /\ written'[z] = written[z]
          /\ BarredZone(z)' <=> BarredZone(z)
      BY <2>1, <3>1 DEF SameZone, Wp, Cond, BarredZone, Appendable
    <3> QED BY <2>1, <3>1, <3>2, ZacKept DEF SameZone
  <2>2. CASE AnewZone(z)
    <3>1. z \in Nat /\ num_zones' \in Nat
      BY IoctlType, SizesAssumption DEF TypeOK, Slots
    <3>2. Appendable(z)' => Wp(z)' = 0 /\ written'[z] = {}
      BY <2>2, <3>1 DEF AnewZone, Appendable, ZoneKind, Wp
    <3> QED BY <3>2, ZacRestarted
  <2> QED BY <2>1, <2>2, IoctlZone
<1> QED BY <1>1, <1>2 DEF Zac!Configure

\* A bio that is refused.
LEMMA ZacRefuse ==
  ASSUME op' = "refused", UNCHANGED <<num_zones, zone_size, zone_status, written>>
  PROVE  Zac!Refuse
<1>1. Stepped' = "refused"
  BY DEF Stepped
<1>2. \A z \in Slots : /\ ZoneKind(z)' = ZoneKind(z) /\ Appendable(z)' = Appendable(z)
                       /\ Wp(z)' = Wp(z) /\ Cond(z)' = Cond(z)
  BY DEF ZoneKind, IsSeq, IsConv, Appendable, Wp, Cond
<1>3. WpInRange' = WpInRange
  BY DEF WpInRange, Configured, Wp
<1> QED BY <1>1, <1>2, <1>3 DEF Zac!Refuse

\* A mapped bio that leaves every zone as the host sees it.
LEMMA ZacWriteKept ==
  ASSUME op' = "mapped", zone_size' = zone_size, \A z \in Slots : Zac!Kept(z)
  PROVE  Zac!Next
<1>1. Stepped' = "write"
  BY DEF Stepped
<1>2. CASE WpInRange
  BY <1>1, <1>2 DEF Zac!Next, Zac!WriteConv
<1>3. CASE ~WpInRange
  BY <1>1, <1>3 DEF Zac!Next, Zac!WriteUnsound
<1> QED BY <1>2, <1>3

\* What a mapped write leaves of a zone the host cannot append to, or that is
\* not the one it starts in: the host sees no change, but for what it covers.
LEMMA ZacBystander ==
  ASSUME TypeOK, HostManaged, NEW b \in Bios, MapWrite(b), op' = "mapped",
         NEW z \in Slots, z # b.zone \/ ~Appendable(z),
         Appendable(z) => Covers(b, z) = {}
  PROVE  Zac!Kept(z)
<1>1. ZoneKind(z)' = ZoneKind(z)
  BY WriteKeepsTypes DEF ZoneKind, IsSeq, IsConv
<1>2. CASE Appendable(z)
  <2>1. IsSeq(z)
    BY <1>2 DEF Appendable, ZoneKind
  <2>2. zone_status'[z] = zone_status[z] /\ written'[z] = written[z]
    BY <1>2, <2>1, HmWrite, HmRecord
  <2> QED BY <1>1, <2>2, ZacKept DEF Wp, Cond, BarredZone, Appendable
<1>3. CASE ~Appendable(z)
  BY <1>1, <1>3, ZacKept
<1> QED BY <1>2, <1>3

\* The sequential zone a mapped write starts in can be appended to and is not
\* barred, before or after.
LEMMA ZacTarget ==
  ASSUME TypeOK, HostManaged, NEW b \in Bios, MapWrite(b), op' = "mapped", IsSeq(b.zone)
  PROVE  /\ ZoneKind(b.zone) = "seq" /\ ZoneKind(b.zone)' = "seq"
         /\ ~BarredZone(b.zone) /\ ~BarredZone(b.zone)'
<1>0. /\ b.zone \in Slots /\ b.zone \in Nat /\ num_zones \in Nat /\ wflag = 0
      /\ Passes(b) /\ b.zone < num_zones
  BY BioFacts, FlagsOff, HmRecord DEF TypeOK, HostManaged, Configured
<1>1. ZoneKind(b.zone) = "seq"
  BY <1>0 DEF ZoneKind
<1>2. ZoneKind(b.zone)' = "seq"
  BY <1>0, <1>1, WriteKeepsTypes DEF ZoneKind, IsSeq, IsConv
<1>3. ~BarredZone(b.zone)
  BY <1>0 DEF Passes, Barred, Unreachable, BarredZone
<1>4. ~BarredZone(b.zone)'
  BY HmAdvance DEF CondAt, BarredZone
<1> QED BY <1>1, <1>2, <1>3, <1>4

\* A mapped write while no conventional zone has overrun its end.
LEMMA ZacSoundWrite ==
  ASSUME TypeOK, TypedZones, WpInRange, HostManaged,
         NEW b \in Bios, MapWrite(b), op' = "mapped"
  PROVE  Zac!Next
<1>0. /\ b.zone \in Slots /\ b.off \in Nat /\ b.n \in Nat /\ End(b) = b.off + b.n
      /\ zone_size' = zone_size /\ zone_size \in Nat
  BY BioFacts, WriteKeepsTypes DEF End, TypeOK
<1>1. \A z \in Slots : z # b.zone => Zac!Kept(z)
  <2> SUFFICES ASSUME NEW z \in Slots, z # b.zone PROVE Zac!Kept(z)
    OBVIOUS
  <2>1. Appendable(z) => Covers(b, z) = {}
    BY HmStopsShort DEF Appendable, ZoneKind
  <2> QED BY <2>1, ZacBystander
<1>2. CASE ~IsSeq(b.zone)
  <2>1. Zac!Kept(b.zone)
    BY <1>0, <1>2, ZacBystander DEF Appendable, ZoneKind
  <2> QED BY <1>0, <1>1, <2>1, ZacWriteKept
<1>3. CASE IsSeq(b.zone)
  <2>0. /\ ZoneKind(b.zone) = "seq" /\ ZoneKind(b.zone)' = "seq"
        /\ ~BarredZone(b.zone) /\ ~BarredZone(b.zone)'
    BY <1>3, ZacTarget
  <2>1. b.off = Wp(b.zone) /\ Wp(b.zone)' = End(b) /\ End(b) <= zone_size
    BY <1>3, HmAdvance
  <2>2. written'[b.zone] = written[b.zone] \cup b.off..(End(b) - 1)
    <3>1. b.zone \in SeqZones
      BY <1>0, <1>3, HmRecord DEF SeqZones
    <3>2. written'[b.zone] = written[b.zone] \cup Wp(b.zone)..(Wp(b.zone)' - 1)
      BY <3>1, HmAppend
    <3> QED BY <2>1, <3>2
  <2>3. CASE b.n = 0
    <3>1. b.off..(End(b) - 1) = {}
      BY <1>0, <2>3
    <3>2. Wp(b.zone)' = Wp(b.zone) /\ written'[b.zone] = written[b.zone]
      BY <1>0, <2>1, <2>2, <2>3, <3>1
    <3>3. ZoneKind(b.zone)' = ZoneKind(b.zone) /\ (BarredZone(b.zone)' <=> BarredZone(b.zone))
      BY <2>0
    <3>4. Zac!Kept(b.zone)
      BY <1>0, <3>2, <3>3, ZacKept
    <3> QED BY <1>0, <1>1, <3>4, ZacWriteKept
  <2>4. CASE b.n # 0
    <3>1. Stepped' = "write"
      BY DEF Stepped
    <3>2. WpInRange'
      <4>1. \A z \in Slots : z # b.zone => zone_status'[z] = zone_status[z]
        BY <1>3, HmAdvance DEF WriteAdvance, TypeOK
      <4>2. Configured' = Configured
        BY WriteKeepsSeqZones
      <4>3. \A z \in Configured : Wp(z)' <= zone_size
        BY <2>1, <4>1 DEF WpInRange, Wp, Configured
      <4> QED BY <1>0, <4>2, <4>3 DEF WpInRange
    <3>3. Wp(b.zone)' > Wp(b.zone)
      BY <1>0, <2>1, <2>4
    <3>4. Zac!Append(b.zone)
      BY <1>0, <1>1, <2>0, <2>1, <2>2, <3>1, <3>2, <3>3
      DEF Zac!Append, Appendable, BarredZone
    <3> QED BY <1>0, <3>4 DEF Zac!Next
  <2> QED BY <2>3, <2>4
<1> QED BY <1>2, <1>3

\* A mapped write after that.
LEMMA ZacUnsoundWrite ==
  ASSUME TypeOK, SeqWpInRange, ~WpInRange, HostManaged,
         NEW b \in Bios, MapWrite(b), op' = "mapped"
  PROVE  Zac!Next
<1>0. Stepped' = "write" /\ zone_size' = zone_size
  BY BioFacts, WriteKeepsTypes DEF Stepped
<1>1. ASSUME NEW z \in Slots, ~Appendable(z) PROVE Zac!Kept(z)
  BY <1>1, ZacBystander
<1>2. ASSUME NEW z \in Slots, Appendable(z)
      PROVE  /\ Appendable(z)' /\ written[z] \subseteq written'[z]
             /\ Wp(z) <= Wp(z)' /\ Wp(z)' <= zone_size
             /\ BarredZone(z)' <=> BarredZone(z)
  <2>0. IsSeq(z) /\ z \in SeqZones /\ Wp(z) <= zone_size /\ Wp(z) \in Nat
    <3>1. z \in Nat /\ num_zones \in Nat
      BY SizesAssumption DEF Slots, TypeOK
    <3> QED BY <1>2, <3>1 DEF Appendable, ZoneKind, SeqZones, Configured, SeqWpInRange,
                              TypeOK, ZoneRec, Wp
  <2>1. Appendable(z)'
    BY <1>2, WriteKeepsTypes DEF Appendable, ZoneKind, IsSeq, IsConv
  <2>2. written[z] \subseteq written'[z]
    BY <2>0, HmRecord
  <2>3. CASE z = b.zone
    <3>1. b.off = Wp(z) /\ Wp(z)' = End(b) /\ End(b) <= zone_size /\ Wp(z) <= End(b)
      BY <2>0, <2>3, HmAdvance, BioFacts DEF End
    <3> QED BY <2>0, <2>1, <2>2, <2>3, <3>1, ZacTarget
  <2>4. CASE z # b.zone
    <3>1. zone_status'[z] = zone_status[z]
      BY <2>0, <2>4, HmWrite
    <3> QED BY <1>2, <2>0, <2>1, <2>2, <3>1 DEF Wp, Cond, BarredZone
  <2> QED BY <2>3, <2>4
<1>3. Zac!WriteUnsound
  BY <1>0, <1>1, <1>2 DEF Zac!WriteUnsound, Appendable, BarredZone
<1> QED BY <1>3 DEF Zac!Next

\* Every step is a step of ZacDevice, or none.
LEMMA ZacStep ==
  ASSUME HostManaged
  PROVE  HmInv /\ [Next]_vars => [Zac!Next]_(Zac!avars)
<1> SUFFICES ASSUME TypeOK, TypedZones, SeqWpInRange, [Next]_vars
             PROVE  Zac!Next \/ UNCHANGED Zac!avars
  BY DEF HmInv
<1>1. ASSUME NEW b \in Bios, MapWrite(b) PROVE Zac!Next
  <2>1. CASE op' = "mapped"
    BY <1>1, <2>1, ZacSoundWrite, ZacUnsoundWrite
  <2>2. CASE op' # "mapped"
    <3>1. WriteRefused(b) \/ WriteRefusedAtBorder(b)
      BY <1>1, <2>2, WriteReports DEF MapWrite
    <3> QED BY <1>1, <3>1, WriteReports, RefusedKeeps, ZacRefuse
            DEF HostManaged, Zac!Next
  <2> QED BY <2>1, <2>2
<1>2. ASSUME NEW b \in Bios, MapRead(b) PROVE Zac!Next
  <2>1. UNCHANGED <<num_zones, zone_size, zone_status, written>>
    BY <1>2 DEF MapRead, Mapped, Refused
  <2>2. CASE op' = "refused"
    BY <2>1, <2>2, ZacRefuse DEF Zac!Next
  <2>3. CASE op' = "mapped"
    <3>1. ASSUME NEW z \in Slots PROVE Zac!Kept(z)
      BY <2>1, ZacKept DEF ZoneKind, IsSeq, IsConv, Wp, Cond, BarredZone, Appendable
    <3> QED BY <2>1, <2>3, <3>1, ZacWriteKept
  <2> QED BY <1>2, <2>2, <2>3 DEF MapRead, Mapped, Refused
<1>3. ASSUME ZoneIoctl \/ DeviceIoctl PROVE Zac!Next
  BY <1>3, ZacConfigure DEF Zac!Next
<1>4. ASSUME UNCHANGED vars PROVE UNCHANGED Zac!avars
  BY <1>4
  DEF vars, Zac!avars, ZoneKind, IsSeq, IsConv, Appendable, Wp, Cond, WpInRange,
      Configured, Stepped
<1> QED BY <1>1, <1>2, <1>3, <1>4 DEF Next, Bio

\* With the flags clear smrsim_map and the configuration ioctls implement the
\* host-managed device: its sequential zones grow at their ends only, nobody
\* but the host's own configuration restarts them, a refused bio changes
\* nothing.
THEOREM RefinesZac ==
  ASSUME HostManaged
  PROVE  Spec => ImplementsZac
<1>1. Spec => []HmInv
  BY HmInit, HmStep, PTL DEF Spec
<1>2. Spec => Zac!Init /\ [][Zac!Next]_(Zac!avars)
  BY <1>1, ZacInit, ZacStep, PTL DEF Spec
<1> QED BY <1>2 DEF ImplementsZac, Zac!Spec

=============================================================================
