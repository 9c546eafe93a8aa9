--------------------------- MODULE SmrZones_proofs ---------------------------
(***************************************************************************)
(* What TLAPS proves of SmrZones, for every device, every zone size and    *)
(* every set of inputs:                                                    *)
(*   - TypeCorrect: the variables keep their types;                        *)
(*   - WrittenBelowPointer, ReadsReturnWrites: a sequential zone whose     *)
(*     pointer moved by the rules holds written sectors below the pointer, *)
(*     so an in-policy read returns what was written.                      *)
(***************************************************************************)
EXTENDS SmrZones, TLAPS

-----------------------------------------------------------------------------
(* The bios and the slots they index.                                      *)

\* The fields of a bio are naturals, and the slots the code may index for it
\* exist.
LEMMA BioFacts ==
  ASSUME TypeOK, NEW b \in Bios
  PROVE  /\ b.zone \in Nat /\ b.off \in Nat /\ b.n \in Nat
         /\ b.off < zone_size
         /\ End(b) \in Nat
         /\ b.zone \in Slots /\ b.zone + 1 \in Slots
  BY SizesAssumption DEF TypeOK, Bios, End, Slots

\* A zone record stays one when its pointer or its condition changes.
LEMMA ZoneRecUpdate ==
  ASSUME NEW zs \in ZoneRec, NEW wp \in Nat, NEW c \in Conds
  PROVE  /\ [zs EXCEPT !.z_write_ptr_offset = wp] \in ZoneRec
         /\ [zs EXCEPT !.z_conds = c] \in ZoneRec
         /\ [zs EXCEPT !.z_write_ptr_offset = wp, !.z_conds = c] \in ZoneRec
         /\ [zs EXCEPT !.z_conds = c, !.z_write_ptr_offset = wp] \in ZoneRec
  BY DEF ZoneRec

\* A new table is a table.
LEMMA InitTable ==
  ASSUME NEW n \in Nat, NEW size \in Nat
  PROVE  InitZoneStatus(n, size) \in [Slots -> ZoneRec]
<1>1. Zeroed \in ZoneRec
  BY DEF Zeroed, ZoneRec, Conds, Types, FlagCodes
<1>2. \A type \in {"CONV", "SEQ"} : FreshZone(type, size) \in ZoneRec
  BY DEF FreshZone, ZoneRec, Conds, Types, FlagCodes
<1> QED BY <1>1, <1>2 DEF InitZoneStatus

\* Every zone size gives at most MaxZones zones.
LEMMA NumZonesBound ==
  /\ NumZonesDefault \in 0..MaxZones
  /\ \A s \in ZoneSizes : Capacity \div s \in 0..MaxZones /\ s \in Nat \ {0}
  BY SizesAssumption DEF NumZonesDefault

-----------------------------------------------------------------------------
(* Type correctness.                                                       *)

\* The device starts in a state of the right types.
LEMMA InitType == Init => TypeOK
<1> SUFFICES ASSUME Init PROVE TypeOK
  OBVIOUS
<1>1. ZoneSizeDefault \in Nat \ {0} /\ MaxZones \in Nat
  BY SizesAssumption
<1>2. InitZoneStatus(NumZonesDefault, ZoneSizeDefault) \in [Slots -> ZoneRec]
  BY <1>1, NumZonesBound, InitTable
<1> QED BY <1>1, <1>2, NumZonesBound DEF Init, TypeOK

\* What Record does to the history keeps its type.
LEMMA RecordType ==
  ASSUME TypeOK, NEW b \in Bios, NEW R, Record(b, R)
  PROVE  /\ written' \in [Slots -> SUBSET Nat]
         /\ tainted' \subseteq Slots
<1>1. b.zone \in Slots
  BY BioFacts
<1>2. \A z \in Slots : Covers(b, z) \subseteq Nat
  BY DEF Covers
<1> QED BY <1>1, <1>2 DEF TypeOK, Record

\* A write keeps the types, whatever way it takes through the rule check.
LEMMA WriteType ==
  ASSUME TypeOK, NEW b \in Bios, MapWrite(b)
  PROVE  TypeOK'
<1>0. /\ b.zone \in Nat /\ b.off \in Nat /\ b.n \in Nat
      /\ b.zone \in Slots /\ b.zone + 1 \in Slots /\ End(b) \in Nat
      /\ zone_size \in Nat
  BY BioFacts DEF TypeOK
<1>1. StartWp(b) \in Nat
  BY <1>0 DEF StartWp, Wp, TypeOK, ZoneRec
<1>2. zone_status[b.zone] \in ZoneRec /\ zone_status[b.zone + 1] \in ZoneRec
  BY <1>0 DEF TypeOK
<1>3. CASE WriteRefused(b)
  BY <1>3 DEF WriteRefused, Refused, TypeOK, flags
<1>4. CASE WriteRefusedAtBorder(b)
  <2>1. zone_status' \in [Slots -> ZoneRec]
    BY <1>1, <1>2, <1>4, ZoneRecUpdate DEF WriteRefusedAtBorder, TypeOK, ZoneRec
  <2>2. written' \in [Slots -> SUBSET Nat] /\ tainted' \subseteq Slots
    BY <1>0, <1>4 DEF WriteRefusedAtBorder, TypeOK
  <2> QED BY <1>4, <2>1, <2>2 DEF WriteRefusedAtBorder, Refused, TypeOK, flags
<1>5. CASE WriteTraced(b)
  <2>1. zone_status' \in [Slots -> ZoneRec]
    BY <1>0, <1>2, <1>5 DEF WriteTraced, TypeOK, ZoneRec
  <2>2. written' \in [Slots -> SUBSET Nat] /\ tainted' \subseteq Slots
    BY <1>5, RecordType DEF WriteTraced
  <2> QED BY <1>5, <2>1, <2>2 DEF WriteTraced, Mapped, TypeOK, flags
<1>6. CASE WriteSplit(b)
  <2>1. End(b) - zone_size \in Nat
    BY <1>0, <1>6 DEF WriteSplit, Crosses
  <2>2. zone_status' \in [Slots -> ZoneRec]
    BY <1>0, <1>2, <1>6, <2>1 DEF WriteSplit, TypeOK, ZoneRec, Conds
  <2>3. written' \in [Slots -> SUBSET Nat] /\ tainted' \subseteq Slots
    BY <1>6, RecordType DEF WriteSplit
  <2> QED BY <1>6, <2>2, <2>3 DEF WriteSplit, Mapped, TypeOK, flags
<1>7. CASE WriteSpan(b)
  <2>0. Crosses(b)
    BY <1>7 DEF WriteSpan
  <2>1. End(b) - zone_size \in Nat
    BY <1>0, <2>0 DEF Crosses
  <2>2. ASSUME NEW z \in Slots PROVE zone_status'[z] \in ZoneRec
    BY <1>0, <1>7, <2>1 DEF WriteSpan, TypeOK, ZoneRec, Conds
  <2>3. zone_status' \in [Slots -> ZoneRec]
    BY <1>7, <2>2 DEF WriteSpan
  <2>4. written' \in [Slots -> SUBSET Nat] /\ tainted' \subseteq Slots
    BY <1>7, RecordType DEF WriteSpan
  <2> QED BY <1>7, <2>3, <2>4 DEF WriteSpan, Mapped, TypeOK, flags
<1>8. CASE WriteRewriteFull(b)
  <2>1. zone_status' \in [Slots -> ZoneRec]
    BY <1>0, <1>2, <1>8 DEF WriteRewriteFull, CondAt, TypeOK, ZoneRec, Conds
  <2>2. written' \in [Slots -> SUBSET Nat] /\ tainted' \subseteq Slots
    BY <1>8, RecordType DEF WriteRewriteFull
  <2> QED BY <1>8, <2>1, <2>2 DEF WriteRewriteFull, Mapped, TypeOK, flags
<1>9. CASE WriteAdvance(b)
  <2>1. StartWp(b) + b.n \in Nat
    BY <1>0, <1>1
  <2>2. zone_status' \in [Slots -> ZoneRec]
    BY <1>0, <1>2, <1>9, <2>1 DEF WriteAdvance, CondAt, TypeOK, ZoneRec, Conds
  <2>3. written' \in [Slots -> SUBSET Nat] /\ tainted' \subseteq Slots
    BY <1>9, RecordType DEF WriteAdvance
  <2> QED BY <1>9, <2>2, <2>3 DEF WriteAdvance, Mapped, TypeOK, flags
<1> QED BY <1>3, <1>4, <1>5, <1>6, <1>7, <1>8, <1>9 DEF MapWrite

\* So does an ioctl.
LEMMA IoctlType ==
  ASSUME TypeOK, ZoneIoctl \/ DeviceIoctl
  PROVE  TypeOK'
<1> USE DEF TypeOK
<1>1. ASSUME NEW n \in 0..MaxZones, NEW size \in Nat \ {0}, Rebuild(n, size)
      PROVE  /\ num_zones' \in 0..MaxZones /\ zone_size' \in Nat \ {0}
             /\ zone_status' \in [Slots -> ZoneRec]
             /\ written' \in [Slots -> SUBSET Nat] /\ tainted' \subseteq Slots
  BY <1>1, InitTable, SizesAssumption DEF Rebuild
<1>2. ASSUME NEW z \in Slots, ResetZonePtr(z) PROVE TypeOK'
  <2>1. zone_status' \in [Slots -> ZoneRec]
    BY <1>2 DEF ResetZonePtr, ZoneRec, Conds
  <2> QED BY <1>2, <2>1 DEF ResetZonePtr, Idle, flags
<1>3. ASSUME NEW z \in Slots, NEW a \in ModifyArgs, ModifyZone(z, a) PROVE TypeOK'
  <2>1. a \in ModifyArg
    BY InputsAssumption
  <2>2. zone_status' \in [Slots -> ZoneRec]
    BY <1>3, <2>1 DEF ModifyZone, ModifyArg, ZoneRec, FlagCodes
  <2> QED BY <1>3, <2>2 DEF ModifyZone, Idle, flags
<1>4. ASSUME NEW type \in {"CONV", "SEQ"}, NEW l \in ZoneSizes, AddZone(type, l)
      PROVE  TypeOK'
  <2>1. FreshZone(type, l) \in ZoneRec
    BY SizesAssumption DEF FreshZone, ZoneRec, Conds, Types, FlagCodes
  <2>2. num_zones \in Slots /\ num_zones + 1 \in 0..MaxZones
    BY <1>4, NumZonesBound, SizesAssumption DEF AddZone, Addable, Slots
  <2>3. zone_status' \in [Slots -> ZoneRec]
    BY <1>4, <2>1 DEF AddZone
  <2> QED BY <1>4, <2>2, <2>3 DEF AddZone, Idle, flags
<1>5. ASSUME ClearZones PROVE TypeOK'
  <2>1. Zeroed \in ZoneRec
    BY DEF Zeroed, ZoneRec, Conds, Types, FlagCodes
  <2> QED BY <1>5, <2>1, SizesAssumption DEF ClearZones, Idle, flags
<1>6. ASSUME NEW s \in ZoneSizes, SetZoneSize(s) PROVE TypeOK'
  BY <1>1, <1>6, NumZonesBound DEF SetZoneSize, Idle, flags
<1>7. ASSUME NEW s \in ZoneSizes, SetZoneSizeNoMem(s) PROVE TypeOK'
  BY <1>7, NumZonesBound DEF SetZoneSizeNoMem, Idle, flags
<1>8. ASSUME ResetZoneConfig PROVE TypeOK'
  BY <1>1, <1>8, NumZonesBound, SizesAssumption DEF ResetZoneConfig, Idle, flags
<1>9. ASSUME NEW c \in CrossCodes, NEW z \in Slots, BorderAcross(c, z) PROVE TypeOK'
  <2>1. c \in FlagCodes
    BY DEF FlagCodes
  <2>2. zone_status' \in [Slots -> ZoneRec]
    BY <1>9, <2>1 DEF BorderAcross, ZoneRec
  <2> QED BY <1>9, <2>2 DEF BorderAcross, Idle, flags
<1>10. ASSUME ResetDevConfig PROVE TypeOK'
  BY <1>10 DEF ResetDevConfig, Idle, table
<1>11. ASSUME ResetDefaultZones PROVE TypeOK'
  BY <1>1, <1>11, NumZonesBound, SizesAssumption DEF ResetDefaultZones, flags
<1>12. ASSUME ResetDefaultDev \/ ResetDefaultRt PROVE TypeOK'
  BY <1>12 DEF ResetDefaultDev, ResetDefaultRt, table
<1>13. ASSUME NEW v \in Policies, SetReadPolicy(v) \/ SetWritePolicy(v) PROVE TypeOK'
  BY <1>13, InputsAssumption DEF SetReadPolicy, SetWritePolicy, Idle, table
<1>14. ASSUME NEW v \in ResetFlags, SetWpReset(v) PROVE TypeOK'
  BY <1>14, InputsAssumption DEF SetWpReset, Idle, table
<1>15. ASSUME NEW v \in AdjustFlags, SetWpAdjust(v) PROVE TypeOK'
  BY <1>15, InputsAssumption DEF SetWpAdjust, Idle, table
<1> QED
  BY <1>2, <1>3, <1>4, <1>5, <1>6, <1>7, <1>8, <1>9, <1>10, <1>11, <1>12, <1>13,
     <1>14, <1>15 DEF ZoneIoctl, DeviceIoctl

\* Every step keeps the types.
LEMMA StepType == TypeOK /\ [Next]_vars => TypeOK'
<1> SUFFICES ASSUME TypeOK, [Next]_vars PROVE TypeOK'
  OBVIOUS
<1>1. ASSUME NEW b \in Bios, MapWrite(b) PROVE TypeOK'
  BY <1>1, WriteType
<1>2. ASSUME NEW b \in Bios, MapRead(b) PROVE TypeOK'
  BY <1>2 DEF MapRead, Mapped, Refused, TypeOK, flags
<1>3. ASSUME ZoneIoctl \/ DeviceIoctl PROVE TypeOK'
  BY <1>3, IoctlType
<1>4. ASSUME UNCHANGED vars PROVE TypeOK'
  BY <1>4 DEF vars, TypeOK, Configured, SeqZones
<1> QED BY <1>1, <1>2, <1>3, <1>4 DEF Next, Bio

\* Every variable of the zone table, the flags and the history keeps its type
\* in every behaviour of smrsim_map and the configuration ioctls; the number
\* of zones stays within what the device can give.
THEOREM TypeCorrect == Spec => []TypeOK
BY InitType, StepType, PTL DEF Spec

-----------------------------------------------------------------------------
(* PrefixWritten is inductive once the types are known.                    *)

IInv == TypeOK /\ PrefixWritten

\* A write that passes the rules and is not Outside them starts where the
\* pointer is, or at the start of a zone it restarts.
LEMMA OnPointer ==
  ASSUME TypeOK, NEW b \in Bios, Passes(b), IsSeq(b.zone), ~Outside(b)
  PROVE  /\ StartWp(b) = b.off
         /\ \/ ByReset(b) /\ b.off = 0
            \/ ~ByReset(b) /\ Wp(b.zone) = b.off
  BY DEF Passes, RuleBroken, Outside, StartWp, OffPointer, ByReset, ByAdjust, TypeOK

\* The history of a zone that is not restarted only grows, by what the bio
\* covers, and the zone does not lose its taint.
LEMMA RecordKeeps ==
  ASSUME TypeOK, NEW b \in Bios, NEW R, Record(b, R),
         NEW z \in Slots, z \notin R, IsSeq(z)
  PROVE  /\ written'[z] = written[z] \cup Covers(b, z)
         /\ z \notin tainted' => z \notin tainted
  BY DEF Record

\* A restarted zone holds what the bio covers.
LEMMA RecordRestarts ==
  ASSUME TypeOK, NEW b \in Bios, NEW R, Record(b, R),
         NEW z \in Slots, z \in R, IsSeq(z)
  PROVE  written'[z] = Covers(b, z)
  BY DEF Record

\* After a mapped write that stays untainted, the zone it starts in is
\* written up to the end of the bio or of the zone.
LEMMA WrittenToEnd ==
  ASSUME IInv, NEW b \in Bios, Passes(b), IsSeq(b.zone),
         NEW R, b.zone \in R <=> ByReset(b), Record(b, R), b.zone \notin tainted'
  PROVE  \A o \in 0..(zone_size - 1) : o < End(b) => o \in written'[b.zone]
<1> SUFFICES ASSUME NEW o \in 0..(zone_size - 1), o < End(b)
             PROVE  o \in written'[b.zone]
  OBVIOUS
<1>0. /\ TypeOK /\ b.zone \in Slots /\ b.off \in Nat /\ End(b) \in Nat
      /\ zone_size \in Nat
  BY BioFacts DEF IInv, TypeOK
<1>1. ~Outside(b)
  BY DEF Record
<1>2. b.zone \in SeqZones
  BY <1>0 DEF Passes, Unreachable, SeqZones, Configured, TypeOK, Slots
<1>3. CASE b.off <= o
  <2>1. o \in Covers(b, b.zone)
    BY <1>3 DEF Covers
  <2> QED BY <1>0, <2>1, RecordKeeps, RecordRestarts
<1>4. CASE o < b.off
  <2>1. ~ByReset(b) /\ Wp(b.zone) = b.off
    BY <1>0, <1>1, <1>4, OnPointer
  <2>3. b.zone \notin tainted /\ written[b.zone] \subseteq written'[b.zone]
    BY <1>0, <2>1, RecordKeeps
  <2>4. o \in written[b.zone]
    BY <1>0, <1>2, <1>4, <2>1, <2>3 DEF IInv, PrefixWritten
  <2> QED BY <2>3, <2>4
<1> QED BY <1>0, <1>3, <1>4

\* A zone whose record the write leaves alone and does not restart.
LEMMA BystanderKeeps ==
  ASSUME IInv, NEW b \in Bios, NEW R, Record(b, R), Mapped,
         NEW z \in SeqZones' \ tainted', z \notin R, zone_status'[z] = zone_status[z]
  PROVE  /\ Wp(z)' <= zone_size'
         /\ 0..(Wp(z)' - 1) \subseteq written'[z]
<1>1. z \in Slots /\ IsSeq(z) /\ z \in SeqZones
  BY DEF SeqZones, Configured, IsSeq, Mapped
<1>2. z \notin tainted /\ written[z] \subseteq written'[z]
  BY <1>1, RecordKeeps DEF IInv
<1> QED BY <1>1, <1>2 DEF IInv, PrefixWritten, Wp, Mapped

\* Where a split write leaves each pointer.
LEMMA SplitTable ==
  ASSUME TypeOK, NEW b \in Bios, WriteSplit(b)
  PROVE  /\ zone_status'[b.zone].z_write_ptr_offset = zone_size
         /\ zone_status'[b.zone + 1].z_write_ptr_offset = End(b) - zone_size
         /\ \A z \in Slots \ {b.zone, b.zone + 1} : zone_status'[z] = zone_status[z]
<1>1. b.zone \in Slots /\ b.zone + 1 \in Slots /\ b.zone # b.zone + 1
  BY BioFacts
<1>2. zone_status \in [Slots -> ZoneRec]
  BY DEF TypeOK
<1>3. zone_status' = [zone_status EXCEPT
         ![b.zone].z_conds = "FULL",
         ![b.zone].z_write_ptr_offset = zone_size,
         ![b.zone + 1].z_write_ptr_offset = End(b) - zone_size,
         ![b.zone + 1].z_conds = "CLOSED"]
  BY DEF WriteSplit
<1>4. zone_status'[b.zone].z_write_ptr_offset = zone_size
  BY <1>1, <1>2, <1>3 DEF ZoneRec
<1>5. zone_status'[b.zone + 1].z_write_ptr_offset = End(b) - zone_size
  BY <1>1, <1>2, <1>3 DEF ZoneRec
<1>6. \A z \in Slots \ {b.zone, b.zone + 1} : zone_status'[z] = zone_status[z]
  BY <1>1, <1>2, <1>3
<1> QED BY <1>4, <1>5, <1>6

\* Where a spanning write leaves each pointer.
LEMMA SpanTable ==
  ASSUME TypeOK, NEW b \in Bios, WriteSpan(b), NEW z \in Slots
  PROVE  /\ z \in b.zone..(EndIdx(b) - 1)
              => zone_status'[z].z_write_ptr_offset = zone_size
         /\ z = EndIdx(b) /\ z \notin b.zone..(EndIdx(b) - 1)
              => zone_status'[z].z_write_ptr_offset =
                   IF End(b) = 2 * zone_size THEN 0 ELSE End(b) - zone_size
         /\ z # EndIdx(b) /\ z \notin b.zone..(EndIdx(b) - 1)
              => zone_status'[z] = zone_status[z]
<1>1. zone_status[z] \in ZoneRec
  BY DEF TypeOK
<1>2. zone_status' = [y \in Slots |->
         LET zs == zone_status[y] IN
         IF y \in b.zone..(EndIdx(b) - 1)
           THEN [zs EXCEPT !.z_write_ptr_offset = zone_size,
                           !.z_conds = IF IsConv(y) THEN "NO_WP" ELSE "FULL"]
         ELSE IF y = EndIdx(b)
           THEN [zs EXCEPT !.z_write_ptr_offset =
                              IF End(b) = 2 * zone_size THEN 0 ELSE End(b) - zone_size,
                           !.z_conds = IF IsSeq(y) THEN "CLOSED" ELSE @]
         ELSE zs]
  BY DEF WriteSpan
<1> QED BY <1>1, <1>2 DEF ZoneRec

\* A bio keeps PrefixWritten.
LEMMA WritePrefix ==
  ASSUME IInv, NEW b \in Bios, MapWrite(b)
  PROVE  PrefixWritten'
<1>0. /\ b.zone \in Nat /\ b.off \in Nat /\ b.n \in Nat /\ End(b) \in Nat
      /\ b.zone \in Slots /\ b.zone + 1 \in Slots
      /\ End(b) = b.off + b.n
      /\ zone_size \in Nat \ {0} /\ TypeOK
  BY BioFacts DEF IInv, TypeOK, End
<1> SUFFICES ASSUME NEW z \in SeqZones' \ tainted'
             PROVE  Wp(z)' <= zone_size' /\ 0..(Wp(z)' - 1) \subseteq written'[z]
  BY DEF PrefixWritten
<1>1. z \in Slots /\ z < num_zones'
  BY DEF SeqZones, Configured
<1>2. CASE WriteRefused(b)
  BY <1>2 DEF WriteRefused, Refused, IInv, PrefixWritten, SeqZones, Configured, IsSeq, Wp
<1>3. CASE WriteRefusedAtBorder(b)
  <2>1. z \in SeqZones
    BY <1>0, <1>1, <1>3
    DEF WriteRefusedAtBorder, Refused, SeqZones, Configured, IsSeq, TypeOK, ZoneRec
  <2>2. CASE z # b.zone
    BY <1>0, <1>1, <1>3, <2>1, <2>2
    DEF WriteRefusedAtBorder, Refused, Restarted, IInv, PrefixWritten, Wp, TypeOK
  <2>3. CASE z = b.zone
    <3>1. ~ByAdjust(b)
      BY <1>3, <2>3 DEF WriteRefusedAtBorder
    <3>2. Wp(z)' = StartWp(b) /\ zone_size' = zone_size
      BY <1>0, <1>3, <2>3 DEF WriteRefusedAtBorder, Refused, Wp, TypeOK, ZoneRec
    <3>3. CASE ByReset(b)
      BY <1>0, <3>2, <3>3 DEF StartWp, ByReset
    <3>4. CASE ~ByReset(b)
      <4>1. StartWp(b) = Wp(z)
        BY <2>3, <3>1, <3>4 DEF StartWp
      <4>2. z \notin tainted /\ written' = written
        BY <1>0, <1>3, <2>3, <3>4 DEF WriteRefusedAtBorder, Restarted, TypeOK
      <4> QED BY <2>1, <3>2, <4>1, <4>2 DEF IInv, PrefixWritten
    <3> QED BY <3>3, <3>4
  <2> QED BY <2>2, <2>3
<1>4. CASE WriteTraced(b)
  <2>1. Record(b, {}) /\ Mapped /\ IsConv(b.zone)
    BY <1>4 DEF WriteTraced, Traced
  <2>2. z # b.zone
    BY <1>0, <1>1, <1>4, <2>1 DEF WriteTraced, SeqZones, IsSeq, IsConv, TypeOK, ZoneRec
  <2>3. zone_status'[z] = zone_status[z]
    BY <1>1, <1>4, <2>2 DEF WriteTraced, TypeOK
  <2> QED BY <2>1, <2>3, BystanderKeeps
<1>5. CASE WriteSplit(b)
  <2>0. /\ Passes(b) /\ Crosses(b) /\ MaySplit(b) /\ Mapped
        /\ Record(b, Restarted(b) \cup {b.zone + 1})
    BY <1>5 DEF WriteSplit
  <2>1. /\ IsSeq(b.zone) /\ IsSeq(b.zone + 1) /\ zone_size' = zone_size
        /\ End(b) > zone_size /\ End(b) <= 2 * zone_size
    BY <1>0, <2>0 DEF MaySplit, Crosses, Passes, Unreachable, Mapped
  <2>2. CASE z = b.zone
    <3>1. Wp(z)' = zone_size
      BY <1>5, <1>0, <2>2, SplitTable DEF Wp
    <3>2. b.zone \in Restarted(b) \cup {b.zone + 1} <=> ByReset(b)
      BY <1>0 DEF Restarted
    <3>3. \A o \in 0..(zone_size - 1) : o < End(b) => o \in written'[z]
      BY <1>0, <2>0, <2>1, <2>2, <3>2, WrittenToEnd
    <3> QED BY <1>0, <2>1, <3>1, <3>3
  <2>3. CASE z = b.zone + 1
    <3>1. Wp(z)' = End(b) - zone_size
      BY <1>5, <1>0, <2>3, SplitTable DEF Wp
    <3>2. written'[z] = Covers(b, z)
      BY <1>0, <2>0, <2>1, <2>3, RecordRestarts
    <3> QED BY <1>0, <2>1, <2>3, <3>1, <3>2 DEF Covers
  <2>4. CASE z # b.zone /\ z # b.zone + 1
    <3>1. zone_status'[z] = zone_status[z]
      BY <1>5, <1>0, <1>1, <2>4, SplitTable
    <3> QED BY <2>0, <2>4, <3>1, BystanderKeeps DEF Restarted
  <2> QED BY <2>2, <2>3, <2>4
<1>6. CASE WriteSpan(b)
  <2>0. /\ Passes(b) /\ Crosses(b) /\ Mapped /\ Record(b, Restarted(b))
        /\ zone_size' = zone_size
    BY <1>6 DEF WriteSpan, Mapped
  <2>1. End(b) > zone_size /\ End(b) <= 2 * zone_size
    BY <1>0, <2>0 DEF Crosses, Passes, Unreachable
  <2>2. IsSeq(z)
    BY <1>0, <1>1, <1>6 DEF WriteSpan, SeqZones, IsSeq, TypeOK, ZoneRec
  <2>3. CASE z = b.zone
    <3>1. Wp(z)' = zone_size
      BY <1>0, <1>1, <1>6, <2>3, SpanTable DEF EndIdx, Wp
    <3>2. b.zone \in Restarted(b) <=> ByReset(b)
      BY DEF Restarted
    <3>3. \A o \in 0..(zone_size - 1) : o < End(b) => o \in written'[z]
      BY <1>0, <2>0, <2>2, <2>3, <3>2, WrittenToEnd
    <3> QED BY <1>0, <2>0, <2>1, <3>1, <3>3
  <2>4. CASE z = b.zone + 1
    <3>1. Wp(z)' = End(b) - zone_size
      BY <1>0, <1>1, <1>6, <2>1, <2>4, SpanTable DEF EndIdx, Wp
    <3>2. z \notin Restarted(b)
      BY <1>0, <2>4 DEF Restarted
    <3>3. Covers(b, z) \subseteq written'[z]
      BY <1>0, <1>1, <2>0, <2>2, <3>2, RecordKeeps
    <3> QED BY <1>0, <2>0, <2>1, <2>4, <3>1, <3>3 DEF Covers
  <2>5. CASE z # b.zone /\ z # b.zone + 1 /\ z = EndIdx(b)
    <3>1. Wp(z)' = 0
      BY <1>0, <1>1, <1>6, <2>5, SpanTable DEF EndIdx, Wp
    <3> QED BY <1>0, <2>0, <3>1
  <2>6. CASE z # b.zone /\ z # b.zone + 1 /\ z # EndIdx(b)
    <3>1. zone_status'[z] = zone_status[z]
      BY <1>0, <1>1, <1>6, <2>6, SpanTable DEF EndIdx
    <3> QED BY <2>0, <2>6, <3>1, BystanderKeeps DEF Restarted
  <2> QED BY <2>3, <2>4, <2>5, <2>6
<1>7. CASE WriteRewriteFull(b) \/ WriteAdvance(b)
  <2>0. Passes(b) /\ Within(b) /\ Mapped /\ Record(b, Restarted(b)) /\ zone_size' = zone_size
    BY <1>7 DEF WriteRewriteFull, WriteAdvance, Mapped
  <2>1. CASE z # b.zone
    <3>1. zone_status'[z] = zone_status[z]
      BY <1>0, <1>1, <1>7, <2>1 DEF WriteRewriteFull, WriteAdvance, TypeOK
    <3> QED BY <2>0, <2>1, <3>1, BystanderKeeps DEF Restarted
  <2>2. CASE z = b.zone
    <3>1. IsSeq(z) /\ ~Outside(b)
      BY <1>0, <1>7, <2>0, <2>2
      DEF WriteRewriteFull, WriteAdvance, SeqZones, IsSeq, TypeOK, ZoneRec, Record
    <3>2. End(b) <= zone_size
      BY <1>0, <2>0, <2>2, <3>1 DEF Within, Crosses, BorderBroken, Outside, TypeOK
    <3>3. StartWp(b) = b.off
      BY <1>0, <2>0, <2>2, <3>1, OnPointer
    <3>4. Wp(z)' = End(b)
      BY <1>0, <1>7, <2>2, <3>3 DEF WriteRewriteFull, WriteAdvance, Wp, TypeOK, ZoneRec
    <3>5. b.zone \in Restarted(b) <=> ByReset(b)
      BY DEF Restarted
    <3>6. \A o \in 0..(zone_size - 1) : o < End(b) => o \in written'[z]
      BY <1>0, <2>0, <2>2, <3>1, <3>5, WrittenToEnd
    <3> QED BY <1>0, <2>0, <3>2, <3>4, <3>6
  <2> QED BY <2>1, <2>2
<1> QED BY <1>2, <1>3, <1>4, <1>5, <1>6, <1>7 DEF MapWrite

\* An ioctl keeps PrefixWritten: it restarts the zones it touches or taints
\* them.
LEMMA IoctlPrefix ==
  ASSUME IInv, ZoneIoctl \/ DeviceIoctl
  PROVE  PrefixWritten'
<1>0. TypeOK
  BY DEF IInv
<1> SUFFICES ASSUME NEW z \in SeqZones' \ tainted'
             PROVE  Wp(z)' <= zone_size' /\ 0..(Wp(z)' - 1) \subseteq written'[z]
  BY DEF PrefixWritten
<1>1. z \in Slots /\ z < num_zones' /\ zone_status'[z].z_type = "SEQ"
  BY DEF SeqZones, Configured, IsSeq
<1>2. ASSUME Wp(z)' = 0, zone_size' \in Nat
      PROVE  Wp(z)' <= zone_size' /\ 0..(Wp(z)' - 1) \subseteq written'[z]
  BY <1>2
<1>3. ASSUME /\ zone_status'[z].z_write_ptr_offset = zone_status[z].z_write_ptr_offset
             /\ zone_status'[z].z_type = zone_status[z].z_type
             /\ z < num_zones
             /\ zone_size' = zone_size /\ written'[z] = written[z]
             /\ z \in tainted => z \in tainted'
      PROVE  Wp(z)' <= zone_size' /\ 0..(Wp(z)' - 1) \subseteq written'[z]
  <2>1. z \in SeqZones \ tainted
    BY <1>0, <1>1, <1>3 DEF SeqZones, Configured, IsSeq, TypeOK, Slots
  <2> QED BY <1>3, <2>1 DEF IInv, PrefixWritten, Wp
<1>4. ASSUME NEW n \in Nat, NEW size \in Nat, Rebuild(n, size)
      PROVE  Wp(z)' = 0
  BY <1>1, <1>4 DEF Rebuild, InitZoneStatus, FreshZone, Zeroed, Wp
<1>5. ASSUME NEW y \in Slots, ResetZonePtr(y)
      PROVE  Wp(z)' <= zone_size' /\ 0..(Wp(z)' - 1) \subseteq written'[z]
  <2>1. CASE z = y
    BY <1>0, <1>1, <1>2, <1>5, <2>1 DEF ResetZonePtr, Wp, TypeOK, ZoneRec
  <2>2. CASE z # y
    BY <1>0, <1>1, <1>3, <1>5, <2>2 DEF ResetZonePtr, TypeOK
  <2> QED BY <2>1, <2>2
<1>6. ASSUME NEW y \in Slots, NEW a \in ModifyArgs, ModifyZone(y, a)
      PROVE  Wp(z)' <= zone_size' /\ 0..(Wp(z)' - 1) \subseteq written'[z]
  <2>1. CASE z = y
    BY <1>0, <1>1, <1>2, <1>6, <2>1 DEF ModifyZone, Wp, TypeOK
  <2>2. CASE z # y
    BY <1>0, <1>1, <1>3, <1>6, <2>2 DEF ModifyZone, TypeOK
  <2> QED BY <2>1, <2>2
<1>7. ASSUME NEW type \in {"CONV", "SEQ"}, NEW l \in ZoneSizes, AddZone(type, l)
      PROVE  Wp(z)' <= zone_size' /\ 0..(Wp(z)' - 1) \subseteq written'[z]
  <2>1. CASE z = num_zones
    BY <1>0, <1>1, <1>2, <1>7, <2>1 DEF AddZone, FreshZone, Wp, TypeOK
  <2>2. CASE z # num_zones
    BY <1>0, <1>1, <1>3, <1>7, <2>2 DEF AddZone, TypeOK, Slots
  <2> QED BY <2>1, <2>2
<1>8. ASSUME ClearZones
      PROVE  Wp(z)' <= zone_size' /\ 0..(Wp(z)' - 1) \subseteq written'[z]
  BY <1>1, <1>8 DEF ClearZones, Slots
<1>9. ASSUME NEW s \in ZoneSizes, SetZoneSize(s)
      PROVE  Wp(z)' <= zone_size' /\ 0..(Wp(z)' - 1) \subseteq written'[z]
  BY <1>2, <1>4, <1>9, NumZonesBound DEF SetZoneSize, Rebuild
<1>10. ASSUME NEW s \in ZoneSizes, SetZoneSizeNoMem(s)
       PROVE  Wp(z)' <= zone_size' /\ 0..(Wp(z)' - 1) \subseteq written'[z]
  BY <1>1, <1>10 DEF SetZoneSizeNoMem
<1>11. ASSUME ResetZoneConfig \/ ResetDefaultZones
       PROVE  Wp(z)' <= zone_size' /\ 0..(Wp(z)' - 1) \subseteq written'[z]
  BY <1>2, <1>4, <1>11, NumZonesBound, SizesAssumption
  DEF ResetZoneConfig, ResetDefaultZones, Rebuild
<1>12. ASSUME NEW c \in CrossCodes, NEW y \in Slots, BorderAcross(c, y)
       PROVE  Wp(z)' <= zone_size' /\ 0..(Wp(z)' - 1) \subseteq written'[z]
  <2>1. /\ zone_status'[z].z_write_ptr_offset = zone_status[z].z_write_ptr_offset
        /\ zone_status'[z].z_type = zone_status[z].z_type
    BY <1>0, <1>1, <1>12 DEF BorderAcross, TypeOK, ZoneRec
  <2> QED BY <1>0, <1>1, <1>3, <1>12, <2>1 DEF BorderAcross, TypeOK
<1>13. ASSUME UNCHANGED table
       PROVE  Wp(z)' <= zone_size' /\ 0..(Wp(z)' - 1) \subseteq written'[z]
  BY <1>1, <1>3, <1>13 DEF table
<1>14. ASSUME DeviceIoctl, ~ResetDefaultZones
       PROVE  UNCHANGED table
  BY <1>14
  DEF DeviceIoctl, ResetDevConfig, ResetDefaultDev, ResetDefaultRt, SetReadPolicy,
      SetWritePolicy, SetWpReset, SetWpAdjust
<1> QED
  BY <1>5, <1>6, <1>7, <1>8, <1>9, <1>10, <1>11, <1>12, <1>13, <1>14 DEF ZoneIoctl

\* Nothing is below any pointer of a new device.
LEMMA InitPrefix == Init => PrefixWritten
<1> SUFFICES ASSUME Init, NEW z \in SeqZones
             PROVE  Wp(z) = 0 /\ zone_size \in Nat
  BY DEF PrefixWritten
<1> QED
  BY SizesAssumption
  DEF Init, InitZoneStatus, FreshZone, Zeroed, Wp, SeqZones, Configured

\* Every step keeps PrefixWritten.
LEMMA StepPrefix == IInv /\ [Next]_vars => PrefixWritten'
<1> SUFFICES ASSUME IInv, [Next]_vars PROVE PrefixWritten'
  OBVIOUS
<1>1. ASSUME NEW b \in Bios, MapWrite(b) PROVE PrefixWritten'
  BY <1>1, WritePrefix
<1>2. ASSUME zone_status' = zone_status, num_zones' = num_zones, zone_size' = zone_size,
             written' = written, tainted' = tainted
      PROVE  PrefixWritten'
  BY <1>2 DEF IInv, PrefixWritten, SeqZones, Configured, IsSeq, Wp
<1>3. ASSUME NEW b \in Bios, MapRead(b) PROVE PrefixWritten'
  BY <1>2, <1>3 DEF MapRead, Mapped, Refused
<1>4. ASSUME ZoneIoctl \/ DeviceIoctl PROVE PrefixWritten'
  BY <1>4, IoctlPrefix
<1>5. ASSUME UNCHANGED vars PROVE PrefixWritten'
  BY <1>2, <1>5 DEF vars
<1> QED BY <1>1, <1>3, <1>4, <1>5 DEF Next, Bio

\* In every behaviour a sequential zone whose pointer moved by the rules only
\* holds written sectors from its start up to its pointer, and the pointer is
\* inside the zone: all the ways smrsim_write_rule_check moves a pointer, and
\* all the ioctls that restart zones, keep pointer and data in step.
THEOREM WrittenBelowPointer == Spec => []PrefixWritten
<1>1. Init => IInv
  BY InitType, InitPrefix DEF IInv
<1>2. IInv /\ [Next]_vars => IInv'
  BY StepType, StepPrefix DEF IInv
<1>3. IInv => PrefixWritten
  BY DEF IInv
<1> QED BY <1>1, <1>2, <1>3, PTL DEF Spec

\* Every read that smrsim_read_rule_check lets pass as in policy, in such a
\* zone, returns only sectors the host wrote since the zone was restarted.
THEOREM ReadsReturnWrites == Spec => []ReadsSeeWrites
<1>1. TypeOK /\ PrefixWritten => ReadsSeeWrites
  <2> SUFFICES ASSUME TypeOK, PrefixWritten, NEW b \in Bios,
                      b.n > 0, ~Unreachable(b), ReadInPolicy(b),
                      IsSeq(b.zone), b.zone \notin tainted
               PROVE  b.off..(End(b) - 1) \subseteq written[b.zone]
    BY DEF ReadsSeeWrites
  <2>1. /\ b.zone \in Slots /\ b.off \in Nat /\ End(b) \in Nat
        /\ Wp(b.zone) \in Nat /\ b.zone \in Nat /\ num_zones \in Nat
    BY BioFacts DEF Wp, TypeOK, ZoneRec
  <2>2. End(b) <= Wp(b.zone)
    BY DEF ReadInPolicy, IsConv, IsSeq
  <2>3. b.zone \in SeqZones
    BY <2>1 DEF Unreachable, SeqZones, Configured
  <2>4. 0..(Wp(b.zone) - 1) \subseteq written[b.zone]
    BY <2>3 DEF PrefixWritten
  <2> QED BY <2>1, <2>2, <2>4
<1> QED BY <1>1, TypeCorrect, WrittenBelowPointer, PTL

=============================================================================
