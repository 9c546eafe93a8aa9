--------------------------- MODULE SmrTarget_proofs ---------------------------
(***************************************************************************)
(* What TLAPS proves of SmrTarget, for every backing device, target        *)
(* length, zone size and history of targets:                               *)
(*   - TargetTypeCorrect: the variables keep their types;                  *)
(*   - with one process that creates targets:                              *)
(*     RoomIsLeft (StateBehindZones), OnlyOwnState (OwnState) and          *)
(*     RestartsRestore (RestartRestores).                                  *)
(***************************************************************************)
EXTENDS SmrTarget, TLAPS

-----------------------------------------------------------------------------
(* Arithmetic of the layout.                                               *)

\* The number of default zones of a target, and where its state is placed.
LEMMA PlaceType ==
  ASSUME NEW len \in Nat
  PROVE  len \div DefaultSize \in Nat /\ PstoreLba(len \div DefaultSize) \in 0..(Wrap - 1)
<1>1. len \div DefaultSize \in Nat /\ (len \div DefaultSize) * DefaultSize \in Nat
  BY SizesAssumption
<1> QED BY <1>1, SizesAssumption DEF PstoreLba

\* A target of whole zones that pstore_lba is wide enough for has its state
\* placed just behind its last block.
LEMMA PlaceOfSupported ==
  ASSUME NEW t \in [start : Nat, len : Nat], Supported(t)
  PROVE  t.start = 0 /\ PstoreLba(t.len \div DefaultSize) = t.len
<1>1. t.len \in Nat /\ t.len < Wrap /\ t.len % DefaultSize = 0 /\ t.start = 0
  BY DEF Supported, Documented
<1>2. (t.len \div DefaultSize) * DefaultSize = t.len
  BY <1>1, SizesAssumption
<1>3. t.len % Wrap = t.len
  BY <1>1, SizesAssumption
<1> QED BY <1>1, <1>2, <1>3 DEF PstoreLba

\* A state has a page for its header at least.
LEMMA PagesType ==
  ASSUME NEW s \in StateRec
  PROVE  StatePages(s) \in Nat \ {0}
<1>1. s.length \div ZonesPerPage \in Nat
  BY SizesAssumption DEF StateRec
<1> QED BY <1>1 DEF StatePages

\* So the bios to such a target do not reach the pages of any state there.
LEMMA ZonesBeforeState ==
  ASSUME NEW t \in [start : Nat, len : Nat], Supported(t), NEW s \in StateRec
  PROVE  HostArea(t) \cap StateArea(PstoreLba(t.len \div DefaultSize), s) = {}
<1>1. HostArea(t) \subseteq 0..(t.len - 1)
  BY PlaceOfSupported DEF HostArea
<1>2. StateArea(PstoreLba(t.len \div DefaultSize), s) = t.len..(t.len + StatePages(s) - 1)
  BY PlaceOfSupported DEF StateArea
<1> QED BY <1>1, <1>2, PagesType

-----------------------------------------------------------------------------
(* Type correctness.                                                       *)

\* The states the code builds have the fields of one.
LEMMA StateTypes ==
  /\ NoState \in StateRec
  /\ \A n \in Nat, s \in Nat, def \in Nat, v \in 0..MaxVer :
       DefaultState(n, s, def, v) \in StateRec
<1>1. 0 \in 0..MaxVer
  BY SizesAssumption
<1> QED BY <1>1 DEF NoState, DefaultState, StateRec

\* Saving keeps the type of the device.
LEMMA SavedTypes ==
  ASSUME TypeOK, NEW s \in StateRec, NEW lba \in Nat
  PROVE  WithSaved(lba, s) \in [Blocks -> [of : StateRec, part : Nat]]
<1> SUFFICES ASSUME NEW x \in Blocks
             PROVE  WithSaved(lba, s)[x] \in [of : StateRec, part : Nat]
  BY DEF WithSaved
<1>1. x \in Nat
  BY DEF Blocks
<1>2. CASE x \in StateArea(lba, s)
  <2>1. x - lba + 1 \in Nat
    BY <1>1, <1>2 DEF StateArea
  <2> QED BY <1>2, <2>1 DEF WithSaved, Saved
<1>3. CASE x \notin StateArea(lba, s)
  BY <1>3 DEF WithSaved, TypeOK
<1> QED BY <1>2, <1>3

\* What a load takes the first zone's length from is a length, and the zone
\* size made of it is not 0.
LEMMA LoadedTypes ==
  ASSUME NEW s \in StateRec, NEW length \in LoadedZone0(s)
  PROVE  length \in Nat /\ SizeOf(length) \in Nat \ {0}
<1>1. length \in Nat
  BY SizesAssumption DEF LoadedZone0, StateRec
<1> QED BY <1>1 DEF SizeOf

\* A promise is one of a target and a state.
LEMMA PromiseTypes ==
  ASSUME NEW t \in [start : Nat, len : Nat], NEW s \in StateRec, NEW lba, Promise(t, s, lba)
  PROVE  promise' \in [start : Nat, len : Nat, of : StateRec]
  BY StateTypes DEF Promise

\* The device starts with the right types.
LEMMA TargetInit == Init => TypeOK
<1> SUFFICES ASSUME Init PROVE TypeOK
  OBVIOUS
<1>1. Foreign \in [of : StateRec, part : Nat]
  BY StateTypes DEF Foreign
<1>2. NoState \in StateRec
  BY StateTypes
<1>3. 0 \in 0..(Wrap - 1) /\ 0 \in 0..MaxVer
  BY SizesAssumption
<1>4. single \in BOOLEAN /\ pc \in [Creators -> {"none", "begun", "live"}]
  BY DEF Init
<1>5. /\ num \in Nat /\ size \in Nat \ {0} /\ numdef \in Nat /\ capacity \in Nat
      /\ pstore \in 0..(Wrap - 1) /\ ver \in 0..MaxVer
  BY <1>3 DEF Init
<1>6. state \in StateRec /\ disk \in [Blocks -> [of : StateRec, part : Nat]]
  BY <1>1, <1>2 DEF Init
<1>7. /\ target \in [Creators -> [start : Nat, len : Nat]]
      /\ promise \in [start : Nat, len : Nat, of : StateRec]
  BY <1>2 DEF Init
<1> QED BY <1>4, <1>5, <1>6, <1>7 DEF TypeOK

\* A constructor, in either half.
LEMMA CtrTyped ==
  ASSUME TypeOK, NEW c \in Creators,
         \/ \E start \in Starts, len \in Lens : CtrBegin(c, start, len)
         \/ CtrLoad(c) \/ CtrDefault(c)
  PROVE  TypeOK'
<1>0. target[c] \in [start : Nat, len : Nat] /\ target[c].len \in Nat
  BY DEF TypeOK
<1> DEFINE n == target[c].len \div DefaultSize
<1>1. n \in Nat /\ PstoreLba(n) \in 0..(Wrap - 1) /\ PstoreLba(n) \in Nat
  BY <1>0, PlaceType
<1>2. ASSUME NEW start \in Starts, NEW len \in Lens, CtrBegin(c, start, len) PROVE TypeOK'
  <2>1. start \in Nat /\ len \in Nat
    BY SizesAssumption
  <2> QED BY <1>2, <2>1 DEF CtrBegin, globals, TypeOK
<1>3. ASSUME CtrLoad(c) PROVE TypeOK'
  <2> DEFINE found == disk[PstoreLba(n)].of
  <2>1. found \in StateRec
    BY <1>3 DEF CtrLoad, Loadable, TypeOK
  <2>2. PICK length \in LoadedZone0(found) :
          size' = SizeOf(length) /\ state' = [found EXCEPT !.base = found.num, !.zone0 = length]
    BY <1>3 DEF CtrLoad
  <2>3. size' \in Nat \ {0} /\ state' \in StateRec
    <3>1. length \in Nat /\ SizeOf(length) \in Nat \ {0}
      BY <2>1, <2>2, LoadedTypes
    <3> QED BY <2>1, <2>2, <3>1 DEF StateRec
  <2>4. promise' \in [start : Nat, len : Nat, of : StateRec]
    BY <1>3, StateTypes DEF CtrLoad, TypeOK
  <2>5. numdef' = n /\ pstore' = PstoreLba(n) /\ capacity' = target[c].len /\ num' = found.num
    BY <1>3 DEF CtrLoad, InitZoneDefault
  <2>6. /\ single' = TRUE /\ pc' = [pc EXCEPT ![c] = "live"]
        /\ target' = target /\ disk' = disk /\ ver' = ver
    BY <1>3 DEF CtrLoad, Constructed
  <2>7. num' \in Nat
    BY <2>1, <2>5 DEF StateRec
  <2> HIDE DEF n, found
  <2> QED BY <1>0, <1>1, <2>3, <2>4, <2>5, <2>6, <2>7 DEF TypeOK
<1>4. ASSUME CtrDefault(c) PROVE TypeOK'
  <2> DEFINE s == DefaultState(n, DefaultSize, n, 0)
  <2>1. s \in StateRec
    BY <1>1, StateTypes, SizesAssumption
  <2>2. disk' \in [Blocks -> [of : StateRec, part : Nat]]
    BY <1>1, <1>4, <2>1, SavedTypes DEF CtrDefault
  <2>3. promise' \in [start : Nat, len : Nat, of : StateRec]
    BY <1>0, <1>4, <2>1, PromiseTypes DEF CtrDefault
  <2>4. /\ numdef' = n /\ pstore' = PstoreLba(n) /\ capacity' = target[c].len
        /\ num' = n /\ size' = DefaultSize /\ state' = s
    BY <1>4 DEF CtrDefault, InitZoneDefault
  <2>5. /\ single' = TRUE /\ pc' = [pc EXCEPT ![c] = "live"]
        /\ target' = target /\ ver' = ver
    BY <1>4 DEF CtrDefault, Constructed
  <2>6. DefaultSize \in Nat \ {0}
    BY SizesAssumption
  <2> HIDE DEF n, s
  <2> QED BY <1>0, <1>1, <2>1, <2>2, <2>3, <2>4, <2>5, <2>6 DEF TypeOK
<1> QED BY <1>2, <1>3, <1>4

\* What happens to a target that lives, and its end.
LEMMA LiveTyped ==
  ASSUME TypeOK, NEW c \in Creators, Dtr(c) \/ MapWrite(c) \/ Save(c) \/ Flush(c)
  PROVE  TypeOK'
<1>0. target[c] \in [start : Nat, len : Nat] /\ state \in StateRec /\ pstore \in Nat
  BY DEF TypeOK
<1>1. CASE Dtr(c)
  BY <1>1, StateTypes DEF Dtr, TypeOK
<1>2. CASE MapWrite(c)
  <2>1. Foreign \in [of : StateRec, part : Nat]
    BY StateTypes DEF Foreign
  <2>2. ver' \in 0..MaxVer /\ ver' = ver + 1
    BY <1>2, SizesAssumption DEF MapWrite, Changed, TypeOK
  <2>3. state' \in StateRec
    BY <1>0, <1>2, <2>2 DEF MapWrite, StateRec
  <2>4. disk' \in [Blocks -> [of : StateRec, part : Nat]]
    BY <1>2, <2>1 DEF MapWrite, TypeOK
  <2> QED BY <1>2, <2>2, <2>3, <2>4 DEF MapWrite, globals, TypeOK
<1>3. CASE Save(c)
  BY <1>0, <1>3, SavedTypes, PromiseTypes DEF Save, globals, TypeOK
<1>4. CASE Flush(c)
  <2>1. disk' \in [Blocks -> [of : StateRec, part : Nat]]
    <3>1. CASE disk' = WithSaved(pstore, state)
      BY <1>0, <3>1, SavedTypes
    <3>2. CASE disk' = [disk EXCEPT ![pstore] = Saved(state, 0)]
      <4>1. Saved(state, 0) \in [of : StateRec, part : Nat]
        BY <1>0 DEF Saved
      <4> QED BY <3>2, <4>1 DEF TypeOK
    <3> QED BY <1>4, <3>1, <3>2 DEF Flush
  <2>2. promise' \in [start : Nat, len : Nat, of : StateRec]
    BY <1>0, <1>4, PromiseTypes, StateTypes DEF Flush, TypeOK
  <2> QED BY <1>4, <2>1, <2>2 DEF Flush, globals, TypeOK
<1> QED BY <1>1, <1>2, <1>3, <1>4

\* The ioctls.
LEMMA ConfigTyped ==
  ASSUME TypeOK, Config
  PROVE  TypeOK'
<1>1. \A v : v = ver + 1 /\ Changed => v \in 0..MaxVer
  BY SizesAssumption DEF Changed, TypeOK
<1>2. ASSUME NEW s \in Sizes, SetZoneSize(s) \/ SetZoneSizeNoMem(s) PROVE TypeOK'
  <2>1. s \in Nat \ {0} /\ capacity \div s \in Nat
    <3>1. s \in Nat \ {0} /\ capacity \in Nat
      BY SizesAssumption DEF TypeOK
    <3> QED BY <3>1
  <2>2. CASE SetZoneSize(s)
    <3>1. num' \in Nat /\ ver + 1 \in 0..MaxVer /\ numdef \in Nat
      BY <1>1, <2>1, <2>2 DEF SetZoneSize, TypeOK
    <3>2. DefaultState(num', s, numdef, ver + 1) \in StateRec
      BY <2>1, <3>1, StateTypes
    <3> QED BY <2>1, <2>2, <3>1, <3>2 DEF SetZoneSize, Changed, TypeOK
  <2>3. CASE SetZoneSizeNoMem(s)
    BY <2>1, <2>3 DEF SetZoneSizeNoMem, TypeOK
  <2> QED BY <1>2, <2>2, <2>3
<1>3. CASE ResetZoneConfig
  <2>1. ver + 1 \in 0..MaxVer /\ numdef \in Nat /\ DefaultSize \in Nat \ {0}
    BY <1>1, <1>3, SizesAssumption DEF ResetZoneConfig, TypeOK
  <2>2. DefaultState(numdef, DefaultSize, numdef, ver + 1) \in StateRec
    BY <2>1, StateTypes
  <2> QED BY <1>3, <2>1, <2>2 DEF ResetZoneConfig, Changed, TypeOK
<1>4. CASE ClearZones
  <2>1. ver + 1 \in 0..MaxVer
    BY <1>1, <1>4 DEF ClearZones
  <2> QED BY <1>4, <2>1 DEF ClearZones, Changed, TypeOK, StateRec
<1>5. CASE AddZone
  <2>1. ver + 1 \in 0..MaxVer
    BY <1>1, <1>5 DEF AddZone
  <2>2. state' \in StateRec
    <3>1. state \in StateRec /\ size \in Nat
      BY DEF TypeOK
    <3> DEFINE first == IF num = 0 THEN size ELSE state.zone0
               count == state.num + 1
               last == ver + 1
    <3>2. state' = [state EXCEPT !.num = count, !.zone0 = first, !.ver = last]
      BY <1>5 DEF AddZone
    <3>3. first \in Nat /\ count \in Nat /\ last \in 0..MaxVer
      BY <2>1, <3>1 DEF StateRec
    <3> HIDE DEF first, count, last
    <3> QED BY <3>1, <3>2, <3>3 DEF StateRec
  <2> QED BY <1>5, <2>1, <2>2 DEF AddZone, Changed, TypeOK
<1> QED BY <1>2, <1>3, <1>4, <1>5 DEF Config

\* Every step keeps the types.
LEMMA TargetStep == TypeOK /\ [Next]_vars => TypeOK'
<1> SUFFICES ASSUME TypeOK, [Next]_vars PROVE TypeOK'
  OBVIOUS
<1>1. ASSUME Reload PROVE TypeOK'
  <2>1. NoState \in StateRec
    BY StateTypes
  <2>2. 0 \in 0..(Wrap - 1)
    BY SizesAssumption
  <2>3. single' \in BOOLEAN /\ pc' \in [Creators -> {"none", "begun", "live"}]
    BY <1>1 DEF Reload
  <2>4. /\ num' \in Nat /\ size' \in Nat \ {0} /\ numdef' \in Nat /\ capacity' \in Nat
        /\ pstore' \in 0..(Wrap - 1) /\ state' \in StateRec
    BY <1>1, <2>1, <2>2 DEF Reload
  <2> QED BY <1>1, <2>3, <2>4 DEF Reload, TypeOK
<1>2. ASSUME UNCHANGED vars PROVE TypeOK'
  BY <1>2 DEF vars, TypeOK
<1> QED BY <1>1, <1>2, CtrTyped, LiveTyped, ConfigTyped DEF Next, Ctr

\* Whatever targets follow each other and whatever a constructor comes upon,
\* every global keeps its type: a zone has at least one block, although
\* smrsim_persistence_thread takes the zone size from the first zone it loads.
THEOREM TargetTypeCorrect == Spec => []TypeOK
BY TargetInit, TargetStep, PTL DEF Spec

-----------------------------------------------------------------------------
(* One process creates targets: the room behind the zones.                 *)

\* No two processes run the constructor; with two the globals may be those of
\* one target and the bios of the other (see SingleTarget).
OneCreator == \A c, d \in Creators : c = d

\* Two lengths whose states are placed at the same block have as many default
\* zones.
PlacesDistinct ==
  \A k, l \in Lens :
    PstoreLba(k \div DefaultSize) = PstoreLba(l \div DefaultSize)
      => k \div DefaultSize = l \div DefaultSize

\* So it is of lengths pstore_lba is wide enough for.
LEMMA PlacesBelowWrap ==
  ASSUME \A l \in Lens : l < Wrap
  PROVE  PlacesDistinct
<1> SUFFICES ASSUME NEW k \in Lens, NEW l \in Lens,
                    PstoreLba(k \div DefaultSize) = PstoreLba(l \div DefaultSize)
             PROVE  k \div DefaultSize = l \div DefaultSize
  BY DEF PlacesDistinct
<1>1. /\ k \in Nat /\ l \in Nat /\ k < Wrap /\ l < Wrap
      /\ DefaultSize \in Nat \ {0} /\ Wrap \in Nat \ {0}
  BY SizesAssumption
<1> DEFINE n == k \div DefaultSize
           m == l \div DefaultSize
<1>2. n \in Nat /\ m \in Nat /\ n * DefaultSize <= k /\ m * DefaultSize <= l
  BY <1>1
<1>3. n * DefaultSize \in Nat /\ m * DefaultSize \in Nat
  BY <1>1, <1>2
<1>4. (n * DefaultSize) % Wrap = n * DefaultSize /\ (m * DefaultSize) % Wrap = m * DefaultSize
  BY <1>1, <1>2, <1>3
<1>5. n * DefaultSize = m * DefaultSize
  BY <1>4 DEF PstoreLba
<1> HIDE DEF n, m
<1>6. n = m
  BY <1>1, <1>2, <1>5
<1> QED BY <1>6 DEF n, m

\* While a target lives the globals and the zone state are of its length.
LiveGlobals ==
  \A c \in Creators :
    /\ pc[c] # "none" => target[c].len \in Lens
    /\ pc[c] = "live" => /\ numdef = target[c].len \div DefaultSize
                         /\ pstore = PstoreLba(numdef)

\* It follows from the types.
LEMMA LiveGlobalsStep ==
  ASSUME OneCreator
  PROVE  TypeOK /\ LiveGlobals /\ [Next]_vars => LiveGlobals'
<1> SUFFICES ASSUME TypeOK, LiveGlobals, [Next]_vars, NEW c \in Creators
             PROVE  /\ pc'[c] # "none" => target'[c].len \in Lens
                    /\ pc'[c] = "live" => /\ numdef' = target'[c].len \div DefaultSize
                                          /\ pstore' = PstoreLba(numdef')
  BY DEF LiveGlobals
<1> DEFINE Good == /\ pc'[c] # "none" => target'[c].len \in Lens
                   /\ pc'[c] = "live" => /\ numdef' = target'[c].len \div DefaultSize
                                         /\ pstore' = PstoreLba(numdef')
<1>1. \A d \in Creators : d = c
  BY DEF OneCreator
<1>2. pc \in [Creators -> {"none", "begun", "live"}]
      /\ target \in [Creators -> [start : Nat, len : Nat]]
  BY DEF TypeOK
<1>3. ASSUME NEW start \in Starts, NEW len \in Lens, CtrBegin(c, start, len) PROVE Good
  BY <1>2, <1>3 DEF CtrBegin
<1>4. ASSUME CtrLoad(c) \/ CtrDefault(c) PROVE Good
  <2>1. /\ pc[c] = "begun" /\ target' = target
        /\ numdef' = target[c].len \div DefaultSize
        /\ pstore' = PstoreLba(target[c].len \div DefaultSize)
    BY <1>4 DEF CtrLoad, CtrDefault, InitZoneDefault
  <2> QED BY <2>1 DEF LiveGlobals
<1>5. ASSUME Dtr(c) \/ Reload PROVE Good
  BY <1>2, <1>5 DEF Dtr, Reload
<1>6. ASSUME UNCHANGED <<pc, target, numdef, pstore>> PROVE Good
  BY <1>6 DEF LiveGlobals
<1>7. ASSUME MapWrite(c) \/ Save(c) \/ Flush(c) PROVE UNCHANGED <<pc, target, numdef, pstore>>
  BY <1>7 DEF MapWrite, Save, Flush, globals
<1>8. ASSUME Config PROVE UNCHANGED <<pc, target, numdef, pstore>>
  BY <1>8 DEF Config, SetZoneSize, SetZoneSizeNoMem, ResetZoneConfig, ClearZones, AddZone
<1>9. UNCHANGED vars => UNCHANGED <<pc, target, numdef, pstore>>
  BY DEF vars, globals
<1> HIDE DEF Good
<1>10. Good
  BY <1>1, <1>3, <1>4, <1>5, <1>6, <1>7, <1>8, <1>9 DEF Next, Ctr
<1> QED BY <1>10 DEF Good

\* No target lives at first.
LEMMA LiveGlobalsInit == Init => LiveGlobals
  BY DEF Init, LiveGlobals

\* While one process at a time creates targets, the saved zone state lies
\* behind every block that bios to a target of whole default zones reach, in
\* spite of the globals, the zone size and the tables earlier targets left.
THEOREM RoomIsLeft ==
  ASSUME OneCreator
  PROVE  Spec => []StateBehindZones
<1>1. TypeOK /\ LiveGlobals => StateBehindZones
  <2> SUFFICES ASSUME TypeOK, LiveGlobals, NEW c \in Live, Supported(target[c])
               PROVE  HostArea(target[c]) \cap StateArea(pstore, state) = {}
    BY DEF StateBehindZones
  <2>1. /\ target[c] \in [start : Nat, len : Nat] /\ state \in StateRec
        /\ pstore = PstoreLba(target[c].len \div DefaultSize)
    BY DEF Live, LiveGlobals, TypeOK
  <2> QED BY <2>1, ZonesBeforeState
<1> QED BY <1>1, TargetInit, TargetStep, LiveGlobalsInit, LiveGlobalsStep, PTL DEF Spec

-----------------------------------------------------------------------------
(* A target takes over its own state.                                      *)

\* Every header on the device lies where a target of as many default zones
\* looks for it, and so does the one a living target is about to save.
HeadersInPlace ==
  /\ \A c \in Creators : pc[c] = "live" => state.made = numdef
  /\ \A x \in Blocks : disk[x].part = 1 =>
       \E l \in Lens : disk[x].of.made = l \div DefaultSize /\ x = PstoreLba(l \div DefaultSize)

\* A save puts one header on the device, at its start.
LEMMA SavedHeader ==
  ASSUME NEW s, NEW lba \in Nat, NEW x \in Blocks, WithSaved(lba, s)[x].part = 1
  PROVE  \/ x = lba /\ WithSaved(lba, s)[x].of = s
         \/ WithSaved(lba, s)[x] = disk[x]
<1>1. x \in Nat
  BY DEF Blocks
<1>2. CASE x \in StateArea(lba, s)
  <2>1. WithSaved(lba, s)[x] = [of |-> s, part |-> x - lba + 1]
    BY <1>2 DEF WithSaved, Saved
  <2>2. x = lba
    BY <1>1, <2>1
  <2> QED BY <2>1, <2>2
<1>3. CASE x \notin StateArea(lba, s)
  BY <1>3 DEF WithSaved
<1> QED BY <1>2, <1>3

\* What a constructor reads at its place, when it loads, is its own.
LEMMA LoadsOwn ==
  ASSUME TypeOK, LiveGlobals, HeadersInPlace, PlacesDistinct,
         NEW c \in Creators, CtrLoad(c)
  PROVE  state'.made = numdef' /\ numdef' = target[c].len \div DefaultSize
<1> DEFINE n == target[c].len \div DefaultSize
           found == disk[PstoreLba(n)].of
<1>1. /\ numdef' = n /\ pc[c] = "begun"
      /\ PstoreLba(n) \in Blocks /\ disk[PstoreLba(n)].part = 1
  BY DEF CtrLoad, InitZoneDefault, Loadable
<1>2. target[c].len \in Lens
  BY <1>1 DEF LiveGlobals
<1>3. PICK l \in Lens : found.made = l \div DefaultSize /\ PstoreLba(n) = PstoreLba(l \div DefaultSize)
  BY <1>1 DEF HeadersInPlace
<1>4. found.made = n
  BY <1>2, <1>3 DEF PlacesDistinct
<1>5. found \in StateRec
  BY <1>1 DEF TypeOK
<1>6. PICK length : state' = [found EXCEPT !.base = found.num, !.zone0 = length]
  BY DEF CtrLoad
<1>7. state'.made = found.made
  BY <1>5, <1>6 DEF StateRec
<1> QED BY <1>1, <1>4, <1>7

\* Headers stay in place.
LEMMA HeadersStep ==
  ASSUME OneCreator, PlacesDistinct
  PROVE  TypeOK /\ LiveGlobals /\ HeadersInPlace /\ [Next]_vars => HeadersInPlace'
<1> SUFFICES ASSUME TypeOK, LiveGlobals, HeadersInPlace, [Next]_vars PROVE HeadersInPlace'
  OBVIOUS
<1>1. \A c, d \in Creators : c = d
  BY DEF OneCreator
<1>2. /\ pc \in [Creators -> {"none", "begun", "live"}] /\ state \in StateRec
      /\ disk \in [Blocks -> [of : StateRec, part : Nat]] /\ pstore \in Nat
  BY DEF TypeOK
<1> DEFINE Made == \A c \in Creators : pc'[c] = "live" => state'.made = numdef'
           Placed(x) == x \in Blocks /\ disk'[x].part = 1 =>
             \E l \in Lens : /\ disk'[x].of.made = l \div DefaultSize
                             /\ x = PstoreLba(l \div DefaultSize)
<1>3. SUFFICES ASSUME NEW x PROVE Made /\ Placed(x)
  BY DEF HeadersInPlace
<1>4. disk'[x] = disk[x] => Placed(x)
  BY DEF HeadersInPlace
<1>5. ASSUME NEW s, NEW l \in Lens, s.made = l \div DefaultSize,
             disk' = WithSaved(PstoreLba(l \div DefaultSize), s)
      PROVE  Placed(x)
  <2>1. PstoreLba(l \div DefaultSize) \in Nat
    BY PlaceType, SizesAssumption
  <2>2. SUFFICES ASSUME x \in Blocks, disk'[x].part = 1
                 PROVE  \E k \in Lens : /\ disk'[x].of.made = k \div DefaultSize
                                        /\ x = PstoreLba(k \div DefaultSize)
    OBVIOUS
  <2>3. CASE x = PstoreLba(l \div DefaultSize) /\ disk'[x].of = s
    BY <1>5, <2>3
  <2>4. CASE disk'[x] = disk[x]
    BY <2>2, <2>4 DEF HeadersInPlace
  <2> QED BY <1>5, <2>1, <2>2, <2>3, <2>4, SavedHeader
<1>6. ASSUME NEW c \in Creators, pc[c] = "live"
      PROVE  /\ target[c].len \in Lens /\ state.made = target[c].len \div DefaultSize
             /\ pstore = PstoreLba(target[c].len \div DefaultSize)
  BY <1>6 DEF LiveGlobals, HeadersInPlace
<1>7. ASSUME state'.made = numdef' \/ UNCHANGED <<pc, state, numdef>> PROVE Made
  BY <1>7 DEF HeadersInPlace
<1>8. ASSUME NEW c \in Creators, NEW start \in Starts, NEW len \in Lens, CtrBegin(c, start, len)
      PROVE  Made /\ Placed(x)
  <2>1. Made
    BY <1>2, <1>8 DEF CtrBegin, globals, HeadersInPlace
  <2> QED BY <1>4, <1>8, <2>1 DEF CtrBegin
<1>9. ASSUME NEW c \in Creators, CtrLoad(c) PROVE Made /\ Placed(x)
  BY <1>4, <1>7, <1>9, LoadsOwn DEF CtrLoad
<1>10. ASSUME NEW c \in Creators, CtrDefault(c) PROVE Made /\ Placed(x)
  <2> DEFINE n == target[c].len \div DefaultSize
             s == DefaultState(n, DefaultSize, n, 0)
  <2>1. /\ s.made = n /\ state' = s /\ numdef' = n /\ target[c].len \in Lens
        /\ disk' = WithSaved(PstoreLba(n), s)
    BY <1>10 DEF CtrDefault, InitZoneDefault, DefaultState, LiveGlobals
  <2> HIDE DEF s
  <2> QED BY <1>5, <1>7, <2>1
<1>11. ASSUME NEW c \in Creators, Dtr(c) PROVE Made /\ Placed(x)
  <2>1. Made
    BY <1>1, <1>2, <1>11 DEF Dtr
  <2> QED BY <1>4, <1>11, <2>1 DEF Dtr
<1>12. ASSUME NEW c \in Creators, MapWrite(c) PROVE Made /\ Placed(x)
  <2>1. PICK y : /\ state' = [state EXCEPT !.ver = ver + 1]
                 /\ disk' = [disk EXCEPT ![y] = Foreign] /\ pc[c] = "live"
                 /\ UNCHANGED <<globals, pc>>
    BY <1>12 DEF MapWrite
  <2>2. Made
    <3>1. state'.made = state.made /\ numdef' = numdef /\ state.made = numdef
      BY <1>2, <2>1 DEF StateRec, globals, HeadersInPlace
    <3> QED BY <1>7, <3>1
  <2>3. Placed(x)
    <3>1. x \in Blocks => disk'[x] = disk[x] \/ disk'[x].part = 0
      BY <1>2, <2>1 DEF Foreign
    <3> QED BY <1>4, <3>1
  <2> QED BY <2>2, <2>3
<1>13. ASSUME NEW c \in Creators, Save(c) \/ Flush(c) PROVE Made /\ Placed(x)
  <2>1. pc[c] = "live" /\ UNCHANGED <<pc, state, numdef>>
    BY <1>13 DEF Save, Flush, globals
  <2>2. CASE disk' = WithSaved(pstore, state)
    BY <1>5, <1>6, <1>7, <2>1, <2>2
  <2>3. CASE pstore \in Blocks /\ disk' = [disk EXCEPT ![pstore] = Saved(state, 0)]
    <3>1. CASE x = pstore
      <4>1. disk'[x].of = state
        BY <1>2, <2>3, <3>1 DEF Saved
      <4>2. Placed(x)
        BY <1>6, <2>1, <3>1, <4>1
      <4> QED BY <1>7, <2>1, <4>2
    <3>2. CASE x # pstore
      <4>1. x \in Blocks => disk'[x] = disk[x]
        BY <1>2, <2>3, <3>2
      <4> QED BY <1>4, <1>7, <2>1, <4>1
    <3> QED BY <3>1, <3>2
  <2> QED BY <1>13, <2>2, <2>3 DEF Save, Flush
<1>14. ASSUME Reload PROVE Made /\ Placed(x)
  BY <1>4, <1>14 DEF Reload
<1>15. ASSUME Config PROVE Made /\ Placed(x)
  <2>1. disk' = disk /\ numdef' = numdef /\ \E c \in Creators : pc[c] = "live"
    BY <1>15 DEF Config, SetZoneSize, SetZoneSizeNoMem, ResetZoneConfig, ClearZones,
                 AddZone, Live
  <2>2. state.made = numdef
    BY <2>1 DEF HeadersInPlace
  <2>3. state'.made = numdef
    <3>1. ASSUME ClearZones \/ AddZone PROVE state'.made = state.made
      BY <1>2, <3>1 DEF ClearZones, AddZone, StateRec
    <3> QED BY <1>15, <2>2, <3>1
            DEF Config, SetZoneSize, SetZoneSizeNoMem, ResetZoneConfig, DefaultState
  <2> QED BY <1>4, <1>7, <2>1, <2>3
<1>16. ASSUME UNCHANGED vars PROVE Made /\ Placed(x)
  <2>1. disk' = disk /\ UNCHANGED <<pc, state, numdef>>
    BY <1>16 DEF vars, globals
  <2> QED BY <1>4, <1>7, <2>1
<1> HIDE DEF Made, Placed
<1> QED
  BY <1>8, <1>9, <1>10, <1>11, <1>12, <1>13, <1>14, <1>15, <1>16 DEF Next, Ctr

\* The headers are in place on a device that holds none.
LEMMA HeadersInit == Init => HeadersInPlace
  BY DEF Init, HeadersInPlace, Foreign

\* Only the end of a constructor brings a target to life.
LEMMA ComesAlive ==
  ASSUME TypeOK, [Next]_vars, NEW c \in Creators, pc[c] = "begun", pc'[c] = "live"
  PROVE  CtrLoad(c) \/ CtrDefault(c)
<1>0. pc \in [Creators -> {"none", "begun", "live"}]
  BY DEF TypeOK
<1>1. pc' # pc
  OBVIOUS
<1>2. ~Config
  BY <1>1 DEF Config, SetZoneSize, SetZoneSizeNoMem, ResetZoneConfig, ClearZones, AddZone
<1>3. \A d \in Creators : ~MapWrite(d) /\ ~Save(d) /\ ~Flush(d)
  BY <1>1 DEF MapWrite, Save, Flush
<1>4. ~Reload /\ \A d \in Creators : ~Dtr(d)
  BY <1>0 DEF Reload, Dtr
<1>5. \A d \in Creators, start \in Starts, len \in Lens : ~CtrBegin(d, start, len)
  BY <1>0 DEF CtrBegin
<1>6. \A d \in Creators : CtrLoad(d) \/ CtrDefault(d) => d = c
  BY <1>0 DEF CtrLoad, CtrDefault, Constructed
<1>7. ~UNCHANGED vars
  BY <1>1 DEF vars
<1> QED BY <1>2, <1>3, <1>4, <1>5, <1>6, <1>7 DEF Next, Ctr

\* While one process at a time creates targets, and no two lengths are placed
\* at the same block, a constructor takes over only state that a target of as
\* many default zones saved, whatever others left on the device.
THEOREM OnlyOwnState ==
  ASSUME OneCreator, PlacesDistinct
  PROVE  Spec => OwnState
<1>1. TypeOK /\ LiveGlobals /\ HeadersInPlace /\ [Next]_vars =>
        [\A c \in Creators :
           /\ pc[c] = "begun" /\ pc'[c] = "live"
           /\ Supported(target[c])
           => state'.made = numdef']_vars
  <2> SUFFICES ASSUME TypeOK, LiveGlobals, HeadersInPlace, [Next]_vars,
                      NEW c \in Creators, pc[c] = "begun", pc'[c] = "live"
               PROVE  state'.made = numdef'
    OBVIOUS
  <2>1. CASE CtrLoad(c)
    BY <2>1, LoadsOwn
  <2>2. CASE CtrDefault(c)
    BY <2>2 DEF CtrDefault, InitZoneDefault, DefaultState
  <2> QED BY <2>1, <2>2, ComesAlive
<1> QED
  BY <1>1, TargetInit, TargetStep, LiveGlobalsInit, LiveGlobalsStep, HeadersInit,
     HeadersStep, PTL DEF Spec, OwnState

-----------------------------------------------------------------------------
(* What was saved as a whole is restored.                                  *)

\* The target the last whole save was for, and the device it left.
Promised == [start |-> promise.start, len |-> promise.len]
Whole(s, lba) == \A x \in StateArea(lba, s) : x \in Blocks /\ disk[x] = Saved(s, x - lba)

\* The last whole save is on the device still, and the target that lives is
\* the one it was for; NoState says there is none.
PromiseKept ==
  promise.of # NoState =>
    /\ \A c \in Creators : pc[c] = "live" => target[c] = Promised
    /\ Supported(Promised) => Whole(promise.of, PstoreLba(promise.len \div DefaultSize))

\* A save that finds room leaves the device whole.
LEMMA SavedWhole ==
  ASSUME NEW s, NEW lba, StateArea(lba, s) \subseteq Blocks, disk' = WithSaved(lba, s)
  PROVE  Whole(s, lba)'
<1> SUFFICES ASSUME NEW x \in StateArea(lba, s)
             PROVE  x \in Blocks /\ disk'[x] = Saved(s, x - lba)
  BY DEF Whole, StateArea, StatePages
<1>1. x \in Blocks
  OBVIOUS
<1> QED BY <1>1 DEF WithSaved

\* A save of the target that lives makes and keeps the promise.
LEMMA SaveKeepsPromise ==
  ASSUME TypeOK, OneCreator, NEW c \in Creators, NEW s,
         NEW lba, lba = PstoreLba(target[c].len \div DefaultSize),
         disk' = WithSaved(lba, s), Promise(target[c], s, lba), target' = target
  PROVE  PromiseKept'
<1>0. target[c] \in [start : Nat, len : Nat]
  BY DEF TypeOK
<1>1. /\ promise' = [start |-> target[c].start, len |-> target[c].len,
                     of |-> IF StateArea(lba, s) \subseteq Blocks THEN s ELSE NoState]
      /\ disk' = WithSaved(lba, s)
  BY DEF Promise
<1>2. promise'.start = target[c].start /\ promise'.len = target[c].len
  BY <1>1
<1>3. Promised' = target[c]
  BY <1>0, <1>2 DEF Promised
<1> SUFFICES ASSUME promise'.of # NoState
             PROVE  /\ \A d \in Creators : pc'[d] = "live" => target'[d] = Promised'
                    /\ Whole(promise.of, PstoreLba(promise.len \div DefaultSize))'
  BY DEF PromiseKept
<1>4. StateArea(lba, s) \subseteq Blocks /\ promise'.of = s
  BY <1>1
<1>5. Whole(s, lba)'
  BY <1>1, <1>4, SavedWhole
<1>6. PstoreLba(promise'.len \div DefaultSize) = lba
  BY <1>2
<1>7. \A d \in Creators : d = c
  BY DEF OneCreator
<1> QED BY <1>3, <1>4, <1>5, <1>6, <1>7 DEF Whole, StateArea, StatePages

\* Nothing else breaks it: a constructor of another target gives it up, host
\* data stays in front of it.
LEMMA PromiseStep ==
  ASSUME OneCreator
  PROVE  TypeOK /\ LiveGlobals /\ PromiseKept /\ [Next]_vars => PromiseKept'
<1> SUFFICES ASSUME TypeOK, LiveGlobals, PromiseKept, [Next]_vars PROVE PromiseKept'
  OBVIOUS
<1>0. /\ pc \in [Creators -> {"none", "begun", "live"}]
      /\ target \in [Creators -> [start : Nat, len : Nat]]
      /\ promise \in [start : Nat, len : Nat, of : StateRec]
      /\ disk \in [Blocks -> [of : StateRec, part : Nat]]
  BY DEF TypeOK
<1>1. \A c, d \in Creators : c = d
  BY DEF OneCreator
<1>2. ASSUME promise'.of = NoState PROVE PromiseKept'
  BY <1>2 DEF PromiseKept
<1>3. ASSUME UNCHANGED <<disk, promise>>,
             \A c \in Creators : pc'[c] = "live" =>
               target'[c] = target[c] /\ (pc[c] = "live" \/ target[c] = Promised)
      PROVE  PromiseKept'
  BY <1>3 DEF PromiseKept, Promised, Whole
<1>4. ASSUME NEW c \in Creators, NEW start \in Starts, NEW len \in Lens, CtrBegin(c, start, len)
      PROVE  PromiseKept'
  <2>1. pc'[c] = "begun" /\ UNCHANGED <<disk, promise>>
    BY <1>0, <1>4 DEF CtrBegin
  <2> QED BY <1>1, <1>3, <2>1
<1>5. ASSUME NEW c \in Creators, CtrLoad(c) PROVE PromiseKept'
  <2>1. CASE promise.start = target[c].start /\ promise.len = target[c].len
    <3>1. target[c] = Promised
      BY <1>0, <2>1 DEF Promised
    <3>2. UNCHANGED <<disk, promise, target>>
      BY <1>5, <2>1 DEF CtrLoad
    <3> QED BY <1>1, <1>3, <3>1, <3>2
  <2>2. CASE ~(promise.start = target[c].start /\ promise.len = target[c].len)
    <3>1. promise' = [promise EXCEPT !.of = NoState]
      BY <1>5, <2>2 DEF CtrLoad
    <3> QED BY <1>0, <1>2, <3>1
  <2> QED BY <2>1, <2>2
<1>6. ASSUME NEW c \in Creators, CtrDefault(c) PROVE PromiseKept'
  BY <1>6, SaveKeepsPromise DEF CtrDefault
<1>7. ASSUME NEW c \in Creators, Dtr(c) PROVE PromiseKept'
  <2>1. UNCHANGED <<disk, promise, target>> /\ pc'[c] = "none"
    BY <1>0, <1>7 DEF Dtr
  <2> QED BY <1>1, <1>3, <2>1
<1>8. ASSUME Reload PROVE PromiseKept'
  BY <1>3, <1>8 DEF Reload
<1>9. ASSUME UNCHANGED <<disk, promise, target, pc>> PROVE PromiseKept'
  BY <1>3, <1>9
<1>10. ASSUME Config PROVE UNCHANGED <<disk, promise, target, pc>>
  BY <1>10 DEF Config, SetZoneSize, SetZoneSizeNoMem, ResetZoneConfig, ClearZones, AddZone
<1>11. ASSUME NEW c \in Creators, pc[c] = "live"
       PROVE  pstore = PstoreLba(target[c].len \div DefaultSize)
  BY <1>11 DEF LiveGlobals
<1>12. ASSUME NEW c \in Creators, Save(c) PROVE PromiseKept'
  BY <1>11, <1>12, SaveKeepsPromise DEF Save
<1>13. ASSUME NEW c \in Creators, Flush(c) PROVE PromiseKept'
  <2>1. CASE promise' = [promise EXCEPT !.of = NoState]
    BY <1>0, <1>2, <2>1
  <2>2. CASE disk' = WithSaved(pstore, state) /\ Promise(target[c], state, pstore)
    BY <1>11, <1>13, <2>2, SaveKeepsPromise DEF Flush
  <2> QED BY <1>13, <2>1, <2>2 DEF Flush
<1>14. ASSUME NEW c \in Creators, MapWrite(c) PROVE PromiseKept'
  <2>1. PICK y \in HostArea(target[c]) :
          /\ disk' = [disk EXCEPT ![y] = Foreign] /\ pc[c] = "live"
          /\ UNCHANGED <<pc, target, promise>>
    BY <1>14 DEF MapWrite
  <2> SUFFICES ASSUME promise.of # NoState
               PROVE  /\ \A d \in Creators : pc[d] = "live" => target[d] = Promised
                      /\ Supported(Promised) =>
                           Whole(promise.of, PstoreLba(promise.len \div DefaultSize))'
    BY <2>1 DEF PromiseKept, Promised
  <2>2. target[c] = Promised
    BY <2>1 DEF PromiseKept
  <2>3. ASSUME Supported(Promised)
        PROVE  Whole(promise.of, PstoreLba(promise.len \div DefaultSize))'
    <3> DEFINE lba == PstoreLba(promise.len \div DefaultSize)
    <3>1. target[c].len = promise.len /\ target[c] \in [start : Nat, len : Nat]
          /\ promise.of \in StateRec
      BY <1>0, <2>2 DEF Promised
    <3>2. HostArea(target[c]) \cap StateArea(lba, promise.of) = {}
      BY <2>2, <2>3, <3>1, ZonesBeforeState
    <3>3. Whole(promise.of, lba)
      BY <2>3 DEF PromiseKept
    <3> HIDE DEF lba
    <3>4. \A x \in StateArea(lba, promise.of) :
            x \in Blocks /\ disk'[x] = Saved(promise.of, x - lba)
      BY <1>0, <2>1, <3>2, <3>3 DEF Whole
    <3> QED BY <2>1, <3>4 DEF Whole, lba, StateArea, StatePages
  <2> QED BY <2>3 DEF PromiseKept
<1>15. ASSUME UNCHANGED vars PROVE UNCHANGED <<disk, promise, target, pc>>
  BY <1>15 DEF vars
<1> QED
  BY <1>4, <1>5, <1>6, <1>7, <1>8, <1>9, <1>10, <1>12, <1>13, <1>14, <1>15
  DEF Next, Ctr

\* A device on which nothing was saved keeps its word.
LEMMA PromiseInit == Init => PromiseKept
  BY DEF Init, PromiseKept

\* A state that lies whole at a place is what a constructor finds there.
LEMMA WholeLoads ==
  ASSUME NEW s \in StateRec, NEW lba \in Nat, Whole(s, lba)
  PROVE  Loadable(lba) /\ disk[lba].of = s
<1>1. lba \in StateArea(lba, s)
  BY PagesType DEF StateArea
<1>2. lba \in Blocks /\ disk[lba] = Saved(s, lba - lba)
  BY <1>1 DEF Whole
<1>3. disk[lba].part = 1 /\ disk[lba].of = s
  BY <1>2 DEF Saved
<1> QED BY <1>2, <1>3 DEF Loadable, Whole

\* A table with as many zones as it was laid out for, the first among them, is
\* taken over as it is.
LEMMA LoadsAsSaved ==
  ASSUME TypeOK, NEW c \in Creators, CtrLoad(c),
         NEW s \in StateRec, s = disk[PstoreLba(target[c].len \div DefaultSize)].of,
         s.num = s.base, s.zone0 > 0
  PROVE  state' = s /\ num' = s.num /\ size' = s.zone0
<1>1. PICK length \in LoadedZone0(s) :
        size' = SizeOf(length) /\ state' = [s EXCEPT !.base = s.num, !.zone0 = length]
  BY DEF CtrLoad
<1>2. length = s.zone0
  BY <1>1 DEF LoadedZone0
<1>3. size' = s.zone0
  BY <1>1, <1>2 DEF SizeOf, StateRec
<1>4. state' = s
  BY <1>1, <1>2 DEF StateRec
<1>5. num' = s.num
  BY DEF CtrLoad
<1> QED BY <1>3, <1>4, <1>5

\* While one process at a time creates targets, a target whose zone state was
\* saved as a whole gets it back, zone for zone and with the zone size it had,
\* after any removals, reloads and power failures, whatever else was written
\* to its zones meanwhile.
THEOREM RestartsRestore ==
  ASSUME OneCreator
  PROVE  Spec => RestartRestores
<1>1. TypeOK /\ PromiseKept /\ [Next]_vars =>
        [\A c \in Creators :
           LET s == promise.of IN
           /\ pc[c] = "begun" /\ pc'[c] = "live"
           /\ Supported(target[c])
           /\ target[c] = [start |-> promise.start, len |-> promise.len]
           /\ s.num = s.base /\ s.zone0 > 0
           => state' = s /\ num' = s.num /\ size' = s.zone0]_vars
  <2> DEFINE s == promise.of
  <2> SUFFICES ASSUME TypeOK, PromiseKept, [Next]_vars,
                      NEW c \in Creators, pc[c] = "begun", pc'[c] = "live",
                      Supported(target[c]), target[c] = Promised,
                      s.num = s.base, s.zone0 > 0
               PROVE  state' = s /\ num' = s.num /\ size' = s.zone0
    BY DEF Promised
  <2> DEFINE lba == PstoreLba(target[c].len \div DefaultSize)
  <2>1. /\ s \in StateRec /\ s # NoState
        /\ target[c] \in [start : Nat, len : Nat] /\ target[c].len = promise.len
    BY DEF TypeOK, NoState, Promised
  <2>2. lba \in Nat
    BY <2>1, PlaceType
  <2>3. Whole(s, lba)
    BY <2>1 DEF PromiseKept
  <2>4. Loadable(lba) /\ disk[lba].of = s
    BY <2>1, <2>2, <2>3, WholeLoads
  <2>5. ~CtrDefault(c)
    BY <2>4 DEF CtrDefault
  <2>6. CtrLoad(c)
    BY <2>5, ComesAlive
  <2> QED BY <2>1, <2>4, <2>6, LoadsAsSaved
<1> QED
  BY <1>1, TargetInit, TargetStep, LiveGlobalsInit, LiveGlobalsStep, PromiseInit,
     PromiseStep, PTL DEF Spec, RestartRestores

=============================================================================
