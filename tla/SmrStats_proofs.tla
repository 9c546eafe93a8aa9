--------------------------- MODULE SmrStats_proofs ---------------------------
(***************************************************************************)
(* What TLAPS proves of SmrStats, for any number of zones, of processes    *)
(* and of violations:                                                      *)
(*   - StatsTypeCorrect: the variables keep their types, and only the      *)
(*     holder of the zone lock is inside smrsim_map;                       *)
(*   - CountsAreRight: no violation is lost and none is counted twice;     *)
(*   - SnapshotsAreRight: GET_STATS, without the zone lock, copies what    *)
(*     each counter was at some moment of the call;                        *)
(*   - LastErrorStays, ErrorsToldInOrder: what the two registers promise.  *)
(***************************************************************************)
EXTENDS SmrStats, SequenceTheorems, WellFoundedInduction, TLAPS

-----------------------------------------------------------------------------
(* The violations of a bio.                                                *)

\* The breaches of a read or a write are at most three.
LEMMA BreachesType ==
  ASSUME NEW z, NEW B, NEW E
  PROVE  /\ ReadBreaches(z, B) \in Seq(BreachRec)
         /\ WriteBreaches(z, B, E) \in Seq(BreachRec)
         /\ BarredBreaches \in Seq(BreachRec)
<1>1. ASSUME NEW cond, NEW b \in BreachRec
      PROVE  If(cond, b) \in Seq(BreachRec)
  BY <1>1 DEF If
<1>2. \A c \in Counters \cup {"none"}, l \in BOOLEAN, r \in BOOLEAN :
        Breach(c, l, r) \in BreachRec
  BY DEF Breach, BreachRec
<1>3. ReadBreaches(z, B) \in Seq(BreachRec)
  BY <1>1, <1>2, ConcatProperties DEF ReadBreaches, Counters
<1>4. WriteBreaches(z, B, E) \in Seq(BreachRec)
  <2>1. CASE z \in SeqZones
    <3> DEFINE u == If("unaligned" \in B, Breach("unaligned", TRUE, TRUE))
               o == If("off" \in B, Breach("not_on_swp", "off" \notin E, "off" \notin E))
               w == If("over" \in B, Breach("write_span", "over" \notin E, "over" \notin E))
    <3>1. u \in Seq(BreachRec) /\ o \in Seq(BreachRec) /\ w \in Seq(BreachRec)
      BY <1>1, <1>2 DEF Counters
    <3> HIDE DEF u, o, w
    <3>2. u \o o \o w \in Seq(BreachRec)
      BY <3>1, ConcatProperties
    <3> QED BY <2>1, <3>2 DEF WriteBreaches, u, o, w
  <2>2. CASE z \notin SeqZones
    BY <1>1, <1>2, <2>2 DEF WriteBreaches, Counters
  <2> QED BY <2>1, <2>2
<1>5. BarredBreaches \in Seq(BreachRec)
  <2>1. Breach("none", TRUE, TRUE) \in BreachRec
    BY <1>2
  <2>2. \A b \in BreachRec : <<b>> \in Seq(BreachRec)
    OBVIOUS
  <2> QED BY <2>1, <2>2 DEF BarredBreaches
<1> QED BY <1>3, <1>4, <1>5

\* A nonempty set of naturals has its minimum in it.
LEMMA MinIn ==
  ASSUME NEW S \in SUBSET Nat, S # {}
  PROVE  Min(S) \in S
<1> DEFINE R == {ss \in Nat \X Nat : ss[1] < ss[2]}
<1>1. PICK x \in S : \A y \in S : ~ (<<y, x>> \in R)
  <2>1. IsWellFoundedOn(R, Nat)
    BY NatLessThanWellFounded DEF OpToRel
  <2> HIDE DEF R
  <2> QED BY <2>1, WFMin
<1>2. ASSUME NEW y \in S PROVE x =< y
  <2>1. <<y, x>> \in Nat \X Nat /\ <<y, x>>[1] = y /\ <<y, x>>[2] = x
    OBVIOUS
  <2>2. ~ (y < x)
    BY <1>1, <2>1
  <2> QED BY <2>2
<1> QED BY <1>2 DEF Min

\* A check that stops at its first refusal still looks at breaches in order.
LEMMA TakenType ==
  ASSUME NEW s \in Seq(BreachRec), NEW strict
  PROVE  Taken(s, strict) \in Seq(BreachRec)
<1> DEFINE refusals == {i \in DOMAIN s : s[i].refused}
<1>1. CASE strict /\ refusals # {}
  <2>1. Min(refusals) \in refusals
    BY <1>1, MinIn, LenProperties
  <2>2. Min(refusals) \in 1..Len(s)
    BY <2>1, LenProperties
  <2>3. \A i \in 1..Min(refusals) : s[i] \in BreachRec
    BY <2>2, LenProperties
  <2> HIDE DEF refusals
  <2>4. SubSeq(s, 1, Min(refusals)) \in Seq(BreachRec)
    BY <2>2, <2>3, SubSeqProperties
  <2> QED BY <1>1, <2>4 DEF Taken, refusals
<1>2. CASE ~(strict /\ refusals # {})
  BY <1>2 DEF Taken
<1> QED BY <1>1, <1>2

-----------------------------------------------------------------------------
(* Types, and the room for violations.                                     *)

\* A bio is in a zone, its violations still fit the bound, and it has loaded
\* nothing but the count of the violation it is at.
Room ==
  \A b \in Bios :
    /\ bio[b] # NoBio => bio[b].zone \in Zones
    /\ events + Len(bio[b].steps) <= MaxEvents
    /\ loaded[b] # None => AtBreach(b) /\ Head(bio[b].steps).counter \in Counters

\* Nothing that counts or numbers violations is ahead of them.
Behind ==
  /\ \A z \in Zones, c \in Counters : count[z][c] <= events /\ seen[z][c] <= events
  /\ \A b \in Bios : loaded[b] <= events
  /\ \A d \in Dirs : reg[d] <= events /\ told[d] <= events
  /\ got <= events

Typed == TypeOK /\ Room /\ Behind

\* Cleared counters are counters.
LEMMA NoCountsType ==
  /\ NoCounts \in [Counters -> 0..MaxEvents]
  /\ [z \in Zones |-> NoCounts] \in Tally
  BY StatsAssumption DEF NoCounts, Tally

\* Nobody is counting in the initial state.
LEMMA InitTyped == Init => Typed
<1> SUFFICES ASSUME Init PROVE Typed
  OBVIOUS
<1>1. NoBio \in BioRec
  BY DEF NoBio, BioRec, Dirs
<1>2. TypeOK
  <2>1. /\ count \in Tally /\ seen \in Tally /\ snap \in Tally /\ start \in Tally
    BY NoCountsType DEF Init
  <2>2. /\ reg \in [Dirs -> 0..MaxEvents] /\ newest \in [Dirs -> 0..MaxEvents]
        /\ told \in [Dirs -> 0..MaxEvents] /\ missed \in [Dirs -> BOOLEAN]
        /\ dir \in Dirs /\ got \in 0..MaxEvents /\ events \in 0..MaxEvents
    BY StatsAssumption DEF Init, Dirs
  <2>3. /\ bio \in [Bios -> BioRec] /\ loaded \in [Bios -> 0..MaxEvents \cup {None}]
        /\ \A b \in Bios : bio[b] # NoBio <=> lock = b
    BY <1>1, StatsAssumption DEF Init
  <2> QED BY <2>1, <2>2, <2>3 DEF Init, TypeOK
<1>3. Room
  BY StatsAssumption DEF Init, Room, NoBio, AtBreach
<1>4. Behind
  BY DEF Init, Behind, NoCounts, None
<1> QED BY <1>2, <1>3, <1>4 DEF Typed

\* A bio that broke rules takes the zone lock.
LEMMA MapBioTyped ==
  ASSUME Typed, NEW b \in Bios, MapBio(b)
  PROVE  Typed'
<1>1. PICK z \in Zones, d \in Dirs, s \in Seq(BreachRec) : MapBegin(b, z, d, s)
  BY BreachesType, TakenType DEF MapBio, Dirs
<1>2. /\ bio' = [bio EXCEPT ![b] = [zone |-> z, dir |-> d, steps |-> s]]
      /\ lock = "free" /\ lock' = b
      /\ events + Len(s) <= MaxEvents
      /\ UNCHANGED <<count, seen, raced, reg, newest, missed, told, log, loaded, ioc,
                      todo, snap, start, dir, got, events>>
  BY <1>1 DEF MapBegin, counting, copying, registers
<1>3. [zone |-> z, dir |-> d, steps |-> s] \in BioRec
  BY DEF BioRec
<1>4. [zone |-> z, dir |-> d, steps |-> s] # NoBio
  BY StatsAssumption DEF NoBio, None, Zones
<1>5. TypeOK'
  <2>1. bio' \in [Bios -> BioRec] /\ lock' \in Bios
    BY <1>2, <1>3 DEF Typed, TypeOK
  <2>2. ASSUME NEW p \in Bios PROVE bio'[p] # NoBio <=> lock' = p
    BY <1>2, <1>4, StatsAssumption DEF Typed, TypeOK
  <2> QED BY <1>2, <2>1, <2>2 DEF Typed, TypeOK
<1>6. Room'
  <2>1. bio[b] = NoBio /\ NoBio.steps = << >>
    BY <1>2, StatsAssumption DEF Typed, TypeOK, NoBio
  <2> QED BY <1>2, <2>1 DEF Typed, TypeOK, Room, AtBreach
<1>7. Behind'
  BY <1>2 DEF Typed, Behind
<1> QED BY <1>5, <1>6, <1>7 DEF Typed

\* The bio that counts: it holds the lock, and it has a violation to count.
LEMMA AtBreachFacts ==
  ASSUME Typed, NEW b \in Bios, AtBreach(b)
  PROVE  /\ bio[b] \in BioRec /\ bio[b].zone \in Zones /\ bio[b].dir \in Dirs
         /\ bio[b].steps \in Seq(BreachRec)
         /\ Head(bio[b].steps) \in BreachRec
         /\ Tail(bio[b].steps) \in Seq(BreachRec)
         /\ Len(Tail(bio[b].steps)) = Len(bio[b].steps) - 1
         /\ Len(bio[b].steps) \in Nat \ {0}
         /\ lock = b
         /\ events < MaxEvents
<1>1. bio[b] \in BioRec /\ lock = b /\ bio[b].zone \in Zones
  BY DEF Typed, TypeOK, Room, AtBreach
<1>2. bio[b].steps \in Seq(BreachRec) /\ bio[b].steps # << >> /\ bio[b].dir \in Dirs
  BY <1>1 DEF BioRec, AtBreach
<1>3. Len(bio[b].steps) \in Nat \ {0}
  BY <1>2, EmptySeq
<1>4. events < MaxEvents
  BY <1>3, StatsAssumption DEF Typed, TypeOK, Room
<1> QED BY <1>1, <1>2, <1>3, <1>4, HeadTailProperties

\* The load is of a counter that is there.
LEMMA CountLoadTyped ==
  ASSUME Typed, NEW b \in Bios, CountLoad(b)
  PROVE  Typed'
<1> DEFINE z == bio[b].zone
           c == Head(bio[b].steps).counter
<1>1. /\ AtBreach(b) /\ c # "none"
      /\ loaded' = [loaded EXCEPT ![b] = count[z][c]]
      /\ UNCHANGED <<count, seen, raced, reg, newest, missed, told, log, lock, bio, ioc,
                      todo, snap, start, dir, got, events>>
  BY DEF CountLoad, counting, copying, registers
<1>2. z \in Zones /\ c \in Counters
  BY <1>1, AtBreachFacts DEF BreachRec
<1>3. count[z][c] \in 0..MaxEvents /\ count[z][c] <= events
  BY <1>2 DEF Typed, TypeOK, Tally, Behind
<1> HIDE DEF z, c
<1>4. TypeOK'
  BY <1>1, <1>3 DEF Typed, TypeOK
<1>5. Room'
  BY <1>1, <1>2 DEF Typed, TypeOK, Room, AtBreach, c
<1>6. Behind'
  BY <1>1, <1>3 DEF Typed, TypeOK, Behind
<1> QED BY <1>4, <1>5, <1>6 DEF Typed

\* One counter of a zone is written, the others stay.
Put(f, z, c, v) == [f EXCEPT ![z][c] = v]

LEMMA PutAt ==
  ASSUME NEW f \in Tally, NEW z \in Zones, NEW c \in Counters, NEW v
  PROVE  \A y \in Zones, k \in Counters :
           Put(f, z, c, v)[y][k] = IF y = z /\ k = c THEN v ELSE f[y][k]
  BY DEF Tally, Put

\* It stays a table of counters.
LEMMA TallyUpdate ==
  ASSUME NEW f \in Tally, NEW z \in Zones, NEW c \in Counters, NEW v \in 0..MaxEvents
  PROVE  Put(f, z, c, v) \in Tally
<1>1. [f[z] EXCEPT ![c] = v] \in [Counters -> 0..MaxEvents]
  BY DEF Tally
<1> QED BY <1>1 DEF Tally, Put

\* What a store and the recording of its error write.
LEMMA CountStoreFacts ==
  ASSUME Typed, NEW b \in Bios, CountStore(b)
  PROVE  LET z == bio[b].zone
             c == Head(bio[b].steps).counter
             d == bio[b].dir
         IN /\ AtBreach(b)
            /\ events' = events + 1
            /\ bio' = [bio EXCEPT ![b].steps = Tail(@)]
            /\ loaded' = [loaded EXCEPT ![b] = None]
            /\ UNCHANGED <<log, lock, ioc, todo, snap, start, dir, got, told, raced>>
            /\ \/ UNCHANGED <<count, seen>>
               \/ /\ c \in Counters /\ loaded[b] # None
                  /\ count' = Put(count, z, c, loaded[b] + 1)
                  /\ seen' = Put(seen, z, c, seen[z][c] + 1)
            /\ \/ UNCHANGED <<reg, newest, missed>>
               \/ /\ reg' = [reg EXCEPT ![d] = events + 1]
                  /\ newest' = [newest EXCEPT ![d] = events + 1]
                  /\ missed' = [missed EXCEPT ![d] = FALSE]
<1> DEFINE z == bio[b].zone
           c == Head(bio[b].steps).counter
           d == bio[b].dir
<1>1. AtBreach(b) /\ Head(bio[b].steps) \in BreachRec
  BY AtBreachFacts DEF CountStore
<1>2. /\ events' = events + 1
      /\ bio' = [bio EXCEPT ![b].steps = Tail(@)]
      /\ loaded' = [loaded EXCEPT ![b] = None]
      /\ UNCHANGED <<log, lock, ioc, todo, snap, start, dir, got>>
  BY DEF CountStore, copying
<1>3. raced' = raced
  BY DEF CountStore, counting
<1>4. \/ UNCHANGED <<count, seen>>
      \/ /\ c \in Counters /\ loaded[b] # None
         /\ count' = Put(count, z, c, loaded[b] + 1)
         /\ seen' = Put(seen, z, c, seen[z][c] + 1)
  <2>1. CASE c = "none"
    BY <2>1 DEF CountStore, counting
  <2>2. CASE c # "none"
    <3>1. c \in Counters
      BY <1>1, <2>2 DEF BreachRec
    <3>2. loaded[b] # None /\ count' = Put(count, z, c, loaded[b] + 1)
      BY <2>2 DEF CountStore, Put
    <3>3. seen' = Put(seen, z, c, seen[z][c] + 1)
      BY <2>2 DEF CountStore, Put
    <3> QED BY <3>1, <3>2, <3>3
  <2> QED BY <2>1, <2>2
<1>5. /\ told' = told
      /\ \/ UNCHANGED <<reg, newest, missed>>
         \/ /\ reg' = [reg EXCEPT ![d] = events + 1]
            /\ newest' = [newest EXCEPT ![d] = events + 1]
            /\ missed' = [missed EXCEPT ![d] = FALSE]
  BY <1>2 DEF CountStore, LogError, registers
<1> QED BY <1>1, <1>2, <1>3, <1>4, <1>5

\* The store counts one violation, which is one more event.
LEMMA CountStoreTyped ==
  ASSUME Typed, NEW b \in Bios, CountStore(b)
  PROVE  Typed'
<1> DEFINE z == bio[b].zone
           c == Head(bio[b].steps).counter
           d == bio[b].dir
<1>1. /\ AtBreach(b) /\ events' = events + 1
      /\ bio' = [bio EXCEPT ![b].steps = Tail(@)]
      /\ loaded' = [loaded EXCEPT ![b] = None]
      /\ UNCHANGED <<log, lock, ioc, todo, snap, start, dir, got, told, raced>>
  BY CountStoreFacts
<1>2. /\ bio[b] \in BioRec /\ z \in Zones /\ d \in Dirs /\ lock = b /\ events < MaxEvents
      /\ Tail(bio[b].steps) \in Seq(BreachRec)
      /\ Len(Tail(bio[b].steps)) = Len(bio[b].steps) - 1
      /\ Len(bio[b].steps) \in Nat \ {0}
  BY <1>1, AtBreachFacts
<1>3. \/ UNCHANGED <<count, seen>>
      \/ /\ c \in Counters /\ loaded[b] # None
         /\ count' = Put(count, z, c, loaded[b] + 1)
         /\ seen' = Put(seen, z, c, seen[z][c] + 1)
  BY CountStoreFacts
<1>4. \/ UNCHANGED <<reg, newest, missed>>
      \/ /\ reg' = [reg EXCEPT ![d] = events + 1]
         /\ newest' = [newest EXCEPT ![d] = events + 1]
         /\ missed' = [missed EXCEPT ![d] = FALSE]
  BY CountStoreFacts
<1>5. /\ events + 1 \in 0..MaxEvents
      /\ loaded[b] # None => loaded[b] + 1 \in 0..MaxEvents /\ loaded[b] + 1 <= events + 1
  BY <1>2, StatsAssumption DEF Typed, TypeOK, Behind
<1>a. /\ count \in Tally /\ seen \in Tally /\ events \in 0..MaxEvents
      /\ \A y \in Zones, k \in Counters :
           /\ count[y][k] \in 0..MaxEvents /\ count[y][k] <= events
           /\ seen[y][k] \in 0..MaxEvents /\ seen[y][k] <= events
  BY DEF Typed, TypeOK, Behind, Tally
<1> HIDE DEF z, c, d
<1>6. count' \in Tally /\ \A y \in Zones, k \in Counters : count'[y][k] <= events'
  <2>1. CASE count' = count
    BY <1>1, <2>1, StatsAssumption DEF Typed, TypeOK, Tally, Behind
  <2>2. CASE /\ c \in Counters /\ loaded[b] # None
             /\ count' = Put(count, z, c, loaded[b] + 1)
    <3> DEFINE v == loaded[b] + 1
    <3>1. v \in 0..MaxEvents /\ v <= events + 1
      BY <1>2, <1>5, <1>a, <2>2, StatsAssumption
    <3>2. c \in Counters /\ count' = Put(count, z, c, v)
      BY <2>2
    <3> HIDE DEF v
    <3>3. /\ count' \in Tally
          /\ \A y \in Zones, k \in Counters :
               count'[y][k] = IF y = z /\ k = c THEN v ELSE count[y][k]
      <4>1. count \in Tally /\ z \in Zones
        BY <1>2, <1>a
      <4>2. v \in 0..MaxEvents
        BY <3>1
      <4> QED BY <3>2, <4>1, <4>2, TallyUpdate, PutAt
    <3> QED BY <1>1, <1>a, <3>1, <3>3, StatsAssumption
  <2> QED BY <1>3, <2>1, <2>2
<1>7. seen' \in Tally /\ \A y \in Zones, k \in Counters : seen'[y][k] <= events'
  <2>1. CASE seen' = seen
    BY <1>1, <2>1, StatsAssumption DEF Typed, TypeOK, Tally, Behind
  <2>2. CASE /\ c \in Counters
             /\ seen' = Put(seen, z, c, seen[z][c] + 1)
    <3> DEFINE v == seen[z][c] + 1
    <3>1. v \in 0..MaxEvents /\ v <= events + 1
      BY <1>2, <1>5, <1>a, <2>2, StatsAssumption
    <3>2. c \in Counters /\ seen' = Put(seen, z, c, v)
      BY <2>2
    <3> HIDE DEF v
    <3>3. /\ seen' \in Tally
          /\ \A y \in Zones, k \in Counters :
               seen'[y][k] = IF y = z /\ k = c THEN v ELSE seen[y][k]
      <4>1. seen \in Tally /\ z \in Zones
        BY <1>2, <1>a
      <4>2. v \in 0..MaxEvents
        BY <3>1
      <4> QED BY <3>2, <4>1, <4>2, TallyUpdate, PutAt
    <3> QED BY <1>1, <1>a, <3>1, <3>3, StatsAssumption
  <2> QED BY <1>3, <2>1, <2>2
<1>8. /\ bio' \in [Bios -> BioRec]
      /\ bio'[b].zone = z /\ bio'[b].steps = Tail(bio[b].steps)
      /\ \A p \in Bios : p # b => bio'[p] = bio[p]
  BY <1>1, <1>2 DEF Typed, TypeOK, BioRec, z
<1>9. TypeOK'
  <2>1. ASSUME NEW p \in Bios PROVE bio'[p] # NoBio <=> lock' = p
    <3>1. bio'[b] # NoBio
      BY <1>2, <1>8, StatsAssumption DEF NoBio, None, Zones
    <3>2. CASE p = b
      BY <1>1, <1>2, <3>1, <3>2
    <3>3. CASE p # b
      BY <1>1, <1>2, <1>8, <3>3 DEF Typed, TypeOK
    <3> QED BY <3>2, <3>3
  <2>2. loaded' \in [Bios -> 0..MaxEvents \cup {None}]
    BY <1>1 DEF Typed, TypeOK
  <2>3. /\ reg' \in [Dirs -> 0..MaxEvents] /\ newest' \in [Dirs -> 0..MaxEvents]
        /\ missed' \in [Dirs -> BOOLEAN]
    BY <1>2, <1>4, <1>5 DEF Typed, TypeOK
  <2> QED BY <1>1, <1>5, <1>6, <1>7, <1>8, <2>1, <2>2, <2>3 DEF Typed, TypeOK
<1>10. Room'
  <2>1. ASSUME NEW p \in Bios, p # b PROVE bio[p] = NoBio
    BY <1>2, <2>1 DEF Typed, TypeOK
  <2>2. Len(NoBio.steps) = 0
    BY DEF NoBio
  <2>3. ASSUME NEW p \in Bios
        PROVE  /\ bio'[p] # NoBio => bio'[p].zone \in Zones
               /\ events' + Len(bio'[p].steps) <= MaxEvents
    BY <1>1, <1>2, <1>5, <1>8, <2>1, <2>2, StatsAssumption DEF Typed, TypeOK, Room
  <2>4. ASSUME NEW p \in Bios
        PROVE  loaded'[p] # None => AtBreach(p)' /\ Head(bio'[p].steps).counter \in Counters
    BY <1>1, <1>8, <2>1 DEF Typed, TypeOK, Room, AtBreach
  <2> QED BY <2>3, <2>4 DEF Room
<1>11. Behind'
  <2>1. \A p \in Bios : loaded'[p] <= events'
    BY <1>1, StatsAssumption DEF Typed, TypeOK, Behind, None
  <2>2. \A k \in Dirs : reg'[k] <= events' /\ told'[k] <= events'
    BY <1>1, <1>2, <1>4 DEF Typed, TypeOK, Behind
  <2> QED BY <1>1, <1>6, <1>7, <2>1, <2>2 DEF Typed, TypeOK, Behind
<1> QED BY <1>9, <1>10, <1>11 DEF Typed

\* A bio that leaves frees the lock.
LEMMA MapEndTyped ==
  ASSUME Typed, NEW b \in Bios, MapEnd(b)
  PROVE  Typed'
<1>1. /\ bio[b] # NoBio /\ bio' = [bio EXCEPT ![b] = NoBio] /\ lock' = "free"
      /\ UNCHANGED <<count, seen, raced, reg, newest, missed, told, log, loaded, ioc,
                      todo, snap, start, dir, got, events>>
  BY DEF MapEnd, counting, copying, registers
<1>2. NoBio \in BioRec /\ Len(NoBio.steps) = 0
  BY DEF NoBio, BioRec, Dirs
<1>3. TypeOK'
  <2>1. ASSUME NEW p \in Bios PROVE bio'[p] # NoBio <=> lock' = p
    BY <1>1, StatsAssumption DEF Typed, TypeOK
  <2> QED BY <1>1, <1>2, <2>1 DEF Typed, TypeOK
<1>4. Room'
  BY <1>1, <1>2, StatsAssumption DEF Typed, TypeOK, Room, AtBreach, MapEnd
<1>5. Behind'
  BY <1>1 DEF Typed, Behind
<1> QED BY <1>3, <1>4, <1>5 DEF Typed

\* No ioctl disturbs the types: it clears counters, copies them, or reads a
\* register.
LEMMA IoctlTyped ==
  ASSUME Typed,
         \/ \E Z \in {Zones} \cup {{z} : z \in Zones} : IoctlReset(Z)
         \/ ClearZone \/ IoctlRebuild
         \/ IoctlGetStats \/ CopyZone \/ Copied
         \/ \E d \in Dirs : IoctlGetError(d)
         \/ DropError
         \/ \E on \in BOOLEAN : SetLog(on)
  PROVE  Typed'
<1>1. ASSUME NEW Z \in {Zones} \cup {{z} : z \in Zones}, IoctlReset(Z) PROVE Typed'
  BY <1>1 DEF IoctlReset, counting, copying, registers, Typed, TypeOK, Room, Behind, AtBreach
<1>2. CASE ClearZone
  <2> DEFINE z == Min(todo)
  <2>1. /\ count' = [count EXCEPT ![z] = NoCounts] /\ seen' = [seen EXCEPT ![z] = NoCounts]
        /\ raced' = {r \in raced : r[1] # z} \cup Counting(z)
        /\ todo' \subseteq todo /\ ioc' \in {"idle", "clear"}
        /\ UNCHANGED <<reg, newest, missed, told, log, lock, bio, loaded, snap, start,
                        dir, got, events>>
    BY <1>2 DEF ClearZone, copying, registers
  <2> HIDE DEF z
  <2>2. count' \in Tally /\ seen' \in Tally
    BY <2>1, NoCountsType DEF Typed, TypeOK, Tally
  <2>3. \A y \in Zones, c \in Counters : count'[y][c] <= events /\ seen'[y][c] <= events
    <3>1. \A c \in Counters : NoCounts[c] <= events
      BY DEF NoCounts, Typed, TypeOK
    <3> QED BY <2>1, <3>1 DEF Typed, TypeOK, Tally, Behind
  <2>4. Counting(z) \subseteq Zones \X Counters
    BY DEF Counting, Typed, Room, AtBreach
  <2>5. TypeOK'
    BY <2>1, <2>2, <2>4 DEF Typed, TypeOK
  <2>6. Room' /\ Behind'
    BY <2>1, <2>3 DEF Typed, Room, Behind, AtBreach
  <2> QED BY <2>5, <2>6 DEF Typed
<1>3. CASE IoctlRebuild
  <2>1. /\ count' = [z \in Zones |-> NoCounts] /\ seen' = count' /\ raced' = {}
        /\ UNCHANGED <<reg, newest, missed, told, log, lock, bio, loaded, ioc, todo, snap,
                        start, dir, got, events>>
    BY <1>3 DEF IoctlRebuild, copying, registers
  <2>2. \A y \in Zones, c \in Counters : count'[y][c] <= events
    BY <2>1 DEF NoCounts, Typed, TypeOK
  <2>3. TypeOK'
    BY <2>1, NoCountsType DEF Typed, TypeOK
  <2> QED BY <2>1, <2>2, <2>3 DEF Typed, Room, Behind, AtBreach
<1>4. CASE IoctlGetStats
  <2>1. /\ todo' = Zones /\ ioc' = "copy"
        /\ start' = count /\ snap' = [z \in Zones |-> NoCounts]
        /\ UNCHANGED <<count, seen, raced, reg, newest, missed, told, log, lock, bio,
                        loaded, dir, got, events>>
    BY <1>4 DEF IoctlGetStats, counting, registers
  <2>2. TypeOK'
    BY <2>1, NoCountsType DEF Typed, TypeOK
  <2> QED BY <2>1, <2>2 DEF Typed, Room, Behind, AtBreach
<1>5. CASE CopyZone
  <2> DEFINE z == Min(todo)
  <2>1. /\ todo' \subseteq todo
        /\ snap' = [snap EXCEPT ![z] = count[z]]
        /\ UNCHANGED <<count, seen, raced, reg, newest, missed, told, log, lock, bio,
                        loaded, ioc, start, dir, got, events>>
    BY <1>5 DEF CopyZone, counting, registers
  <2> HIDE DEF z
  <2>2. snap' \in Tally
    BY <2>1 DEF Typed, TypeOK, Tally
  <2>3. TypeOK'
    BY <2>1, <2>2 DEF Typed, TypeOK
  <2> QED BY <2>1, <2>3 DEF Typed, Room, Behind, AtBreach
<1>6. CASE Copied
  <2>1. /\ ioc' = "idle" /\ snap' = [z \in Zones |-> NoCounts] /\ start' = snap'
        /\ UNCHANGED <<count, seen, raced, reg, newest, missed, told, log, lock, bio,
                        loaded, todo, dir, got, events>>
    BY <1>6 DEF Copied, counting, registers
  <2>2. TypeOK'
    BY <2>1, NoCountsType DEF Typed, TypeOK
  <2> QED BY <2>1, <2>2 DEF Typed, Room, Behind, AtBreach
<1>7. ASSUME NEW d \in Dirs, IoctlGetError(d) PROVE Typed'
  <2>1. /\ ioc' = "drop" /\ dir' = d /\ got' = reg[d]
        /\ UNCHANGED <<count, seen, raced, reg, newest, missed, told, log, lock, bio,
                        loaded, todo, snap, start, events>>
    BY <1>7 DEF IoctlGetError, counting, copying, registers
  <2> QED BY <2>1 DEF Typed, TypeOK, Room, Behind, AtBreach
<1>8. CASE DropError
  <2>1. /\ reg' = [reg EXCEPT ![dir] = 0] /\ ioc' = "idle" /\ got' = 0
        /\ UNCHANGED <<count, seen, raced, newest, log, lock, bio, loaded, todo, snap,
                        start, dir, events>>
    BY <1>8 DEF DropError, counting, copying
  <2>2. /\ told' \in [Dirs -> 0..MaxEvents] /\ missed' \in [Dirs -> BOOLEAN]
        /\ \A d \in Dirs : told'[d] <= events
    BY <1>8 DEF DropError, Typed, TypeOK, Behind
  <2>3. /\ reg' \in [Dirs -> 0..MaxEvents] /\ 0 \in 0..MaxEvents
        /\ \A d \in Dirs : reg'[d] <= events
    BY <2>1, StatsAssumption DEF Typed, TypeOK, Behind
  <2> QED BY <2>1, <2>2, <2>3 DEF Typed, TypeOK, Room, Behind, AtBreach
<1>9. ASSUME NEW on \in BOOLEAN, SetLog(on) PROVE Typed'
  BY <1>9 DEF SetLog, counting, copying, registers, Typed, TypeOK, Room, Behind, AtBreach
<1> QED BY <1>1, <1>2, <1>3, <1>4, <1>5, <1>6, <1>7, <1>8, <1>9

\* Every step keeps the types.
LEMMA StepTyped == Typed /\ [Next]_vars => Typed'
<1> SUFFICES ASSUME Typed, [Next]_vars PROVE Typed'
  OBVIOUS
<1>1. ASSUME NEW b \in Bios, MapBio(b) \/ CountLoad(b) \/ CountStore(b) \/ MapEnd(b)
      PROVE  Typed'
  BY <1>1, MapBioTyped, CountLoadTyped, CountStoreTyped, MapEndTyped
<1>2. CASE UNCHANGED vars
  BY <1>2 DEF vars, Typed, TypeOK, Room, Behind, AtBreach
<1> QED BY <1>1, <1>2, IoctlTyped DEF Next

\* The variables keep their types: the counters and the registers stay in
\* range, and nobody is inside smrsim_map but the holder of the zone lock.
THEOREM StatsTypeCorrect == Spec => []TypeOK
<1>1. Typed => TypeOK
  BY DEF Typed
<1> QED BY InitTyped, StepTyped, <1>1, PTL DEF Spec

-----------------------------------------------------------------------------
(* Counting.                                                               *)

\* What a bio has loaded is what it will store, less one: the counter cannot
\* have grown since, and it was cleared since only if it is in raced.
LoadedCounts ==
  \A b \in Bios : loaded[b] # None =>
    LET z == bio[b].zone
        c == Head(bio[b].steps).counter
    IN /\ loaded[b] >= count[z][c]
       /\ loaded[b] >= seen[z][c]
       /\ <<z, c>> \notin raced => loaded[b] = seen[z][c]

CountInv == CountsHold /\ LoadedCounts

\* Only the holder of the zone lock has loaded a count.
LEMMA OneLoads ==
  ASSUME Typed, NEW b \in Bios, loaded[b] # None
  PROVE  /\ lock = b /\ bio[b].zone \in Zones
         /\ Head(bio[b].steps).counter \in Counters
         /\ loaded[b] \in Nat
         /\ \A p \in Bios : p # b => loaded[p] = None
  BY StatsAssumption DEF Typed, TypeOK, Room, AtBreach

\* Counters are numbers.
LEMMA TallyFacts ==
  ASSUME Typed, NEW z \in Zones, NEW c \in Counters
  PROVE  /\ count[z][c] \in Nat /\ seen[z][c] \in Nat
         /\ start[z][c] \in Nat /\ snap[z][c] \in Nat
  BY DEF Typed, TypeOK, Tally

\* A load finds what is there.
LEMMA CountLoadCounts ==
  ASSUME Typed, CountInv, NEW b \in Bios, CountLoad(b)
  PROVE  CountInv'
<1> DEFINE z == bio[b].zone
           c == Head(bio[b].steps).counter
<1>1. /\ loaded' = [loaded EXCEPT ![b] = count[z][c]]
      /\ UNCHANGED <<count, seen, raced, bio>>
      /\ AtBreach(b) /\ c # "none"
  BY DEF CountLoad, counting
<1>2. z \in Zones /\ c \in Counters /\ lock = b
  BY <1>1, AtBreachFacts DEF BreachRec
<1>3. \A p \in Bios : p # b => loaded'[p] = None
  BY <1>1, <1>2, OneLoads DEF Typed, TypeOK
<1>4. loaded'[b] = count[z][c]
  BY <1>1 DEF Typed, TypeOK
<1>5. /\ count[z][c] >= seen[z][c] /\ count[z][c] \in Nat
      /\ <<z, c>> \notin raced => count[z][c] = seen[z][c]
  BY <1>2, TallyFacts DEF CountInv, CountsHold
<1>6. LoadedCounts'
  BY <1>1, <1>3, <1>4, <1>5 DEF LoadedCounts
<1>7. CountsHold'
  BY <1>1 DEF CountInv, CountsHold
<1> QED BY <1>6, <1>7 DEF CountInv

\* A store adds one to what was loaded, and nobody else has loaded anything.
LEMMA CountStoreCounts ==
  ASSUME Typed, CountInv, NEW b \in Bios, CountStore(b)
  PROVE  CountInv'
<1> DEFINE z == bio[b].zone
           c == Head(bio[b].steps).counter
<1>1. AtBreach(b) /\ loaded' = [loaded EXCEPT ![b] = None] /\ raced' = raced
  BY CountStoreFacts
<1>2. \/ UNCHANGED <<count, seen>>
      \/ /\ c \in Counters /\ loaded[b] # None
         /\ count' = Put(count, z, c, loaded[b] + 1)
         /\ seen' = Put(seen, z, c, seen[z][c] + 1)
  BY CountStoreFacts
<1>3. z \in Zones /\ lock = b
  BY <1>1, AtBreachFacts
<1>4. \A p \in Bios : loaded'[p] = None
  BY <1>1, <1>3, OneLoads DEF Typed, TypeOK
<1>5. LoadedCounts'
  BY <1>4 DEF LoadedCounts
<1>6. CountsHold'
  <2>1. CASE UNCHANGED <<count, seen>>
    BY <1>1, <2>1 DEF CountInv, CountsHold
  <2>2. CASE /\ c \in Counters /\ loaded[b] # None
             /\ count' = Put(count, z, c, loaded[b] + 1)
             /\ seen' = Put(seen, z, c, seen[z][c] + 1)
    <3>1. /\ loaded[b] \in Nat /\ seen[z][c] \in Nat
          /\ loaded[b] >= seen[z][c]
          /\ <<z, c>> \notin raced => loaded[b] = seen[z][c]
      BY <1>3, <2>2, OneLoads, TallyFacts DEF CountInv, LoadedCounts
    <3>2. count \in Tally /\ seen \in Tally
      BY DEF Typed, TypeOK
    <3> DEFINE n == loaded[b] + 1
               m == seen[z][c] + 1
    <3>3. n >= m /\ (<<z, c>> \notin raced => n = m)
      BY <3>1
    <3>4. c \in Counters /\ count' = Put(count, z, c, n) /\ seen' = Put(seen, z, c, m)
      BY <2>2
    <3> HIDE DEF z, c, n, m
    <3>5. ASSUME NEW y \in Zones, NEW k \in Counters
          PROVE  /\ count'[y][k] = IF y = z /\ k = c THEN n ELSE count[y][k]
                 /\ seen'[y][k] = IF y = z /\ k = c THEN m ELSE seen[y][k]
      BY <1>3, <3>2, <3>4, PutAt
    <3>6. ASSUME NEW y \in Zones, NEW k \in Counters
          PROVE  /\ count'[y][k] >= seen'[y][k]
                 /\ <<y, k>> \notin raced' => count'[y][k] = seen'[y][k]
      <4>1. CASE y = z /\ k = c
        BY <1>1, <3>3, <3>5, <4>1
      <4>2. CASE ~(y = z /\ k = c)
        BY <1>1, <3>5, <4>2 DEF CountInv, CountsHold
      <4> QED BY <4>1, <4>2
    <3> QED BY <3>6 DEF CountsHold
  <2> QED BY <1>2, <2>1, <2>2
<1> QED BY <1>5, <1>6 DEF CountInv

\* A cleared counter shows nothing, and the bio that counts in it is noted.
LEMMA ClearZoneCounts ==
  ASSUME Typed, CountInv, ClearZone
  PROVE  CountInv'
<1> DEFINE z == Min(todo)
<1>1. /\ count' = [count EXCEPT ![z] = NoCounts] /\ seen' = [seen EXCEPT ![z] = NoCounts]
      /\ raced' = {r \in raced : r[1] # z} \cup Counting(z)
      /\ UNCHANGED <<bio, loaded>>
  BY DEF ClearZone
<1> HIDE DEF z
<1>2. ASSUME NEW y \in Zones, NEW c \in Counters
      PROVE  /\ count'[y][c] = IF y = z THEN 0 ELSE count[y][c]
             /\ seen'[y][c] = IF y = z THEN 0 ELSE seen[y][c]
  BY <1>1 DEF Typed, TypeOK, Tally, NoCounts
<1>3. ASSUME NEW y \in Zones, NEW c \in Counters, y # z, <<y, c>> \notin raced'
      PROVE  <<y, c>> \notin raced
  BY <1>1, <1>3
<1>4. CountsHold'
  <2>1. ASSUME NEW y \in Zones, NEW c \in Counters
        PROVE  /\ count'[y][c] >= seen'[y][c]
               /\ <<y, c>> \notin raced' => count'[y][c] = seen'[y][c]
    BY <1>2, <1>3 DEF CountInv, CountsHold
  <2> QED BY <2>1 DEF CountsHold
<1>5. LoadedCounts'
  <2>1. ASSUME NEW b \in Bios, loaded[b] # None
        PROVE  LET y == bio[b].zone
                   c == Head(bio[b].steps).counter
               IN /\ loaded[b] >= count'[y][c]
                  /\ loaded[b] >= seen'[y][c]
                  /\ <<y, c>> \notin raced' => loaded[b] = seen'[y][c]
    <3> DEFINE y == bio[b].zone
               c == Head(bio[b].steps).counter
    <3>1. y \in Zones /\ c \in Counters /\ loaded[b] \in Nat
      BY <2>1, OneLoads
    <3>2. /\ loaded[b] >= count[y][c] /\ loaded[b] >= seen[y][c]
          /\ <<y, c>> \notin raced => loaded[b] = seen[y][c]
      BY <2>1 DEF CountInv, LoadedCounts
    <3>3. y = z => <<y, c>> \in raced'
      BY <1>1, <2>1 DEF Counting
    <3> HIDE DEF y, c
    <3> QED BY <1>2, <1>3, <3>1, <3>2, <3>3 DEF y, c
  <2> QED BY <1>1, <2>1 DEF LoadedCounts
<1> QED BY <1>4, <1>5 DEF CountInv

\* The other steps touch no counter that a bio counts in.
LEMMA StepCounts == Typed /\ CountInv /\ [Next]_vars => CountInv'
<1> SUFFICES ASSUME Typed, CountInv, [Next]_vars PROVE CountInv'
  OBVIOUS
<1>1. ASSUME NEW b \in Bios, CountLoad(b) \/ CountStore(b) PROVE CountInv'
  BY <1>1, CountLoadCounts, CountStoreCounts
<1>2. ASSUME NEW b \in Bios, MapBio(b) \/ MapEnd(b) PROVE CountInv'
  <2>1. UNCHANGED <<count, seen, raced, loaded>> /\ loaded[b] = None
    BY <1>2 DEF MapBio, MapBegin, MapEnd, counting, Typed, Room, AtBreach, NoBio
  <2>2. \A p \in Bios : p # b => bio'[p] = bio[p]
    BY <1>2 DEF MapBio, MapBegin, MapEnd, Typed, TypeOK
  <2> QED BY <2>1, <2>2 DEF CountInv, CountsHold, LoadedCounts
<1>3. CASE ClearZone
  BY <1>3, ClearZoneCounts
<1>4. CASE IoctlRebuild
  <2>1. /\ count' = [z \in Zones |-> NoCounts] /\ seen' = count' /\ raced' = {}
        /\ loaded' = loaded /\ lock = "free"
    BY <1>4 DEF IoctlRebuild
  <2>2. \A b \in Bios : loaded'[b] = None
    BY <2>1, OneLoads, StatsAssumption
  <2>3. \A z \in Zones, c \in Counters : count'[z][c] = 0 /\ seen'[z][c] = 0
    BY <2>1 DEF NoCounts
  <2> QED BY <2>2, <2>3 DEF CountInv, CountsHold, LoadedCounts
<1>5. CASE UNCHANGED <<count, seen, raced, bio, loaded>>
  BY <1>5 DEF CountInv, CountsHold, LoadedCounts
<1>6. ASSUME \/ \E Z \in {Zones} \cup {{z} : z \in Zones} : IoctlReset(Z)
             \/ IoctlGetStats \/ CopyZone \/ Copied
             \/ \E d \in Dirs : IoctlGetError(d)
             \/ DropError
             \/ \E on \in BOOLEAN : SetLog(on)
      PROVE  UNCHANGED <<count, seen, raced, bio, loaded>>
  BY <1>6 DEF IoctlReset, IoctlGetStats, CopyZone, Copied, IoctlGetError, DropError,
              SetLog, counting
<1>7. UNCHANGED vars => UNCHANGED <<count, seen, raced, bio, loaded>>
  BY DEF vars
<1> QED BY <1>1, <1>2, <1>3, <1>4, <1>5, <1>6, <1>7 DEF Next

\* No violation is lost or counted twice, whatever bios and ioctls run, and a
\* counter differs from the violations seen only if it was cleared under a
\* bio that counts: smrsim_zone_lock serialises the load and the store.
THEOREM CountsAreRight == Spec => []CountsHold
<1>1. Init => CountInv
  BY DEF Init, CountInv, CountsHold, LoadedCounts, NoCounts, None
<1>2. CountInv => CountsHold
  BY DEF CountInv
<1> QED BY InitTyped, StepTyped, StepCounts, <1>1, <1>2, PTL DEF Spec

-----------------------------------------------------------------------------
(* The copy that GET_STATS makes.                                          *)

\* While zones are copied no counter falls, and a copied zone shows a value
\* between that at the start and the present one.
CopyBetween ==
  ioc = "copy" =>
    \A z \in Zones, c \in Counters :
      /\ start[z][c] <= count[z][c]
      /\ z \notin todo => start[z][c] <= snap[z][c] /\ snap[z][c] <= count[z][c]

\* A bio only makes a counter grow: it stores more than the counter shows, a
\* clearing under it included.
LEMMA CountGrows ==
  ASSUME Typed, CountInv, [Next]_vars, ioc = "copy",
         NEW z \in Zones, NEW c \in Counters
  PROVE  count'[z][c] >= count[z][c] /\ count'[z][c] \in Nat
<1>1. Typed'
  BY StepTyped
<1>2. count'[z][c] \in Nat /\ count[z][c] \in Nat
  BY <1>1 DEF Typed, TypeOK, Tally
<1>3. ASSUME NEW b \in Bios, CountStore(b) PROVE count'[z][c] >= count[z][c]
  <2> DEFINE y == bio[b].zone
             k == Head(bio[b].steps).counter
             n == loaded[b] + 1
  <2>1. CASE count' = count
    BY <1>2, <2>1
  <2>2. CASE k \in Counters /\ loaded[b] # None /\ count' = Put(count, y, k, n)
    <3>1. y \in Zones /\ loaded[b] \in Nat /\ loaded[b] >= count[y][k]
      BY <2>2, OneLoads DEF CountInv, LoadedCounts
    <3>2. n >= count[y][k]
      BY <2>2, <3>1, TallyFacts
    <3>3. count \in Tally
      BY DEF Typed, TypeOK
    <3> HIDE DEF y, k, n
    <3>4. count'[z][c] = IF z = y /\ c = k THEN n ELSE count[z][c]
      BY <2>2, <3>1, <3>3, PutAt
    <3> QED BY <1>2, <3>2, <3>4
  <2> QED BY <1>3, <2>1, <2>2, CountStoreFacts
<1>4. ASSUME \/ \E b \in Bios : MapBio(b) \/ CountLoad(b) \/ MapEnd(b)
             \/ \E Z \in {Zones} \cup {{x} : x \in Zones} : IoctlReset(Z)
             \/ IoctlGetStats \/ CopyZone \/ Copied
             \/ \E d \in Dirs : IoctlGetError(d)
             \/ DropError
             \/ \E on \in BOOLEAN : SetLog(on)
             \/ UNCHANGED vars
      PROVE  count' = count
  BY <1>4 DEF MapBio, MapBegin, CountLoad, MapEnd, IoctlReset, IoctlGetStats, CopyZone,
              Copied, IoctlGetError, DropError, SetLog, counting, vars
<1>5. ~ClearZone /\ ~IoctlRebuild
  BY DEF ClearZone, IoctlRebuild
<1> QED BY <1>2, <1>3, <1>4, <1>5 DEF Next

\* The copy stays between the counters of the start and those of now.
LEMMA StepCopies == Typed /\ CountInv /\ CopyBetween /\ [Next]_vars => CopyBetween'
<1> SUFFICES ASSUME Typed, CountInv, CopyBetween, [Next]_vars, ioc' = "copy",
                    NEW z \in Zones, NEW c \in Counters
             PROVE  /\ start'[z][c] <= count'[z][c]
                    /\ z \notin todo' => /\ start'[z][c] <= snap'[z][c]
                                       /\ snap'[z][c] <= count'[z][c]
  BY DEF CopyBetween
<1>0. count[z][c] \in Nat /\ start[z][c] \in Nat /\ snap[z][c] \in Nat
  BY TallyFacts
<1>1. \A b \in Bios : CountStore(b) => UNCHANGED <<start, snap, todo, ioc>>
  BY DEF CountStore, copying
<1>2. CASE IoctlGetStats
  <2>1. start' = count /\ count' = count /\ todo' = Zones
    BY <1>2 DEF IoctlGetStats, counting
  <2> QED BY <1>0, <2>1
<1>3. CASE ioc = "copy"
  <2>1. count'[z][c] >= count[z][c] /\ count'[z][c] \in Nat
    BY <1>3, CountGrows
  <2>2. /\ start[z][c] <= count[z][c]
        /\ z \notin todo => start[z][c] <= snap[z][c] /\ snap[z][c] <= count[z][c]
    BY <1>3 DEF CopyBetween
  <2>3. CASE CopyZone
    <3> DEFINE y == Min(todo)
    <3>1. /\ snap' = [snap EXCEPT ![y] = count[y]] /\ todo' = todo \ {y}
          /\ UNCHANGED <<start, count>>
      BY <2>3 DEF CopyZone, counting
    <3> HIDE DEF y
    <3>2. CASE z = y
      <4>1. snap'[z] = count[z]
        BY <3>1, <3>2 DEF Typed, TypeOK, Tally
      <4> QED BY <1>0, <2>2, <3>1, <4>1
    <3>3. CASE z # y
      <4>1. snap'[z] = snap[z]
        BY <3>1, <3>3 DEF Typed, TypeOK, Tally
      <4> QED BY <2>2, <3>1, <3>3, <4>1
    <3> QED BY <3>2, <3>3
  <2>4. CASE UNCHANGED <<start, snap, todo>>
    BY <1>0, <2>1, <2>2, <2>4
  <2>5. ASSUME \/ \E b \in Bios : MapBio(b) \/ CountLoad(b) \/ CountStore(b) \/ MapEnd(b)
               \/ UNCHANGED vars
        PROVE  UNCHANGED <<start, snap, todo>>
    BY <1>1, <2>5 DEF MapBio, MapBegin, CountLoad, MapEnd, copying, vars
  <2>6. /\ \A Z : ~IoctlReset(Z)
        /\ ~ClearZone /\ ~IoctlRebuild /\ ~IoctlGetStats /\ ~Copied /\ ~DropError
        /\ \A d : ~IoctlGetError(d)
        /\ \A on : ~SetLog(on)
    BY <1>3 DEF IoctlReset, ClearZone, IoctlRebuild, IoctlGetStats, Copied, DropError,
                IoctlGetError, SetLog
  <2> QED BY <2>3, <2>4, <2>5, <2>6 DEF Next
<1>4. ioc = "copy" \/ IoctlGetStats
  <2>1. ASSUME \/ \E b \in Bios : MapBio(b) \/ CountLoad(b) \/ CountStore(b) \/ MapEnd(b)
               \/ CopyZone \/ IoctlRebuild
               \/ \E on \in BOOLEAN : SetLog(on)
               \/ UNCHANGED vars
        PROVE  ioc' = ioc
    BY <1>1, <2>1 DEF MapBio, MapBegin, CountLoad, MapEnd, CopyZone, IoctlRebuild,
                      SetLog, vars
  <2>2. ASSUME \/ \E Z \in {Zones} \cup {{x} : x \in Zones} : IoctlReset(Z)
               \/ ClearZone \/ Copied \/ DropError
               \/ \E d \in Dirs : IoctlGetError(d)
        PROVE  ioc' # "copy"
    BY <2>2 DEF IoctlReset, ClearZone, Copied, DropError, IoctlGetError
  <2> QED BY <2>1, <2>2 DEF Next
<1> QED BY <1>2, <1>3, <1>4

\* Although GET_STATS copies without the zone lock, the copy shows every
\* counter as it was at some moment of the call.
THEOREM SnapshotsAreRight == Spec => []SnapshotHolds
<1>1. Init => CountInv /\ CopyBetween
  BY DEF Init, CountInv, CountsHold, LoadedCounts, NoCounts, None, CopyBetween
<1>2. CopyBetween => SnapshotHolds
  BY DEF CopyBetween, SnapshotHolds
<1> QED BY InitTyped, StepTyped, StepCounts, StepCopies, <1>1, <1>2, PTL DEF Spec

-----------------------------------------------------------------------------
(* The last-error registers.                                               *)

\* A register holds the newest violation recorded in it, later than the one
\* the host was told last; and what a call has loaded from it to tell is later
\* too.
RegisterInv ==
  /\ LastErrorKept
  /\ \A d \in Dirs : reg[d] # 0 => reg[d] = newest[d] /\ reg[d] > told[d]
  /\ ioc = "drop" /\ got # 0 => got > told[dir]

\* A violation recorded is the newest.
LEMMA LogErrorRegisters ==
  ASSUME Typed, RegisterInv, NEW b \in Bios, CountStore(b)
  PROVE  RegisterInv'
<1> DEFINE d == bio[b].dir
<1>1. UNCHANGED <<ioc, dir, got, told>>
  BY CountStoreFacts
<1>2. \/ UNCHANGED <<reg, newest, missed>>
      \/ /\ reg' = [reg EXCEPT ![d] = events + 1]
         /\ newest' = [newest EXCEPT ![d] = events + 1]
         /\ missed' = [missed EXCEPT ![d] = FALSE]
  BY CountStoreFacts
<1>3. d \in Dirs
  BY CountStoreFacts, AtBreachFacts
<1> HIDE DEF d
<1>4. CASE UNCHANGED <<reg, newest, missed>>
  BY <1>1, <1>4 DEF RegisterInv, LastErrorKept
<1>5. CASE /\ reg' = [reg EXCEPT ![d] = events + 1]
           /\ newest' = [newest EXCEPT ![d] = events + 1]
           /\ missed' = [missed EXCEPT ![d] = FALSE]
  <2>1. reg'[d] = events + 1 /\ newest'[d] = events + 1 /\ events + 1 > told[d]
    BY <1>3, <1>5 DEF Typed, TypeOK, Behind
  <2>2. ASSUME NEW k \in Dirs, k # d
        PROVE  reg'[k] = reg[k] /\ newest'[k] = newest[k] /\ missed'[k] = missed[k]
    BY <1>5, <2>2 DEF Typed, TypeOK
  <2> QED BY <1>1, <2>1, <2>2 DEF RegisterInv, LastErrorKept
<1> QED BY <1>2, <1>4, <1>5

\* What is dropped was told, or it is missed.
LEMMA DropErrorRegisters ==
  ASSUME Typed, RegisterInv, DropError
  PROVE  RegisterInv'
<1>1. /\ reg' = [reg EXCEPT ![dir] = 0] /\ newest' = newest /\ ioc' = "idle"
      /\ ioc = "drop" /\ dir \in Dirs
  BY DEF DropError, Typed, TypeOK
<1>2. reg'[dir] = 0 /\ \A k \in Dirs : k # dir => reg'[k] = reg[k]
  BY <1>1 DEF Typed, TypeOK
<1>3. \A k \in Dirs : k # dir => told'[k] = told[k] /\ missed'[k] = missed[k]
  BY DEF DropError, Typed, TypeOK
<1>4. ASSUME newest[dir] # 0, ~missed'[dir] PROVE newest[dir] = told'[dir]
  <2>1. CASE /\ told' = [told EXCEPT ![dir] = IF got = 0 THEN @ ELSE got]
             /\ missed' = [missed EXCEPT ![dir] = @ \/ reg[dir] # got]
    <3>1. told'[dir] = (IF got = 0 THEN told[dir] ELSE got)
      BY <1>1, <2>1 DEF Typed, TypeOK
    <3>2. ~missed[dir] /\ reg[dir] = got
      BY <1>1, <1>4, <2>1 DEF Typed, TypeOK
    <3> QED BY <1>1, <1>4, <3>1, <3>2 DEF RegisterInv, LastErrorKept
  <2>2. CASE /\ missed' = [missed EXCEPT ![dir] = @ \/ reg[dir] # 0]
             /\ told' = told
    <3>1. ~missed[dir] /\ reg[dir] = 0
      BY <1>1, <1>4, <2>2 DEF Typed, TypeOK
    <3> QED BY <1>1, <1>4, <2>2, <3>1 DEF RegisterInv, LastErrorKept
  <2> QED BY <2>1, <2>2 DEF DropError
<1> QED BY <1>1, <1>2, <1>3, <1>4 DEF RegisterInv, LastErrorKept

\* The other steps leave the registers alone, or load one.
LEMMA StepRegisters == Typed /\ RegisterInv /\ [Next]_vars => RegisterInv'
<1> SUFFICES ASSUME Typed, RegisterInv, [Next]_vars PROVE RegisterInv'
  OBVIOUS
<1>1. ASSUME NEW b \in Bios, CountStore(b) PROVE RegisterInv'
  BY <1>1, LogErrorRegisters
<1>2. CASE DropError
  BY <1>2, DropErrorRegisters
<1>3. ASSUME NEW d \in Dirs, IoctlGetError(d) PROVE RegisterInv'
  <2>1. UNCHANGED <<reg, newest, missed, told>> /\ dir' = d /\ got' = reg[d]
    BY <1>3 DEF IoctlGetError, registers
  <2> QED BY <2>1 DEF RegisterInv, LastErrorKept
<1>4. CASE UNCHANGED registers /\ (ioc' = "drop" => UNCHANGED <<ioc, dir, got>>)
  <2>1. UNCHANGED <<reg, newest, missed, told>>
    BY <1>4 DEF registers
  <2> QED BY <1>4, <2>1 DEF RegisterInv, LastErrorKept
<1>5. ASSUME \/ \E b \in Bios : MapBio(b) \/ CountLoad(b) \/ MapEnd(b)
             \/ IoctlRebuild \/ CopyZone
             \/ \E on \in BOOLEAN : SetLog(on)
             \/ UNCHANGED vars
      PROVE  UNCHANGED registers /\ UNCHANGED <<ioc, dir, got>>
  BY <1>5 DEF MapBio, MapBegin, CountLoad, MapEnd, IoctlRebuild, CopyZone, SetLog, vars,
              registers
<1>6. ASSUME \/ \E Z \in {Zones} \cup {{x} : x \in Zones} : IoctlReset(Z)
             \/ ClearZone \/ IoctlGetStats \/ Copied
      PROVE  UNCHANGED registers /\ ioc' # "drop"
  BY <1>6 DEF IoctlReset, ClearZone, IoctlGetStats, Copied
<1> QED BY <1>1, <1>2, <1>3, <1>4, <1>5, <1>6 DEF Next

LEMMA InitRegisters == Init => RegisterInv
  BY DEF Init, RegisterInv, LastErrorKept

\* The last error is there until the host is told, or a call that read the
\* register cleared it over a newer one or could not give it to the host.
THEOREM LastErrorStays == Spec => []LastErrorKept
<1>1. RegisterInv => LastErrorKept
  BY DEF RegisterInv
<1> QED BY InitTyped, StepTyped, InitRegisters, StepRegisters, <1>1, PTL DEF Spec

\* The host is never told an error twice, nor an older one after a newer.
THEOREM ErrorsToldInOrder == Spec => ToldInOrder
<1>1. RegisterInv => \A d \in Dirs : ioc = "drop" /\ dir = d /\ ioc' = "idle" /\ got # 0 =>
                       got > told[d]
  BY DEF RegisterInv
<1> QED BY InitTyped, StepTyped, InitRegisters, StepRegisters, <1>1, PTL
        DEF Spec, ToldInOrder
===============================================================================
