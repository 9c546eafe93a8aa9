------------------------------- MODULE SmrStats -------------------------------
(***************************************************************************)
(* What the simulator tells of broken rules: the out-of-policy counters of *)
(* each zone and the two last-error registers.  Bios count and record      *)
(* under smrsim_zone_lock; the ioctls that read and clear are serialised   *)
(* by smrsim_ioct_lock only, so a count (a load and a store) races with    *)
(* the memset of a reset, and an error with the clearing of its register.  *)
(*                                                                         *)
(* When a rule is broken is SmrZones; here a bio breaks some and what      *)
(* matters is which counter and which register that reaches, in the order  *)
(* smrsim_write_rule_check and smrsim_read_rule_check go.  An error code   *)
(* is abstracted to the number of the violation it was recorded for.  The  *)
(* counters of a zone are cleared and copied in one step: no property      *)
(* compares two of them.                                                   *)
(***************************************************************************)
EXTENDS Integers, Sequences, FiniteSets, FiniteSetsExt

CONSTANTS
  Bios,            \* processes that submit bios
  SeqZones,        \* zones that are sequential, of
  NumZones,        \* SMR_NUMZONES
  Research,        \* whether SMRSIM_WP_RT's flags may let a violation pass
  MaxEvents        \* bound: violations

ASSUME StatsAssumption ==
  /\ NumZones \in Nat \ {0}
  /\ SeqZones \subseteq 0..(NumZones - 1)
  /\ Research \in BOOLEAN
  /\ MaxEvents \in Nat
  /\ "free" \notin Bios

Zones == 0..(NumZones - 1)
Counters == {"beyond_swp", "read_span", "not_on_swp", "write_span", "unaligned"}
Dirs == {"READ", "WRITE"}

VARIABLES
  count,           \* zone_stats
  reg,             \* smrsim_dbg_rerr and smrsim_dbg_werr, 0: none
  log,             \* smrsim_dbg_log_enabled
  lock,            \* who holds smrsim_zone_lock
  bio, loaded,     \* each process: its bio, and the count it loaded
  ioc,             \* where the ioctl is
  todo, snap,      \* zones it has still to clear or to copy; the copy
  dir, got,        \* the register it reads, and what it read there
  events,          \* violations so far (history)
  seen,            \* violations counted since a counter's clearing (history)
  raced,           \* counters cleared under a bio that counts (history)
  start,           \* the counters when the copy began (history)
  newest, missed,  \* last violation each register took, and whether it was
                   \* cleared unread (history)
  told             \* last one the host was told (history)

counting == <<count, seen, raced>>
copying == <<snap, start>>
registers == <<reg, newest, missed, told>>
vars == <<count, reg, log, lock, bio, loaded, ioc, todo, snap, dir, got, events,
          seen, raced, start, newest, missed, told>>

None == -1
NoCounts == [c \in Counters |-> 0]
NoBio == [zone |-> None, dir |-> "READ", steps |-> << >>]

Init ==
  /\ count = [z \in Zones |-> NoCounts]
  /\ reg = [d \in Dirs |-> 0]
  /\ log = FALSE
  /\ lock = "free"
  /\ bio = [b \in Bios |-> NoBio] /\ loaded = [b \in Bios |-> None]
  /\ ioc = "idle" /\ todo = {} /\ snap = count
  /\ dir = "READ" /\ got = 0
  /\ events = 0
  /\ seen = count /\ raced = {} /\ start = count
  /\ newest = reg /\ missed = [d \in Dirs |-> FALSE] /\ told = reg

-----------------------------------------------------------------------------
(* The rules a bio breaks, in the order they are looked at.                *)

\* A violation: its counter ("none" has one), whether smrsim_log_error is
\* called, and whether the bio is refused when no out-of-policy flag is set.
Breach(counter, logged, refused) ==
  [counter |-> counter, logged |-> logged, refused |-> refused]

If(cond, breach) == IF cond THEN <<breach>> ELSE << >>

\* broken: the rules; eased: those a research flag passes, uncounted by the
\* log.  A write that leaves a conventional zone breaks a rule if it reaches a
\* sequential one, and no error is recorded of it.
WriteBreaches(z, broken, eased) ==
  IF z \in SeqZones
    THEN If("unaligned" \in broken, Breach("unaligned", TRUE, TRUE))
         \o If("off" \in broken, Breach("not_on_swp", "off" \notin eased, "off" \notin eased))
         \o If("over" \in broken, Breach("write_span", "over" \notin eased, "over" \notin eased))
    ELSE If("over" \in broken /\ z + 1 \in SeqZones, Breach("write_span", FALSE, TRUE))

ReadBreaches(z, broken) ==
  If("over" \in broken, Breach("read_span", TRUE, TRUE))
  \o If("off" \in broken /\ z \in SeqZones, Breach("beyond_swp", TRUE, TRUE))

\* A read-only or full zone: no counter, but an error.
BarredBreaches == <<Breach("none", TRUE, TRUE)>>

\* strict: the out-of-policy flag is 0, and the first refusal ends the check.
Taken(breaches, strict) ==
  LET refusals == {i \in DOMAIN breaches : breaches[i].refused} IN
  IF strict /\ refusals # {} THEN SubSeq(breaches, 1, Min(refusals)) ELSE breaches

\* A zone's border: the last zone has none, nothing is mapped behind it.
Broken(z) ==
  {B \in SUBSET {"unaligned", "off", "over"} : "over" \in B => z + 1 \in Zones}

Eased(z, B) ==
  {E \in SUBSET (B \cap {"off", "over"}) :
     (E # {} => Research) /\ ("over" \in E => z + 1 \in SeqZones)}

-----------------------------------------------------------------------------
(* Bios.                                                                   *)

\* (Defect: the zone lock is not taken.)
MapBeginUnlocked(b, z, d, breaches) ==
  /\ bio[b] = NoBio /\ breaches # << >>
  /\ events + Len(breaches) <= MaxEvents
  /\ lock' = b
  /\ bio' = [bio EXCEPT ![b] = [zone |-> z, dir |-> d, steps |-> breaches]]
  /\ UNCHANGED <<counting, registers, log, loaded, ioc, todo, copying, dir, got, events>>

\* A bio that breaks no rule touches none of this.
MapBegin(b, z, d, breaches) ==
  /\ lock = "free"
  /\ bio[b] = NoBio /\ breaches # << >>
  /\ events + Len(breaches) <= MaxEvents
  /\ lock' = b
  /\ bio' = [bio EXCEPT ![b] = [zone |-> z, dir |-> d, steps |-> breaches]]
  /\ UNCHANGED <<counting, registers, log, loaded, ioc, todo, copying, dir, got, events>>

MapBio(b) ==
  \E z \in Zones, strict \in BOOLEAN :
    \/ \E B \in Broken(z) :
         \/ MapBegin(b, z, "READ", Taken(ReadBreaches(z, B), strict))
         \/ \E E \in Eased(z, B) :
              MapBegin(b, z, "WRITE", Taken(WriteBreaches(z, B, E), strict))
    \/ strict /\ MapBegin(b, z, "WRITE", BarredBreaches)

AtBreach(b) == bio[b] # NoBio /\ bio[b].steps # << >>

\* count++ loads,
CountLoad(b) ==
  /\ AtBreach(b) /\ loaded[b] = None
  /\ Head(bio[b].steps).counter # "none"
  /\ loaded' = [loaded EXCEPT ![b] = count[bio[b].zone][Head(bio[b].steps).counter]]
  /\ UNCHANGED <<counting, registers, log, lock, bio, ioc, todo, copying, dir, got, events>>

\* (Defect: an error that nobody read is not replaced.)
LogErrorFirst(d, logged) ==
  IF logged /\ log
    THEN /\ reg' = [reg EXCEPT ![d] = IF @ = 0 THEN events' ELSE @]
         /\ newest' = [newest EXCEPT ![d] = events']
         /\ missed' = [missed EXCEPT ![d] = FALSE]
         /\ told' = told
    ELSE UNCHANGED registers

\* smrsim_log_error records nothing while logging is off.
LogError(d, logged) ==
  IF logged /\ log
    THEN /\ reg' = [reg EXCEPT ![d] = events']
         /\ newest' = [newest EXCEPT ![d] = events']
         /\ missed' = [missed EXCEPT ![d] = FALSE]
         /\ told' = told
    ELSE UNCHANGED registers

\* and stores; the error is recorded next.
CountStore(b) ==
  LET z == bio[b].zone
      breach == Head(bio[b].steps)
  IN
  /\ AtBreach(b)
  /\ breach.counter = "none" \/ loaded[b] # None
  /\ IF breach.counter = "none"
       THEN UNCHANGED counting
       ELSE /\ count' = [count EXCEPT ![z][breach.counter] = loaded[b] + 1]
            /\ seen' = [seen EXCEPT ![z][breach.counter] = @ + 1]
            /\ raced' = raced
  /\ events' = events + 1
  /\ LogError(bio[b].dir, breach.logged)
  /\ loaded' = [loaded EXCEPT ![b] = None]
  /\ bio' = [bio EXCEPT ![b].steps = Tail(@)]
  /\ UNCHANGED <<log, lock, ioc, todo, copying, dir, got>>

MapEnd(b) ==
  /\ bio[b] # NoBio /\ bio[b].steps = << >>
  /\ bio' = [bio EXCEPT ![b] = NoBio] /\ lock' = "free"
  /\ UNCHANGED <<counting, registers, log, loaded, ioc, todo, copying, dir, got, events>>

-----------------------------------------------------------------------------
(* Ioctls, one at a time.                                                  *)

\* RESET_ZONESTATS (one zone), RESET_STATS, and what CLEAR_ZONECONFIG does
\* before it takes the zone lock.
IoctlReset(Z) ==
  /\ ioc = "idle"
  /\ ioc' = "clear" /\ todo' = Z
  /\ UNCHANGED <<counting, registers, log, lock, bio, loaded, copying, dir, got, events>>

\* Counters of zone z between the load and the store of a bio.
Counting(z) ==
  {<<z, Head(bio[b].steps).counter>> :
     b \in {p \in Bios : loaded[p] # None /\ bio[p].zone = z}}

ClearZone ==
  LET z == Min(todo) IN
  /\ ioc = "clear"
  /\ count' = [count EXCEPT ![z] = NoCounts]
  /\ seen' = [seen EXCEPT ![z] = NoCounts]
  /\ raced' = {r \in raced : r[1] # z} \cup Counting(z)
  /\ todo' = todo \ {z}
  /\ ioc' = IF todo' = {} THEN "idle" ELSE "clear"
  /\ UNCHANGED <<registers, log, lock, bio, loaded, copying, dir, got, events>>

\* A new state (RESET_ZONECONFIG, SET_SIZZONEDEFAULT) is made under the zone
\* lock.
IoctlRebuild ==
  /\ ioc = "idle" /\ lock = "free"
  /\ count' = [z \in Zones |-> NoCounts]
  /\ seen' = count' /\ raced' = {}
  /\ UNCHANGED <<registers, log, lock, bio, loaded, ioc, todo, copying, dir, got, events>>

\* (Defect: the size counts one zone too few.)
IoctlGetStatsShort ==
  /\ ioc = "idle"
  /\ ioc' = "copy" /\ todo' = Zones \ {NumZones - 1}
  /\ start' = count /\ snap' = [z \in Zones |-> NoCounts]
  /\ UNCHANGED <<counting, registers, log, lock, bio, loaded, dir, got, events>>

\* GET_STATS copies without the zone lock.
IoctlGetStats ==
  /\ ioc = "idle"
  /\ ioc' = "copy" /\ todo' = Zones
  /\ start' = count /\ snap' = [z \in Zones |-> NoCounts]
  /\ UNCHANGED <<counting, registers, log, lock, bio, loaded, dir, got, events>>

CopyZone ==
  LET z == Min(todo) IN
  /\ ioc = "copy" /\ todo # {}
  /\ snap' = [snap EXCEPT ![z] = count[z]]
  /\ todo' = todo \ {z}
  /\ UNCHANGED <<counting, registers, log, lock, bio, loaded, ioc, start, dir, got, events>>

\* The copy is given to the host and freed.
Copied ==
  /\ ioc = "copy" /\ todo = {}
  /\ ioc' = "idle"
  /\ snap' = [z \in Zones |-> NoCounts] /\ start' = snap'
  /\ UNCHANGED <<counting, registers, log, lock, bio, loaded, todo, dir, got, events>>

\* GET_LAST_RERROR and GET_LAST_WERROR load the register
IoctlGetError(d) ==
  /\ ioc = "idle"
  /\ ioc' = "drop" /\ dir' = d /\ got' = reg[d]
  /\ UNCHANGED <<counting, registers, log, lock, bio, loaded, todo, copying, events>>

\* (Defect: the register is read but not cleared.)
DropErrorKept ==
  /\ ioc = "drop"
  /\ told' = [told EXCEPT ![dir] = IF got = 0 THEN @ ELSE got]
  /\ ioc' = "idle" /\ got' = 0
  /\ UNCHANGED <<counting, reg, newest, missed, log, lock, bio, loaded, todo, copying,
                 dir, events>>

\* and clear it before the host has the error: the copy to the host may
\* fail.
DropError ==
  /\ ioc = "drop"
  /\ reg' = [reg EXCEPT ![dir] = 0]
  /\ \/ /\ told' = [told EXCEPT ![dir] = IF got = 0 THEN @ ELSE got]
        /\ missed' = [missed EXCEPT ![dir] = @ \/ reg[dir] # got]
     \/ missed' = [missed EXCEPT ![dir] = @ \/ reg[dir] # 0] /\ told' = told
  /\ ioc' = "idle" /\ got' = 0
  /\ UNCHANGED <<counting, newest, log, lock, bio, loaded, todo, copying, dir, events>>

\* SET_LOGENABLE and SET_LOGDISABLE
SetLog(on) ==
  /\ ioc = "idle"
  /\ log' = on
  /\ UNCHANGED <<counting, registers, lock, bio, loaded, ioc, todo, copying, dir, got, events>>

-----------------------------------------------------------------------------
Next ==
  \/ \E b \in Bios : MapBio(b) \/ CountLoad(b) \/ CountStore(b) \/ MapEnd(b)
  \/ \E Z \in {Zones} \cup {{z} : z \in Zones} : IoctlReset(Z)
  \/ ClearZone
  \/ IoctlRebuild
  \/ IoctlGetStats \/ CopyZone \/ Copied
  \/ \E d \in Dirs : IoctlGetError(d)
  \/ DropError
  \/ \E on \in BOOLEAN : SetLog(on)

Spec == Init /\ [][Next]_vars

-----------------------------------------------------------------------------
(* Types.                                                                  *)

Tally == [Zones -> [Counters -> 0..MaxEvents]]
BreachRec == [counter : Counters \cup {"none"}, logged : BOOLEAN, refused : BOOLEAN]
BioRec == [zone : Zones \cup {None}, dir : Dirs, steps : Seq(BreachRec)]

\* Every variable keeps its type, and only the holder of the zone lock is
\* inside smrsim_map.
TypeOK ==
  /\ count \in Tally /\ seen \in Tally /\ snap \in Tally /\ start \in Tally
  /\ reg \in [Dirs -> 0..MaxEvents]
  /\ log \in BOOLEAN
  /\ lock \in Bios \cup {"free"}
  /\ bio \in [Bios -> BioRec]
  /\ \A b \in Bios : bio[b] # NoBio <=> lock = b
  /\ loaded \in [Bios -> 0..MaxEvents \cup {None}]
  /\ ioc \in {"idle", "clear", "copy", "drop"}
  /\ todo \subseteq Zones
  /\ dir \in Dirs /\ got \in 0..MaxEvents
  /\ events \in 0..MaxEvents
  /\ raced \subseteq (Zones \X Counters)
  /\ newest \in [Dirs -> 0..MaxEvents] /\ told \in [Dirs -> 0..MaxEvents]
  /\ missed \in [Dirs -> BOOLEAN]

-----------------------------------------------------------------------------
(* What the host may rely on.                                              *)

\* No violation is lost to two bios or to a reset, and a counter shows
\* exactly the violations since it was last cleared, whatever bios and ioctls
\* ran meanwhile; only of a counter that was cleared between a bio's load and
\* its store the host is told more, until it is cleared again.
CountsHold ==
  \A z \in Zones, c \in Counters :
    /\ count[z][c] >= seen[z][c]
    /\ <<z, c>> \notin raced => count[z][c] = seen[z][c]

\* The copy GET_STATS gives away without the zone lock shows every counter of
\* every zone as it was at some moment of the call.
SnapshotHolds ==
  (ioc = "copy" /\ todo = {}) =>
    \A z \in Zones, c \in Counters :
      start[z][c] <= snap[z][c] /\ snap[z][c] <= count[z][c]

\* The last violation recorded in a register is there until the host is told,
\* unless it arrived between the load and the clearing by another call, or
\* the copy to the host failed.
LastErrorKept ==
  \A d \in Dirs :
    newest[d] # 0 /\ ~missed[d] => newest[d] \in {reg[d], told[d]}

\* The host is never told an error twice, nor an older one after a newer.
ToldInOrder ==
  [][\A d \in Dirs : ioc = "drop" /\ dir = d /\ ioc' = "idle" /\ got # 0 =>
       got > told[d]]_vars

===============================================================================
