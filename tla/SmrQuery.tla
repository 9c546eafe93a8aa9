------------------------------ MODULE SmrQuery ------------------------------
(***************************************************************************)
(* smrsim_query_zones: what the host is told of the zone table.  The query *)
(* holds smrsim_zone_lock, so it is a function of one state of SmrZones:   *)
(* the arguments go in, the zones copied to the caller come out.           *)
(*                                                                         *)
(* The query names zones by the index its LBA falls into; num32 and idx32, *)
(* like the room of a zone, are computed in unsigned words.                *)
(***************************************************************************)
EXTENDS SmrZones, Sequences

CONSTANT Word        \* 2^32: the width of an unsigned word

\* A zone is below 2^32 sectors (num_sectors_zone() is a u32), and there are at
\* most 2^31 of them.
ASSUME WordAssumption ==
  /\ Word \in Nat \ {0}
  /\ \A s \in ZoneSizes : s < Word
  /\ 2 * MaxZones < Word

MATCH_ALL == 0
MATCH_FULL == -1
MATCH_NFULL == -2
MATCH_FREE == -3
MATCH_RNLY == -4
MATCH_OFFL == -5
MATCH_WNEC == -6

Criteria == MATCH_WNEC..zone_size

\* num_sectors_zone() - z_write_ptr_offset wraps below 0.
Room(z) == (zone_size - Wp(z)) % Word

\* (Defect: a closed zone is free as long as its pointer is at 0.)
SelectsFreeByPtr(z, c) ==
  CASE c = MATCH_FULL -> Cond(z) = "FULL"
    [] c = MATCH_NFULL -> Cond(z) = "CLOSED"
    [] c = MATCH_FREE -> Wp(z) = 0
    [] c = MATCH_RNLY -> Cond(z) = "RO"
    [] c = MATCH_OFFL -> Cond(z) = "OFFLINE"
    [] OTHER -> FALSE

\* The conditions the five loops look for.
Selects(z, c) ==
  CASE c = MATCH_FULL -> Cond(z) = "FULL"
    [] c = MATCH_NFULL -> Cond(z) = "CLOSED" /\ Wp(z) # 0
    [] c = MATCH_FREE -> Cond(z) = "EMPTY"
    [] c = MATCH_RNLY -> Cond(z) = "RO"
    [] c = MATCH_OFFL -> Cond(z) = "OFFLINE"
    [] OTHER -> FALSE

\* Those loops: from the first zone to the end of the table, until n are found.
FoundByCond(first, n, c) ==
  LET found[z \in first..num_zones] ==
        [left \in 0..n |->
           IF z = num_zones \/ left = 0 THEN << >>
           ELSE IF Selects(z, c) THEN <<z>> \o found[z + 1][left - 1]
           ELSE found[z + 1][left]]
  IN found[first][n]

\* (Defect: the index of the first zone is not added before a zone is looked
\* at.)
FoundByRoomFromZero(first, n, c) ==
  LET found[z \in 0..n] ==
        IF z = n THEN << >>
        ELSE IF Room(z) >= c THEN <<first + z>> \o found[z + 1]
        ELSE found[z + 1]
  IN found[0]

\* A positive criterion looks at n zones only.
FoundByRoom(first, n, c) ==
  LET found[z \in first..(first + n)] ==
        IF z = first + n THEN << >>
        ELSE IF Room(z) >= c THEN <<z>> \o found[z + 1]
        ELSE found[z + 1]
  IN found[first]

\* (Defect: the first zone is not counted.)
AcceptedOneMore(first, n) == n # 0 /\ (n + first) % Word <= num_zones + 1

\* The check of the ioctl and that of smrsim_query_zones.
Accepted(first, n) == n # 0 /\ n <= num_zones /\ (n + first) % Word <= num_zones

\* The zones copied, in order; an unknown criterion copies none.
Answer(first, n, c) ==
  IF c > 0 THEN FoundByRoom(first, n, c)
  ELSE IF c = MATCH_ALL THEN [i \in 1..n |-> first + i - 1]
  ELSE FoundByCond(first, n, c)

-----------------------------------------------------------------------------
(* What the answers mean.                                                  *)

Listed(first, n, c) == {Answer(first, n, c)[i] : i \in DOMAIN Answer(first, n, c)}

\* Zones kapi.h:97-109 says a criterion matches, told by where the write
\* pointer stands and not by the condition the loops compare; a zone the host
\* made read-only or offline, or declared full, has the condition it was given.
Matching(c) ==
  {z \in Configured :
     CASE c = MATCH_ALL -> TRUE
       [] c = MATCH_FULL -> Cond(z) = "FULL" \/ (IsSeq(z) /\ Wp(z) = zone_size)
       [] c = MATCH_NFULL -> IsSeq(z) /\ 0 < Wp(z) /\ Wp(z) < zone_size
       [] c = MATCH_FREE -> IsSeq(z) /\ Wp(z) = 0 /\ Cond(z) \notin {"RO", "OFFLINE", "FULL"}
       [] c = MATCH_RNLY -> Cond(z) = "RO"
       [] c = MATCH_OFFL -> Cond(z) = "OFFLINE"
       [] c = MATCH_WNEC -> FALSE
       [] OTHER -> Wp(z) <= zone_size /\ zone_size - Wp(z) >= c}

\* An empty bio closes the first zone without writing to it: it is then
\* neither free nor partly written to the query.
ClosedUnwritten == {z \in SeqZones : Cond(z) = "CLOSED" /\ Wp(z) = 0}

Queries ==
  {q \in [first : 0..MaxZones, n : 1..MaxZones, c : Criteria] : Accepted(q.first, q.n)}

\* Every accepted query stays inside the table, answers with at most the
\* zones asked for, in ascending order and each once.
QueryInTable ==
  \A q \in Queries :
    LET a == Answer(q.first, q.n, q.c) IN
    /\ Listed(q.first, q.n, q.c) \subseteq Configured
    /\ Len(a) <= q.n
    /\ \A i \in 1..(Len(a) - 1) : a[i] < a[i + 1]

\* A query for a condition tells the host where the pointers stand: it lists
\* matching zones only, and all of them up to the last one it lists or, with
\* fewer than asked for, up to the end of the table.
QueryMatches ==
  \A q \in Queries : q.c <= 0 =>
    LET found == Listed(q.first, q.n, q.c)
        wanted == {z \in Matching(q.c) : z >= q.first} \ ClosedUnwritten
    IN
    /\ found \ ClosedUnwritten \subseteq wanted
    /\ q.c # MATCH_ALL =>
         \A z \in wanted \ found :
           Cardinality(found) = q.n /\ \A y \in found : y < z

\* A query for room, among the zones it looks at, lists exactly those with as
\* much room, as long as no pointer has overrun its zone.
RoomTold ==
  \A q \in Queries : q.c > 0 /\ WpInRange =>
    Listed(q.first, q.n, q.c) =
      {z \in Matching(q.c) : q.first <= z /\ z < q.first + q.n}

=============================================================================
