--------------------------- MODULE SmrQuery_proofs ---------------------------
(***************************************************************************)
(* What TLAPS proves of SmrQuery, for every zone table, starting zone and  *)
(* number of zones asked for:                                              *)
(*   - AnswersInTable (QueryInTable), in every mode;                       *)
(*   - RoomIsTold (RoomTold), in every mode;                               *)
(*   - AnswersMatch (QueryMatches), on the default device.                 *)
(*                                                                         *)
(* The loops of smrsim_query_zones are recursive functions; what they      *)
(* compute is proved by induction from the end of the table downwards.     *)
(***************************************************************************)
EXTENDS SmrQuery, SmrZones_default_proofs, SequenceTheorems, WellFoundedInduction

-----------------------------------------------------------------------------
(* Induction from the end of an interval, and recursion over it.           *)

\* What holds of the upper end, and of z if of z + 1, holds of the interval.
LEMMA DownInduction ==
  ASSUME NEW a \in Int, NEW b \in Int, NEW S, b \in S,
         \A z \in a..(b - 1) : z + 1 \in S => z \in S
  PROVE  \A z \in a..b : z \in S
<1> DEFINE R == {ss \in Nat \X Nat : ss[1] < ss[2]}
           Bad == {k \in Nat : b - k >= a /\ b - k \notin S}
<1>1. SUFFICES ASSUME Bad # {} PROVE FALSE
  <2> SUFFICES ASSUME Bad = {}, NEW z \in a..b PROVE z \in S
    OBVIOUS
  <2> DEFINE k == b - z
  <2>1. k \in Nat /\ b - k = z /\ b - k >= a
    OBVIOUS
  <2> HIDE DEF k
  <2>2. k \notin Bad
    OBVIOUS
  <2>3. b - k \in S
    BY <2>1, <2>2
  <2> QED BY <2>1, <2>3
<1>2. PICK m \in Bad : \A y \in Bad : ~ (<<y, m>> \in R)
  <2>1. IsWellFoundedOn(R, Nat)
    BY NatLessThanWellFounded DEF OpToRel
  <2> HIDE DEF R
  <2> QED BY <1>1, <2>1, WFMin
<1>3. m \in Nat /\ m # 0 /\ b - m >= a /\ b - m \notin S
  OBVIOUS
<1>4. m - 1 \notin Bad
  <2> SUFFICES ASSUME m - 1 \in Bad PROVE FALSE
    OBVIOUS
  <2>1. <<m - 1, m>> \in Nat \X Nat /\ <<m - 1, m>>[1] = m - 1 /\ <<m - 1, m>>[2] = m
    BY <1>3
  <2>2. m - 1 < m
    BY <1>3
  <2> QED BY <1>2, <2>1, <2>2
<1>5. b - (m - 1) = (b - m) + 1 /\ b - m \in a..(b - 1) /\ m - 1 \in Nat
  BY <1>3
<1>6. (b - m) + 1 \in S
  BY <1>3, <1>4, <1>5
<1> QED BY <1>3, <1>5, <1>6

\* A function that is computed from the upper end of an interval downwards
\* exists.
Steps(a, b, V) == [a..(b - 1) -> [V -> V]]

Computed(f, a, b, V, last, step) ==
  /\ f \in [a..b -> V]
  /\ f[b] = last
  /\ \A z \in a..(b - 1) : f[z] = step[z][f[z + 1]]

LEMMA DownRecursion ==
  ASSUME NEW a \in Int, NEW b \in Int, a <= b, NEW V, NEW last \in V,
         NEW step \in Steps(a, b, V)
  PROVE  \E f : Computed(f, a, b, V, last, step)
<1> USE DEF Steps, Computed
<1> DEFINE Down(y, f) == /\ f[b] = last
                         /\ \A z \in y..(b - 1) : f[z] = step[z][f[z + 1]]
           S == {y \in a..b : \E f \in [y..b -> V] : Down(y, f)}
<1>1. b \in S
  <2> DEFINE f == [z \in b..b |-> last]
  <2>1. b \in b..b /\ b..(b - 1) = {}
    OBVIOUS
  <2>2. f \in [b..b -> V] /\ f[b] = last
    BY <2>1
  <2> HIDE DEF f
  <2>3. Down(b, f)
    BY <2>1, <2>2
  <2> QED BY <2>2, <2>3
<1>2. ASSUME NEW y \in a..(b - 1), y + 1 \in S PROVE y \in S
  <2>1. PICK g \in [(y + 1)..b -> V] : Down(y + 1, g)
    BY <1>2
  <2> DEFINE f == [z \in y..b |-> IF z = y THEN step[y][g[y + 1]] ELSE g[z]]
  <2>2. g[y + 1] \in V /\ step[y][g[y + 1]] \in V
    OBVIOUS
  <2>3. f \in [y..b -> V]
    BY <2>2
  <2>4. f[b] = last
    BY <2>1
  <2>5. ASSUME NEW z \in y..(b - 1) PROVE f[z] = step[z][f[z + 1]]
    <3>1. z + 1 \in y..b /\ z + 1 # y /\ f[z + 1] = g[z + 1]
      OBVIOUS
    <3>2. CASE z = y
      BY <3>1, <3>2
    <3>3. CASE z # y
      <4>1. z \in (y + 1)..(b - 1) /\ f[z] = g[z]
        BY <3>3
      <4> QED BY <2>1, <3>1, <4>1
    <3> QED BY <3>2, <3>3
  <2> HIDE DEF f
  <2>6. Down(y, f)
    BY <2>4, <2>5
  <2> QED BY <2>3, <2>6
<1> HIDE DEF S
<1>3. \A z \in a..b : z \in S
  BY <1>1, <1>2, DownInduction
<1>4. a \in S
  BY <1>3
<1> QED BY <1>4 DEF S

-----------------------------------------------------------------------------
(* Lists of zones.                                                         *)

Elements(s) == {s[i] : i \in DOMAIN s}

\* A list of zones of a..(b - 1), in ascending order and each once.
Ordered(s, a, b) ==
  /\ s \in Seq(Int)
  /\ \A i \in 1..Len(s) : a <= s[i] /\ s[i] < b
  /\ \A i, j \in 1..Len(s) : i < j => s[i] < s[j]
  /\ IsFiniteSet(Elements(s)) /\ Cardinality(Elements(s)) = Len(s)
  /\ Len(s) <= b - a

\* The empty list is one,
LEMMA EmptyOrdered ==
  ASSUME NEW a \in Int, NEW b \in Int, a <= b
  PROVE  Ordered(<< >>, a, b) /\ Elements(<< >>) = {} /\ Len(<< >>) = 0
<1>1. << >> \in Seq(Int) /\ Len(<< >>) = 0 /\ Elements(<< >>) = {}
  BY DEF Elements
<1>2. IsFiniteSet(Elements(<< >>)) /\ Cardinality(Elements(<< >>)) = 0
  BY <1>1, FS_EmptySet
<1> DEFINE s == << >>
<1>3. s \in Seq(Int) /\ 1..Len(s) = {} /\ Len(s) <= b - a
  BY <1>1
<1> HIDE DEF s
<1>4. Ordered(s, a, b)
  BY <1>1, <1>2, <1>3 DEF Ordered, s
<1> QED BY <1>1, <1>4 DEF s

\* a list of later zones is one,
LEMMA LaterOrdered ==
  ASSUME NEW a \in Int, NEW b \in Int, NEW s, Ordered(s, a + 1, b)
  PROVE  Ordered(s, a, b)
<1>1. s \in Seq(Int) /\ Len(s) \in Nat /\ \A i \in 1..Len(s) : s[i] \in Int
  BY DEF Ordered
<1> QED BY <1>1 DEF Ordered

\* and so is one with the zone before them put in front.
LEMMA PutInFront ==
  ASSUME NEW a \in Int, NEW b \in Int, NEW s, Ordered(s, a + 1, b)
  PROVE  /\ Ordered(<<a>> \o s, a, b)
         /\ Elements(<<a>> \o s) = {a} \cup Elements(s)
         /\ Len(<<a>> \o s) = Len(s) + 1
<1> DEFINE t == <<a>> \o s
<1>1. /\ s \in Seq(Int) /\ Len(s) \in Nat /\ DOMAIN s = 1..Len(s)
      /\ \A i \in 1..Len(s) : s[i] \in Int /\ a < s[i] /\ s[i] < b
      /\ \A i, j \in 1..Len(s) : i < j => s[i] < s[j]
      /\ IsFiniteSet(Elements(s)) /\ Cardinality(Elements(s)) = Len(s)
      /\ Len(s) <= b - (a + 1)
  BY DEF Ordered
<1>2. /\ t \in Seq(Int) /\ Len(t) = Len(s) + 1 /\ DOMAIN t = 1..(Len(s) + 1)
      /\ t[1] = a
      /\ \A i \in 2..(Len(s) + 1) : t[i] = s[i - 1]
  <2>1. <<a>> \in Seq(Int) /\ Len(<<a>>) = 1 /\ <<a>>[1] = a
    OBVIOUS
  <2> QED BY <1>1, <2>1, ConcatProperties, LenProperties
<1> HIDE DEF t
<1>3. a < b
  <2>1. Len(s) >= 0
    BY <1>1
  <2> QED BY <1>1, <2>1
<1>4. ASSUME NEW i \in 1..Len(t) PROVE a <= t[i] /\ t[i] < b
  <2>1. CASE i = 1
    BY <1>2, <1>3, <2>1
  <2>2. CASE i # 1
    <3>1. i \in 2..(Len(s) + 1) /\ i - 1 \in 1..Len(s)
      BY <1>1, <1>2, <2>2
    <3>2. t[i] = s[i - 1]
      BY <1>2, <3>1
    <3> QED BY <1>1, <3>1, <3>2
  <2> QED BY <2>1, <2>2
<1>5. ASSUME NEW i \in 1..Len(t), NEW j \in 1..Len(t), i < j PROVE t[i] < t[j]
  <2>1. j \in 2..(Len(s) + 1) /\ t[j] = s[j - 1] /\ j - 1 \in 1..Len(s)
    BY <1>1, <1>2, <1>5
  <2>2. CASE i = 1
    BY <1>1, <1>2, <2>1, <2>2
  <2>3. CASE i # 1
    <3>1. t[i] = s[i - 1] /\ i - 1 \in 1..Len(s) /\ i - 1 < j - 1
      BY <1>1, <1>2, <1>5, <2>3
    <3> QED BY <1>1, <2>1, <3>1
  <2> QED BY <2>2, <2>3
<1>6. Elements(t) = {a} \cup Elements(s)
  <2>1. ASSUME NEW x \in Elements(t) PROVE x \in {a} \cup Elements(s)
    <3>1. PICK i \in 1..(Len(s) + 1) : x = t[i]
      BY <1>2, <2>1 DEF Elements
    <3>2. CASE i = 1
      BY <1>2, <3>1, <3>2
    <3>3. CASE i # 1
      <4>1. x = s[i - 1] /\ i - 1 \in 1..Len(s)
        BY <1>1, <1>2, <3>1, <3>3
      <4> QED BY <1>1, <4>1 DEF Elements
    <3> QED BY <3>2, <3>3
  <2>2. a \in Elements(t)
    <3>1. 1 \in DOMAIN t
      BY <1>1, <1>2
    <3> QED BY <1>2, <3>1 DEF Elements
  <2>3. ASSUME NEW x \in Elements(s) PROVE x \in Elements(t)
    <3>1. PICK i \in 1..Len(s) : x = s[i]
      BY <1>1, <2>3 DEF Elements
    <3>2. i + 1 \in 2..(Len(s) + 1) /\ (i + 1) - 1 = i /\ i + 1 \in 1..(Len(s) + 1)
      BY <1>1
    <3>3. t[i + 1] = x
      BY <1>2, <3>1, <3>2
    <3> QED BY <1>2, <3>2, <3>3 DEF Elements
  <2> QED BY <2>1, <2>2, <2>3
<1>7. a \notin Elements(s)
  BY <1>1 DEF Elements
<1>8. IsFiniteSet(Elements(t)) /\ Cardinality(Elements(t)) = Len(t)
  <2>1. IsFiniteSet(Elements(s)) /\ Cardinality(Elements(s)) = Len(s)
    BY <1>1
  <2>2. /\ IsFiniteSet(Elements(s) \cup {a})
        /\ Cardinality(Elements(s) \cup {a}) = Cardinality(Elements(s)) + 1
    BY <2>1, <1>7, FS_AddElement
  <2> QED BY <1>2, <1>6, <2>1, <2>2
<1>9. Len(t) <= b - a
  BY <1>1, <1>2
<1>10. Ordered(t, a, b)
  BY <1>2, <1>4, <1>5, <1>8, <1>9 DEF Ordered
<1> QED BY <1>2, <1>6, <1>10 DEF t

-----------------------------------------------------------------------------
(* The loop for room.                                                      *)

\* Its equation has a solution,
RoomLoop(f, first, n, c) ==
  f = [z \in first..(first + n) |->
         IF z = first + n THEN << >>
         ELSE IF Room(z) >= c THEN <<z>> \o f[z + 1]
         ELSE f[z + 1]]

LEMMA RoomLoopExists ==
  ASSUME NEW first \in Nat, NEW n \in Nat, NEW c
  PROVE  \E f : RoomLoop(f, first, n, c)
<1> DEFINE b == first + n
           step == [z \in first..(b - 1) |->
                      [s \in Seq(Int) |-> IF Room(z) >= c THEN <<z>> \o s ELSE s]]
<1>1. step \in [first..(b - 1) -> [Seq(Int) -> Seq(Int)]]
  <2> SUFFICES ASSUME NEW z \in first..(b - 1), NEW s \in Seq(Int)
               PROVE  (IF Room(z) >= c THEN <<z>> \o s ELSE s) \in Seq(Int)
    OBVIOUS
  <2>1. <<z>> \in Seq(Int)
    OBVIOUS
  <2>2. <<z>> \o s \in Seq(Int)
    BY <2>1, ConcatProperties
  <2> QED BY <2>2
<1>2. << >> \in Seq(Int) /\ first \in Int /\ b \in Int /\ first <= b
  OBVIOUS
<1>3. PICK f : Computed(f, first, b, Seq(Int), << >>, step)
  <2>1. step \in Steps(first, b, Seq(Int))
    BY <1>1 DEF Steps
  <2> HIDE DEF step, b
  <2> QED BY <1>2, <2>1, DownRecursion
<1>4. ASSUME NEW z \in first..b
      PROVE  f[z] = IF z = b THEN << >>
                    ELSE IF Room(z) >= c THEN <<z>> \o f[z + 1]
                    ELSE f[z + 1]
  <2>0. /\ f \in [first..b -> Seq(Int)] /\ f[b] = << >>
        /\ \A y \in first..(b - 1) : f[y] = step[y][f[y + 1]]
    BY <1>3 DEF Computed
  <2>1. CASE z = b
    BY <2>0, <2>1
  <2>2. CASE z # b
    <3>1. z \in first..(b - 1) /\ z + 1 \in first..b
      BY <2>2
    <3>2. f[z + 1] \in Seq(Int) /\ f[z] = step[z][f[z + 1]]
      BY <2>0, <3>1
    <3> QED BY <2>2, <3>1, <3>2
  <2> QED BY <2>1, <2>2
<1>5. f = [z \in first..b |->
             IF z = b THEN << >>
             ELSE IF Room(z) >= c THEN <<z>> \o f[z + 1]
             ELSE f[z + 1]]
  <2>1. f = [z \in first..b |-> f[z]]
    BY <1>3 DEF Computed
  <2> QED BY <1>4, <2>1
<1> QED BY <1>5 DEF RoomLoop

\* and what solves it lists, from every zone on, the zones with room.
LEMMA RoomListed ==
  ASSUME NEW first \in Nat, NEW n \in Nat, NEW c
  PROVE  /\ Ordered(FoundByRoom(first, n, c), first, first + n)
         /\ Elements(FoundByRoom(first, n, c))
              = {y \in first..(first + n - 1) : Room(y) >= c}
<1> DEFINE b == first + n
           f == CHOOSE g : RoomLoop(g, first, n, c)
           With(z) == {y \in z..(b - 1) : Room(y) >= c}
           Good == {z \in first..b : Ordered(f[z], z, b) /\ Elements(f[z]) = With(z)}
<1>1. FoundByRoom(first, n, c) = f[first]
  BY DEF FoundByRoom, RoomLoop
<1>2. RoomLoop(f, first, n, c)
  BY RoomLoopExists
<1> HIDE DEF f
<1>3. \A z \in first..b : f[z] = IF z = b THEN << >>
                                 ELSE IF Room(z) >= c THEN <<z>> \o f[z + 1]
                                 ELSE f[z + 1]
  BY <1>2 DEF RoomLoop
<1>4. first \in Int /\ b \in Int /\ first <= b /\ first \in first..b /\ b \in first..b
  OBVIOUS
<1>5. b \in Good
  <2>0. b..(b - 1) = {}
    BY <1>4
  <2>1. f[b] = << >> /\ With(b) = {}
    BY <1>3, <1>4, <2>0
  <2>2. Ordered(<< >>, b, b) /\ Elements(<< >>) = {}
    BY <1>4, EmptyOrdered
  <2> QED BY <1>4, <2>1, <2>2
<1>6. ASSUME NEW z \in first..(b - 1), z + 1 \in Good PROVE z \in Good
  <2>1. Ordered(f[z + 1], z + 1, b) /\ Elements(f[z + 1]) = With(z + 1)
    BY <1>6
  <2>2. z \in Int /\ z \in first..b /\ z # b /\ z < b
    BY <1>4
  <2>3. z..(b - 1) = {z} \cup (z + 1)..(b - 1)
    BY <1>4, <2>2
  <2>4. CASE Room(z) >= c
    <3>1. f[z] = <<z>> \o f[z + 1]
      BY <1>3, <2>2, <2>4
    <3>2. With(z) = {z} \cup With(z + 1)
      BY <2>3, <2>4
    <3> HIDE DEF With
    <3>3. Ordered(<<z>> \o f[z + 1], z, b)
          /\ Elements(<<z>> \o f[z + 1]) = {z} \cup Elements(f[z + 1])
      BY <1>4, <2>1, <2>2, PutInFront
    <3> QED BY <2>1, <2>2, <3>1, <3>2, <3>3
  <2>5. CASE ~(Room(z) >= c)
    <3>1. f[z] = f[z + 1]
      BY <1>3, <2>2, <2>5
    <3>2. With(z) = With(z + 1)
      BY <2>3, <2>5
    <3>3. Ordered(f[z], z, b) /\ Elements(f[z]) = With(z)
      BY <1>4, <2>1, <2>2, <3>1, <3>2, LaterOrdered
    <3> QED BY <2>2, <3>3
  <2> QED BY <2>4, <2>5
<1> HIDE DEF Good
<1>7. first \in Good
  <2>1. \A z \in first..b : z \in Good
    BY <1>4, <1>5, <1>6, DownInduction
  <2> QED BY <1>4, <2>1
<1> QED BY <1>1, <1>7 DEF Good

-----------------------------------------------------------------------------
(* The loops for a condition.                                              *)

\* Their equation has a solution,
CondLoop(f, first, n, c) ==
  f = [z \in first..num_zones |->
         [left \in 0..n |->
            IF z = num_zones \/ left = 0 THEN << >>
            ELSE IF Selects(z, c) THEN <<z>> \o f[z + 1][left - 1]
            ELSE f[z + 1][left]]]

LEMMA CondLoopExists ==
  ASSUME NEW first \in Nat, NEW n \in Nat, NEW c, num_zones \in Nat, first <= num_zones
  PROVE  \E f : CondLoop(f, first, n, c)
<1> DEFINE V == [0..n -> Seq(Int)]
           last == [left \in 0..n |-> << >>]
           Put(z, g) == [left \in 0..n |->
                           IF left = 0 THEN << >>
                           ELSE IF Selects(z, c) THEN <<z>> \o g[left - 1]
                           ELSE g[left]]
           step == [z \in first..(num_zones - 1) |-> [g \in V |-> Put(z, g)]]
<1>1. ASSUME NEW z \in first..(num_zones - 1), NEW g \in V PROVE Put(z, g) \in V
  <2> SUFFICES ASSUME NEW left \in 0..n, left # 0
               PROVE  <<z>> \o g[left - 1] \in Seq(Int) /\ g[left] \in Seq(Int)
    OBVIOUS
  <2>1. <<z>> \in Seq(Int) /\ g[left - 1] \in Seq(Int)
    OBVIOUS
  <2> QED BY <2>1, ConcatProperties
<1>2. last \in V
  OBVIOUS
<1>3. PICK f : Computed(f, first, num_zones, V, last, step)
  <2> HIDE DEF V, last, Put
  <2>1. step \in Steps(first, num_zones, V)
    BY <1>1 DEF Steps
  <2> HIDE DEF step
  <2> QED BY <1>2, <2>1, DownRecursion
<1> HIDE DEF V
<1>4. ASSUME NEW z \in first..num_zones
      PROVE  f[z] = [left \in 0..n |->
                       IF z = num_zones \/ left = 0 THEN << >>
                       ELSE IF Selects(z, c) THEN <<z>> \o f[z + 1][left - 1]
                       ELSE f[z + 1][left]]
  <2>0. /\ f \in [first..num_zones -> V] /\ f[num_zones] = last
        /\ \A y \in first..(num_zones - 1) : f[y] = step[y][f[y + 1]]
    BY <1>3 DEF Computed
  <2>1. CASE z = num_zones
    BY <2>0, <2>1
  <2>2. CASE z # num_zones
    <3>1. z \in first..(num_zones - 1) /\ z + 1 \in first..num_zones
      BY <2>2
    <3>2. f[z + 1] \in V /\ f[z] = step[z][f[z + 1]]
      BY <2>0, <3>1
    <3>3. f[z] = Put(z, f[z + 1])
      BY <3>1, <3>2
    <3> QED BY <2>2, <3>3
  <2> QED BY <2>1, <2>2
<1> HIDE DEF step, last
<1>5. CondLoop(f, first, n, c)
  <2>1. f = [z \in first..num_zones |-> f[z]]
    BY <1>3 DEF Computed
  <2> QED BY <1>4, <2>1 DEF CondLoop
<1> QED BY <1>5

\* and what solves it lists, from every zone on, selected zones only, not more
\* than are left to find, and every one of them up to the last one listed.
Lists(s, z, left, c) ==
  /\ Ordered(s, z, num_zones) /\ Len(s) <= left
  /\ \A x \in Elements(s) : Selects(x, c)
  /\ \A y \in z..(num_zones - 1) :
       Selects(y, c) /\ y \notin Elements(s)
         => Len(s) = left /\ \A x \in Elements(s) : x < y

LEMMA CondListed ==
  ASSUME NEW first \in Nat, NEW n \in Nat, NEW c, num_zones \in Nat, first <= num_zones
  PROVE  Lists(FoundByCond(first, n, c), first, n, c)
<1> DEFINE f == CHOOSE g : CondLoop(g, first, n, c)
           Good == {z \in first..num_zones :
                      \A left \in 0..n : Lists(f[z][left], z, left, c)}
<1>1. FoundByCond(first, n, c) = f[first][n]
  BY DEF FoundByCond, CondLoop
<1>2. CondLoop(f, first, n, c)
  BY CondLoopExists
<1> HIDE DEF f
<1>3. ASSUME NEW z \in first..num_zones, NEW left \in 0..n
      PROVE  f[z][left] = IF z = num_zones \/ left = 0 THEN << >>
                          ELSE IF Selects(z, c) THEN <<z>> \o f[z + 1][left - 1]
                          ELSE f[z + 1][left]
  <2>1. f[z] = [l \in 0..n |->
                  IF z = num_zones \/ l = 0 THEN << >>
                  ELSE IF Selects(z, c) THEN <<z>> \o f[z + 1][l - 1]
                  ELSE f[z + 1][l]]
    BY <1>2 DEF CondLoop
  <2> QED BY <2>1
<1>4. ASSUME NEW z \in first..num_zones, NEW left \in 0..n, z = num_zones \/ left = 0
      PROVE  Lists(<< >>, z, left, c)
  <2>1. z \in Int /\ z <= num_zones
    OBVIOUS
  <2>2. Ordered(<< >>, z, num_zones) /\ Elements(<< >>) = {} /\ Len(<< >>) = 0
    BY <2>1, EmptyOrdered
  <2>3. left = 0 \/ z..(num_zones - 1) = {}
    BY <1>4
  <2> QED BY <2>2, <2>3 DEF Lists
<1>5. num_zones \in Good
  <2>1. num_zones \in first..num_zones
    OBVIOUS
  <2> QED BY <1>3, <1>4, <2>1
<1>6. ASSUME NEW z \in first..(num_zones - 1), z + 1 \in Good PROVE z \in Good
  <2>1. z \in Int /\ z \in first..num_zones /\ z # num_zones
    OBVIOUS
  <2>2. SUFFICES ASSUME NEW left \in 0..n PROVE Lists(f[z][left], z, left, c)
    BY <2>1
  <2>3. CASE left = 0
    BY <1>3, <1>4, <2>1, <2>3
  <2>4. CASE left # 0 /\ Selects(z, c)
    <3> DEFINE s == f[z + 1][left - 1]
    <3>0. left - 1 \in 0..n
      BY <2>4
    <3>1. f[z][left] = <<z>> \o s
      BY <1>3, <2>1, <2>4
    <3>2. Lists(s, z + 1, left - 1, c)
      BY <1>6, <3>0
    <3> HIDE DEF s
    <3>3. /\ Ordered(<<z>> \o s, z, num_zones)
          /\ Elements(<<z>> \o s) = {z} \cup Elements(s)
          /\ Len(<<z>> \o s) = Len(s) + 1 /\ Len(s) \in Nat
      <4>1. Ordered(s, z + 1, num_zones)
        BY <3>2 DEF Lists
      <4>2. Len(s) \in Nat
        BY <4>1 DEF Ordered
      <4>3. z \in Int /\ num_zones \in Int
        BY <2>1
      <4>4. Ordered(<<z>> \o s, z, num_zones)
        BY <4>1, <4>3, PutInFront
      <4>5. Elements(<<z>> \o s) = {z} \cup Elements(s)
        BY <4>1, <4>3, PutInFront
      <4>6. Len(<<z>> \o s) = Len(s) + 1
        BY <4>1, <4>3, PutInFront
      <4> QED BY <4>2, <4>4, <4>5, <4>6
    <3>4. ASSUME NEW y \in z..(num_zones - 1), Selects(y, c), y # z, y \notin Elements(s)
          PROVE  Len(s) + 1 = left /\ \A x \in {z} \cup Elements(s) : x < y
      <4>1. y \in (z + 1)..(num_zones - 1) /\ z < y
        BY <2>1, <3>4
      <4>2. Len(s) = left - 1 /\ \A x \in Elements(s) : x < y
        BY <3>2, <3>4, <4>1 DEF Lists
      <4> QED BY <4>1, <4>2
    <3>5. Len(s) + 1 <= left
      BY <3>2, <3>3 DEF Lists
    <3>6. \A x \in {z} \cup Elements(s) : Selects(x, c)
      BY <2>4, <3>2 DEF Lists
    <3>7. Lists(<<z>> \o s, z, left, c)
      BY <3>3, <3>4, <3>5, <3>6 DEF Lists
    <3> QED BY <3>1, <3>7
  <2>5. CASE left # 0 /\ ~Selects(z, c)
    <3> DEFINE s == f[z + 1][left]
    <3>1. f[z][left] = s
      BY <1>3, <2>1, <2>5
    <3>2. Lists(s, z + 1, left, c)
      BY <1>6
    <3> HIDE DEF s
    <3>3. Ordered(s, z, num_zones)
      BY <2>1, <3>2, LaterOrdered DEF Lists
    <3>4. \A y \in z..(num_zones - 1) : Selects(y, c) => y \in (z + 1)..(num_zones - 1)
      <4>1. \A y \in z..(num_zones - 1) : y = z \/ y \in (z + 1)..(num_zones - 1)
        BY <2>1
      <4> QED BY <2>5, <4>1
    <3>5. Lists(s, z, left, c)
      BY <3>2, <3>3, <3>4 DEF Lists
    <3> QED BY <3>1, <3>5
  <2> QED BY <2>3, <2>4, <2>5
<1> HIDE DEF Good
<1>7. first \in Good
  <2>1. \A z \in first..num_zones : z \in Good
    BY <1>5, <1>6, DownInduction
  <2> QED BY <2>1
<1>8. n \in 0..n
  OBVIOUS
<1> QED BY <1>1, <1>7, <1>8 DEF Good


-----------------------------------------------------------------------------
(* What an accepted query asks for.                                        *)

\* A word holds what is below its width.
LEMMA InWord ==
  ASSUME NEW x \in Nat, NEW w \in Nat \ {0}, x < w
  PROVE  x % w = x
OBVIOUS

\* The sum the check of smrsim_query_zones forms does not wrap, so the zones
\* asked for are zones of the table.
LEMMA QueryFacts ==
  ASSUME TypeOK, NEW q \in Queries
  PROVE  /\ q.first \in Nat /\ q.n \in Nat /\ q.n # 0 /\ q.c \in Int
         /\ q.first + q.n <= num_zones
         /\ num_zones \in Nat /\ num_zones <= MaxZones /\ MaxZones \in Nat
<1>1. /\ MaxZones \in Nat /\ Word \in Nat \ {0} /\ 2 * MaxZones < Word
      /\ num_zones \in Nat /\ num_zones <= MaxZones /\ zone_size \in Nat
  BY SizesAssumption, WordAssumption DEF TypeOK
<1>2. /\ q.first \in 0..MaxZones /\ q.n \in 1..MaxZones /\ q.c \in Criteria
      /\ Accepted(q.first, q.n)
  BY DEF Queries
<1>3. q.n + q.first \in Nat /\ q.n + q.first < Word
  BY <1>1, <1>2
<1>4. (q.n + q.first) % Word = q.n + q.first
  BY <1>1, <1>3, InWord
<1>5. q.n + q.first <= num_zones
  BY <1>2, <1>4 DEF Accepted
<1>6. q.c \in Int
  BY <1>1, <1>2 DEF Criteria, MATCH_WNEC
<1> QED BY <1>1, <1>2, <1>5, <1>6

\* MATCH_ALL answers with the zones asked for, one after the other.
LEMMA AllListed ==
  ASSUME NEW first \in Nat, NEW n \in Nat
  PROVE  LET s == [i \in 1..n |-> first + i - 1] IN
         /\ Ordered(s, first, first + n) /\ Len(s) = n
         /\ Elements(s) = first..(first + n - 1)
<1> DEFINE s == [i \in 1..n |-> first + i - 1]
<1>1. s \in Seq(Int) /\ Len(s) = n /\ DOMAIN s = 1..n
  OBVIOUS
<1>2. \A i \in 1..n : s[i] = first + i - 1
  OBVIOUS
<1> HIDE DEF s
<1>3. Elements(s) = first..(first + n - 1)
  <2>1. ASSUME NEW x \in Elements(s) PROVE x \in first..(first + n - 1)
    BY <1>1, <1>2, <2>1 DEF Elements
  <2>2. ASSUME NEW x \in first..(first + n - 1) PROVE x \in Elements(s)
    <3>1. x - first + 1 \in 1..n /\ s[x - first + 1] = x
      BY <1>2
    <3> QED BY <1>1, <3>1 DEF Elements
  <2> QED BY <2>1, <2>2
<1>4. IsFiniteSet(Elements(s)) /\ Cardinality(Elements(s)) = n
  <2>1. first \in Int /\ first + n - 1 \in Int
    OBVIOUS
  <2>2. /\ IsFiniteSet(first..(first + n - 1))
        /\ Cardinality(first..(first + n - 1)) =
             IF first > first + n - 1 THEN 0 ELSE (first + n - 1) - first + 1
    BY <2>1, FS_Interval
  <2>3. (IF first > first + n - 1 THEN 0 ELSE (first + n - 1) - first + 1) = n
    OBVIOUS
  <2> QED BY <1>3, <2>2, <2>3
<1>5. Ordered(s, first, first + n)
  BY <1>1, <1>2, <1>4 DEF Ordered
<1> QED BY <1>1, <1>3, <1>5 DEF s

-----------------------------------------------------------------------------
(* Every answer stays inside the table.                                    *)

\* A list of zones below b is one of zones below any higher bound.
LEMMA WiderOrdered ==
  ASSUME NEW a \in Int, NEW b \in Int, NEW d \in Int, b <= d, NEW s, Ordered(s, a, b)
  PROVE  Ordered(s, a, d)
<1>1. s \in Seq(Int) /\ Len(s) \in Nat /\ \A i \in 1..Len(s) : s[i] \in Int
  BY DEF Ordered
<1> QED BY <1>1 DEF Ordered

\* Whatever the criterion, the zones listed are zones of the table, in order.
LEMMA AnswerOrdered ==
  ASSUME TypeOK, NEW q \in Queries
  PROVE  LET s == Answer(q.first, q.n, q.c) IN
         Ordered(s, q.first, num_zones) /\ Len(s) <= q.n
<1> DEFINE s == Answer(q.first, q.n, q.c)
<1>1. /\ q.first \in Nat /\ q.n \in Nat /\ q.c \in Int
      /\ num_zones \in Nat /\ q.first + q.n <= num_zones /\ q.first <= num_zones
  BY QueryFacts
<1>2. ASSUME Ordered(s, q.first, q.first + q.n)
      PROVE  Ordered(s, q.first, num_zones) /\ Len(s) <= q.n
  <2>1. q.first \in Int /\ q.first + q.n \in Int /\ num_zones \in Int
    BY <1>1
  <2>2. Ordered(s, q.first, num_zones)
    BY <1>1, <1>2, <2>1, WiderOrdered
  <2>3. Len(s) \in Nat /\ Len(s) <= (q.first + q.n) - q.first
    BY <1>2 DEF Ordered
  <2> QED BY <1>1, <2>2, <2>3
<1>3. CASE q.c > 0
  <2>1. s = FoundByRoom(q.first, q.n, q.c)
    BY <1>3 DEF Answer
  <2> QED BY <1>1, <1>2, <2>1, RoomListed
<1>4. CASE q.c = MATCH_ALL
  <2>1. s = [i \in 1..q.n |-> q.first + i - 1]
    BY <1>4 DEF Answer, MATCH_ALL
  <2>2. Ordered([i \in 1..q.n |-> q.first + i - 1], q.first, q.first + q.n)
    BY <1>1, AllListed
  <2> QED BY <1>2, <2>1, <2>2
<1>5. CASE ~(q.c > 0) /\ q.c # MATCH_ALL
  <2>1. s = FoundByCond(q.first, q.n, q.c)
    BY <1>5 DEF Answer
  <2>2. Lists(FoundByCond(q.first, q.n, q.c), q.first, q.n, q.c)
    BY <1>1, CondListed
  <2> QED BY <2>1, <2>2 DEF Lists
<1> QED BY <1>3, <1>4, <1>5

\* A slot below the number of zones is a zone.
LEMMA ZonesOfTable ==
  ASSUME TypeOK, NEW z \in Nat
  PROVE  z \in Configured <=> z < num_zones
<1>1. num_zones \in Nat /\ MaxZones \in Nat /\ num_zones <= MaxZones
  BY SizesAssumption DEF TypeOK
<1> QED BY <1>1 DEF Configured, Slots

\* Whatever the host configured and wrote, a query smrsim_query_zones accepts
\* copies zones inside the table only, not more than asked for, in ascending
\* order and each once: the word its two arguments are added up in is wide
\* enough, and so none of the six loops runs past the table.
THEOREM AnswersInTable == Spec => []QueryInTable
<1>1. TypeOK => QueryInTable
  <2> SUFFICES ASSUME TypeOK, NEW q \in Queries
               PROVE  LET a == Answer(q.first, q.n, q.c) IN
                      /\ Listed(q.first, q.n, q.c) \subseteq Configured
                      /\ Len(a) <= q.n
                      /\ \A i \in 1..(Len(a) - 1) : a[i] < a[i + 1]
    BY DEF QueryInTable
  <2> DEFINE a == Answer(q.first, q.n, q.c)
  <2>1. Ordered(a, q.first, num_zones) /\ Len(a) <= q.n /\ q.first \in Nat
    BY AnswerOrdered, QueryFacts
  <2>2. Listed(q.first, q.n, q.c) = {a[i] : i \in DOMAIN a}
    BY DEF Listed
  <2> HIDE DEF a
  <2>3. /\ Len(a) \in Nat /\ DOMAIN a = 1..Len(a)
        /\ \A i \in 1..Len(a) : a[i] \in Nat /\ a[i] < num_zones
        /\ \A i, j \in 1..Len(a) : i < j => a[i] < a[j]
    BY <2>1 DEF Ordered
  <2>4. \A i \in DOMAIN a : a[i] \in Configured
    BY <2>3, ZonesOfTable
  <2>5. ASSUME NEW i \in 1..(Len(a) - 1) PROVE a[i] < a[i + 1]
    <3>1. i \in 1..Len(a) /\ i + 1 \in 1..Len(a) /\ i < i + 1
      BY <2>3
    <3> QED BY <2>3, <3>1
  <2> QED BY <2>1, <2>2, <2>4, <2>5 DEF a
<1> QED BY <1>1, TypeCorrect, PTL

-----------------------------------------------------------------------------
(* A query for room.                                                       *)

\* The zone size is one the host asked for, hence below the width of a word.
SizeChosen == zone_size \in ZoneSizes

\* Only the ioctls that lay out a new table change it.
LEMMA StepSize == SizeChosen /\ [Next]_vars => SizeChosen'
<1> SUFFICES ASSUME SizeChosen, [Next]_vars PROVE SizeChosen'
  OBVIOUS
<1>1. CASE UNCHANGED zone_size
  BY <1>1 DEF SizeChosen
<1>2. ASSUME NEW n, NEW s \in ZoneSizes, Rebuild(n, s) PROVE SizeChosen'
  BY <1>2 DEF Rebuild, SizeChosen
<1>3. ASSUME NEW b \in Bios, MapWrite(b) \/ MapRead(b) PROVE UNCHANGED zone_size
  BY <1>3 DEF MapWrite, WriteRefused, WriteRefusedAtBorder, WriteTraced, WriteSplit, WriteSpan,
              WriteRewriteFull, WriteAdvance, MapRead, Mapped, Refused
<1>4. CASE ZoneIoctl
  <2>1. ASSUME NEW z \in Slots, ResetZonePtr(z) PROVE UNCHANGED zone_size
    BY <2>1 DEF ResetZonePtr
  <2>2. ASSUME NEW z \in Slots, NEW a \in ModifyArgs, ModifyZone(z, a) PROVE UNCHANGED zone_size
    BY <2>2 DEF ModifyZone
  <2>3. ASSUME NEW type \in {"CONV", "SEQ"}, NEW l \in ZoneSizes, AddZone(type, l)
        PROVE  UNCHANGED zone_size
    BY <2>3 DEF AddZone
  <2>4. ASSUME ClearZones PROVE UNCHANGED zone_size
    BY <2>4 DEF ClearZones
  <2>5. ASSUME NEW s \in ZoneSizes, SetZoneSize(s) \/ SetZoneSizeNoMem(s) PROVE SizeChosen'
    BY <1>2, <2>5 DEF SetZoneSize, SetZoneSizeNoMem, SizeChosen
  <2>6. ASSUME ResetZoneConfig PROVE SizeChosen'
    BY <1>2, <2>6, SizesAssumption DEF ResetZoneConfig
  <2>7. ASSUME NEW c \in CrossCodes, NEW z \in Slots, BorderAcross(c, z) PROVE UNCHANGED zone_size
    BY <2>7 DEF BorderAcross
  <2> QED BY <1>1, <1>4, <2>1, <2>2, <2>3, <2>4, <2>5, <2>6, <2>7 DEF ZoneIoctl
<1>5. CASE DeviceIoctl
  <2>1. ASSUME ResetDefaultZones PROVE SizeChosen'
    BY <1>2, <2>1, SizesAssumption DEF ResetDefaultZones
  <2>2. ASSUME ~ResetDefaultZones PROVE UNCHANGED zone_size
    BY <1>5, <2>2 DEF DeviceIoctl, ResetDevConfig, ResetDefaultDev, ResetDefaultRt, SetReadPolicy,
                      SetWritePolicy, SetWpReset, SetWpAdjust, table
  <2> QED BY <1>1, <2>1, <2>2
<1>6. CASE UNCHANGED vars
  BY <1>1, <1>6 DEF vars
<1> QED BY <1>1, <1>3, <1>4, <1>5, <1>6 DEF Next, Bio

\* The subtraction of the room does not wrap while the pointer is in its zone.
LEMMA RoomIs ==
  ASSUME TypeOK, SizeChosen, NEW z \in Slots, Wp(z) <= zone_size
  PROVE  Room(z) = zone_size - Wp(z)
<1>1. Wp(z) \in Nat /\ zone_size \in Nat
  BY DEF TypeOK, ZoneRec, Wp
<1>2. zone_size < Word /\ Word \in Nat \ {0}
  BY WordAssumption DEF SizeChosen
<1>3. zone_size - Wp(z) \in Nat /\ zone_size - Wp(z) < Word
  BY <1>1, <1>2
<1> QED BY <1>2, <1>3, InWord DEF Room

\* Whatever the host configured and wrote, a query for room lists, of the
\* zones it looks at, exactly those with as much room, in every state where no
\* pointer has left its zone; from a pointer that has, the unsigned
\* subtraction of smrsim_query_zones makes a room of nearly 2^32 sectors.
THEOREM RoomIsTold == Spec => []RoomTold
<1>1. TypeOK /\ SizeChosen => RoomTold
  <2> SUFFICES ASSUME TypeOK, SizeChosen, NEW q \in Queries, q.c > 0, WpInRange
               PROVE  Listed(q.first, q.n, q.c) =
                        {z \in Matching(q.c) : q.first <= z /\ z < q.first + q.n}
    BY DEF RoomTold
  <2>1. /\ q.first \in Nat /\ q.n \in Nat /\ q.c \in Int
        /\ num_zones \in Nat /\ q.first + q.n <= num_zones
    BY QueryFacts
  <2>2. Listed(q.first, q.n, q.c) = Elements(FoundByRoom(q.first, q.n, q.c))
    BY DEF Listed, Elements, Answer
  <2>3. Elements(FoundByRoom(q.first, q.n, q.c))
          = {y \in q.first..(q.first + q.n - 1) : Room(y) >= q.c}
    BY <2>1, RoomListed
  <2>4. Matching(q.c) = {z \in Configured : Wp(z) <= zone_size /\ zone_size - Wp(z) >= q.c}
    BY <2>1 DEF Matching, MATCH_ALL, MATCH_FULL, MATCH_NFULL, MATCH_FREE, MATCH_RNLY,
                MATCH_OFFL, MATCH_WNEC
  <2>5. ASSUME NEW z \in Configured PROVE z \in Nat /\ z \in Slots /\ z < num_zones
                                          /\ Wp(z) <= zone_size /\ Room(z) = zone_size - Wp(z)
    <3>1. z \in Slots /\ z < num_zones /\ Wp(z) <= zone_size
      BY DEF Configured, WpInRange
    <3> QED BY <3>1, RoomIs, SizesAssumption DEF Slots
  <2>6. ASSUME NEW z \in q.first..(q.first + q.n - 1) PROVE z \in Configured
    BY <2>1, ZonesOfTable
  <2>7. ASSUME NEW z \in Configured
        PROVE  z \in q.first..(q.first + q.n - 1) <=> q.first <= z /\ z < q.first + q.n
    BY <2>1, <2>5
  <2>8. {y \in q.first..(q.first + q.n - 1) : Room(y) >= q.c}
          = {z \in Configured : /\ Wp(z) <= zone_size /\ zone_size - Wp(z) >= q.c
                                /\ q.first <= z /\ z < q.first + q.n}
    BY <2>5, <2>6, <2>7
  <2> QED BY <2>2, <2>3, <2>4, <2>8
<1>2. Init => SizeChosen
  BY SizesAssumption DEF Init, SizeChosen
<1> QED BY <1>1, <1>2, StepSize, TypeCorrect, PTL DEF Spec

-----------------------------------------------------------------------------
(* A query for a condition, on the default device.                         *)

\* MODIFY_ZONECONFIG gives a zone it makes conventional neither of the two
\* conditions of an empty or of a started sequential zone: smrsim_util sends
\* Z_COND_NO_WP with every conventional type.
ModifyMatched ==
  \A a \in ModifyArgs : a.z_type = "CONV" => a.z_conds \notin {"EMPTY", "CLOSED"}

\* A zone shows conditions of its type.
Shown(z) ==
  /\ IsSeq(z) => Cond(z) # "NO_WP"
  /\ IsConv(z) => Cond(z) \notin {"EMPTY", "CLOSED"}

ShownConds == \A z \in Configured : Shown(z)

\* A bio keeps that.
LEMMA WriteShown ==
  ASSUME TypeOK, HostManaged, ShownConds, NEW b \in Bios, MapWrite(b), NEW z \in Configured
  PROVE  Shown(z)'
<1>0. /\ z \in Slots /\ zone_status[z] \in ZoneRec /\ zone_status \in [Slots -> ZoneRec]
      /\ b.zone \in Slots /\ wflag = 0 /\ Shown(z)
  BY BioFacts, FlagsOff DEF Configured, TypeOK, HostManaged, ShownConds
<1>1. zone_status'[z].z_type = zone_status[z].z_type
  BY <1>0, WriteKeepsTypes
<1>2. ASSUME Cond(z)' = Cond(z) PROVE Shown(z)'
  BY <1>0, <1>1, <1>2 DEF Shown, IsSeq, IsConv
<1>3. CASE IsSeq(z)
  <2>1. CASE zone_status'[z] = zone_status[z]
    BY <1>2, <2>1 DEF Cond
  <2>2. CASE WriteAdvance(b) /\ z = b.zone
    <3>1. Cond(z)' = CondAt(End(b))
      BY <1>0, <1>3, <2>2, AdvanceWithin DEF Cond, ZoneRec
    <3> QED BY <1>1, <1>3, <3>1 DEF Shown, IsSeq, IsConv, CondAt
  <2> QED BY <1>0, <1>3, <2>1, <2>2, HmWrite
<1>4. CASE ~IsSeq(z)
  <2>1. CASE WriteRefused(b)
    BY <1>2, <2>1 DEF WriteRefused, Cond
  <2>2. CASE WriteRefusedAtBorder(b) \/ WriteTraced(b)
    <3>1. zone_status'[z].z_conds = zone_status[z].z_conds
      BY <1>0, <2>2 DEF WriteRefusedAtBorder, WriteTraced, ZoneRec
    <3> QED BY <1>2, <3>1 DEF Cond
  <2>3. ~WriteSplit(b) /\ ~WriteRewriteFull(b)
    BY <1>0, NoModes DEF HostManaged, WriteRewriteFull
  <2>4. CASE WriteSpan(b)
    <3>1. zone_status'[z].z_conds \in
            {zone_status[z].z_conds, IF IsConv(z) THEN "NO_WP" ELSE "FULL"}
      BY <1>0, <1>4, <2>4 DEF WriteSpan, ZoneRec
    <3>2. Cond(z)' = Cond(z) \/ (IsConv(z) /\ Cond(z)' = "NO_WP")
          \/ (~IsConv(z) /\ Cond(z)' = "FULL")
      BY <3>1 DEF Cond
    <3> QED BY <1>1, <1>2, <1>4, <3>2 DEF Shown, IsSeq, IsConv
  <2>5. CASE WriteAdvance(b)
    <3>1. zone_status'[z].z_conds = zone_status[z].z_conds
      BY <1>0, <1>4, <2>5 DEF WriteAdvance, ZoneRec
    <3> QED BY <1>2, <3>1 DEF Cond
  <2> QED BY <2>1, <2>2, <2>3, <2>4, <2>5 DEF MapWrite
<1> QED BY <1>3, <1>4

\* So does an ioctl.
LEMMA IoctlShown ==
  ASSUME TypeOK, HostManaged, ModifyMatched, ShownConds, ZoneIoctl \/ DeviceIoctl,
         NEW z \in Configured'
  PROVE  Shown(z)'
<1>0. /\ z \in Slots /\ z < num_zones' /\ z \in Nat /\ num_zones \in Nat
      /\ zone_status \in [Slots -> ZoneRec] /\ zone_status[z] \in ZoneRec
  BY SizesAssumption DEF Configured, TypeOK, Slots
<1>1. ASSUME /\ zone_status'[z].z_type = zone_status[z].z_type
             /\ zone_status'[z].z_conds = zone_status[z].z_conds
             /\ z < num_zones
      PROVE  Shown(z)'
  <2>1. Shown(z)
    BY <1>0, <1>1 DEF ShownConds, Configured
  <2> QED BY <1>1, <2>1 DEF Shown, IsSeq, IsConv, Cond
<1>2. ASSUME NEW type \in {"CONV", "SEQ"}, NEW size, zone_status'[z] = FreshZone(type, size)
      PROVE  Shown(z)'
  BY <1>2 DEF FreshZone, Shown, IsSeq, IsConv, Cond
<1>3. ASSUME NEW n \in Nat, NEW size, Rebuild(n, size) PROVE Shown(z)'
  <2>1. zone_status'[z] = FreshZone("CONV", size) \/ zone_status'[z] = FreshZone("SEQ", size)
    BY <1>0, <1>3 DEF Rebuild, InitZoneStatus
  <2> QED BY <1>2, <2>1
<1>4. ASSUME NEW y \in Slots, ResetZonePtr(y) PROVE Shown(z)'
  <2>1. CASE z = y
    <3>1. /\ zone_status'[z].z_type = zone_status[z].z_type /\ ~IsConv(z)
          /\ IsSeq(z) => zone_status'[z].z_conds = "EMPTY"
      BY <1>0, <1>4, <2>1 DEF ResetZonePtr, ZoneRec
    <3> QED BY <3>1 DEF Shown, IsSeq, IsConv, Cond
  <2>2. CASE z # y
    BY <1>0, <1>1, <1>4, <2>2 DEF ResetZonePtr
  <2> QED BY <2>1, <2>2
<1>5. ASSUME NEW y \in Slots, NEW a \in ModifyArgs, ModifyZone(y, a) PROVE Shown(z)'
  <2>1. CASE z = y
    <3>1. zone_status'[z].z_type = a.z_type /\ zone_status'[z].z_conds = a.z_conds
      BY <1>0, <1>5, <2>1 DEF ModifyZone
    <3>2. a.z_conds = "NO_WP" => a.z_type = "CONV"
      BY <1>5 DEF ModifyZone
    <3>3. a.z_type = "CONV" => a.z_conds \notin {"EMPTY", "CLOSED"}
      BY DEF ModifyMatched
    <3> QED BY <3>1, <3>2, <3>3 DEF Shown, IsSeq, IsConv, Cond
  <2>2. CASE z # y
    BY <1>0, <1>1, <1>5, <2>2 DEF ModifyZone
  <2> QED BY <2>1, <2>2
<1>6. ASSUME NEW type \in {"CONV", "SEQ"}, NEW l \in ZoneSizes, AddZone(type, l)
      PROVE  Shown(z)'
  <2>1. CASE z = num_zones
    BY <1>0, <1>2, <1>6, <2>1 DEF AddZone
  <2>2. CASE z # num_zones
    BY <1>0, <1>1, <1>6, <2>2 DEF AddZone
  <2> QED BY <2>1, <2>2
<1>7. ~ClearZones
  BY <1>0 DEF ClearZones
<1>8. ASSUME NEW s \in ZoneSizes, SetZoneSize(s) \/ SetZoneSizeNoMem(s) PROVE Shown(z)'
  BY <1>3, <1>8, NumZonesBound DEF SetZoneSize, SetZoneSizeNoMem, HostManaged
<1>9. ASSUME ResetZoneConfig \/ ResetDefaultZones PROVE Shown(z)'
  BY <1>3, <1>9, NumZonesBound DEF ResetZoneConfig, ResetDefaultZones
<1>10. ASSUME NEW c \in CrossCodes, NEW y \in Slots, BorderAcross(c, y) PROVE Shown(z)'
  <2>1. \/ zone_status'[z] = [zone_status[z] EXCEPT !.z_flag = c]
        \/ zone_status'[z] = zone_status[z]
    BY <1>0, <1>10 DEF BorderAcross
  <2>2. num_zones' = num_zones
    BY <1>10 DEF BorderAcross
  <2> QED BY <1>0, <1>1, <2>1, <2>2 DEF ZoneRec
<1>11. ASSUME DeviceIoctl, ~ResetDefaultZones PROVE Shown(z)'
  <2>1. UNCHANGED table
    BY <1>11
    DEF DeviceIoctl, ResetDevConfig, ResetDefaultDev, ResetDefaultRt, SetReadPolicy,
        SetWritePolicy, SetWpReset, SetWpAdjust
  <2> QED BY <1>0, <1>1, <2>1 DEF table
<1> QED
  BY <1>4, <1>5, <1>6, <1>7, <1>8, <1>9, <1>10, <1>11 DEF ZoneIoctl

\* ShownConds is inductive beside HmInv.
LEMMA StepShown ==
  ASSUME HostManaged, ModifyMatched
  PROVE  TypeOK /\ ShownConds /\ [Next]_vars => ShownConds'
<1> SUFFICES ASSUME TypeOK, ShownConds, [Next]_vars, NEW z \in Configured'
             PROVE  Shown(z)'
  BY DEF ShownConds
<1>1. ASSUME NEW b \in Bios, MapWrite(b) PROVE Shown(z)'
  <2>1. z \in Configured
    BY <1>1, WriteKeepsSeqZones
  <2> QED BY <1>1, <2>1, WriteShown
<1>2. CASE UNCHANGED <<num_zones, zone_status>>
  BY <1>2 DEF ShownConds, Shown, Configured, IsSeq, IsConv, Cond
<1>3. ASSUME NEW b \in Bios, MapRead(b) PROVE Shown(z)'
  BY <1>2, <1>3 DEF MapRead, Mapped, Refused
<1>4. CASE UNCHANGED vars
  BY <1>2, <1>4 DEF vars
<1> QED BY <1>1, <1>3, <1>4, IoctlShown DEF Next, Bio

\* What the loops select is what kapi.h says a criterion matches, but for the
\* zones an empty bio has closed.
LEMMA SelectsMatching ==
  ASSUME HmInv, ShownConds, NEW c \in MATCH_WNEC..(-1), NEW z \in Configured \ ClosedUnwritten
  PROVE  Selects(z, c) <=> z \in Matching(c)
<1>0. /\ z \in Slots /\ Wp(z) \in Nat /\ zone_size \in Nat \ {0} /\ Cond(z) \in Conds
      /\ IsSeq(z) \/ IsConv(z)
      /\ ~(IsSeq(z) /\ IsConv(z))
      /\ Shown(z)
  BY DEF HmInv, TypeOK, TypedZones, ShownConds, Configured, ZoneRec, Wp, Cond, IsSeq, IsConv
<1>1. ASSUME IsSeq(z)
      PROVE  /\ Wp(z) <= zone_size
             /\ Wp(z) = zone_size => Cond(z) = "FULL"
             /\ Wp(z) > 0 => Cond(z) \in {"CLOSED", "FULL"}
             /\ Cond(z) = "FULL" => Wp(z) \in {0, zone_size}
             /\ ~(Cond(z) = "CLOSED" /\ Wp(z) = 0)
  <2>1. z \in SeqZones
    BY <1>1 DEF SeqZones
  <2> QED BY <2>1 DEF HmInv, SeqWpInRange, CondAgrees, ClosedUnwritten
<1>2. c \in {-1, -2, -3, -4, -5, -6}
  BY DEF MATCH_WNEC
<1> USE DEF MATCH_ALL, MATCH_FULL, MATCH_NFULL, MATCH_FREE, MATCH_RNLY, MATCH_OFFL, MATCH_WNEC
<1>3. CASE c = -1
  <2>1. Selects(z, c) <=> Cond(z) = "FULL"
    BY <1>3 DEF Selects
  <2>2. z \in Matching(c) <=> Cond(z) = "FULL" \/ (IsSeq(z) /\ Wp(z) = zone_size)
    BY <1>3 DEF Matching
  <2> QED BY <1>1, <2>1, <2>2
<1>4. CASE c = -2
  <2>1. Selects(z, c) <=> Cond(z) = "CLOSED" /\ Wp(z) # 0
    BY <1>4 DEF Selects
  <2>2. z \in Matching(c) <=> IsSeq(z) /\ 0 < Wp(z) /\ Wp(z) < zone_size
    BY <1>4 DEF Matching
  <2>3. Cond(z) = "CLOSED" => IsSeq(z)
    BY <1>0 DEF Shown
  <2> QED BY <1>0, <1>1, <2>1, <2>2, <2>3
<1>5. CASE c = -3
  <2>1. Selects(z, c) <=> Cond(z) = "EMPTY"
    BY <1>5 DEF Selects
  <2>2. z \in Matching(c)
          <=> IsSeq(z) /\ Wp(z) = 0 /\ Cond(z) \notin {"RO", "OFFLINE", "FULL"}
    BY <1>5 DEF Matching
  <2>3. (Cond(z) = "EMPTY" => IsSeq(z)) /\ (IsSeq(z) => Cond(z) # "NO_WP")
    BY <1>0 DEF Shown
  <2> QED BY <1>0, <1>1, <2>1, <2>2, <2>3 DEF Conds
<1>6. CASE c = -4 \/ c = -5 \/ c = -6
  BY <1>6 DEF Selects, Matching
<1> QED BY <1>2, <1>3, <1>4, <1>5, <1>6

\* On the default device the answer to a query for a condition tells the host
\* where the write pointers stand: the loops of smrsim_query_zones compare the
\* stored condition, and every write, reset, retype and size change keeps it
\* what kapi.h says the criterion matches.  A zone an empty bio closed is the
\* exception ClosedUnwritten names.
THEOREM AnswersMatch ==
  ASSUME HostManaged, ModifyMatched
  PROVE  Spec => []QueryMatches
<1>1. HmInv /\ ShownConds => QueryMatches
  <2> SUFFICES ASSUME HmInv, ShownConds, NEW q \in Queries, q.c <= 0
               PROVE  LET found == Listed(q.first, q.n, q.c)
                          wanted == {z \in Matching(q.c) : z >= q.first} \ ClosedUnwritten
                      IN
                      /\ found \ ClosedUnwritten \subseteq wanted
                      /\ q.c # MATCH_ALL =>
                           \A z \in wanted \ found :
                             Cardinality(found) = q.n /\ \A y \in found : y < z
    BY DEF QueryMatches
  <2> DEFINE s == Answer(q.first, q.n, q.c)
             found == Listed(q.first, q.n, q.c)
             wanted == {z \in Matching(q.c) : z >= q.first} \ ClosedUnwritten
  <2>0. TypeOK
    BY DEF HmInv
  <2>1. /\ q.first \in Nat /\ q.n \in Nat /\ q.c \in Int
        /\ num_zones \in Nat /\ q.first <= num_zones
    BY <2>0, QueryFacts
  <2>2. found = Elements(s)
    BY DEF Listed, Elements
  <2>3. Ordered(s, q.first, num_zones)
    BY <2>0, AnswerOrdered
  <2>4. q.c \in MATCH_WNEC..zone_size
    BY DEF Queries, Criteria
  <2>5. Matching(q.c) \subseteq Configured
    BY DEF Matching
  <2>6. \A z \in found : z \in Configured /\ z >= q.first
    <3>1. \A i \in DOMAIN s : s[i] \in Nat /\ s[i] >= q.first /\ s[i] < num_zones
      BY <2>1, <2>3 DEF Ordered
    <3> HIDE DEF s, found
    <3>2. \A z \in found : z \in Nat /\ z >= q.first /\ z < num_zones
      BY <2>2, <3>1 DEF Elements
    <3> QED BY <2>0, <3>2, ZonesOfTable
  <2>7. ASSUME q.c = MATCH_ALL PROVE found \ ClosedUnwritten \subseteq wanted
    <3>1. Matching(q.c) = Configured
      BY <2>7 DEF Matching, MATCH_ALL, MATCH_FULL, MATCH_NFULL, MATCH_FREE, MATCH_RNLY,
                  MATCH_OFFL, MATCH_WNEC
    <3> HIDE DEF found
    <3> QED BY <2>6, <3>1
  <2>8. ASSUME q.c # MATCH_ALL
        PROVE  /\ found \ ClosedUnwritten \subseteq wanted
               /\ \A z \in wanted \ found :
                    Cardinality(found) = q.n /\ \A y \in found : y < z
    <3>1. q.c \in MATCH_WNEC..(-1)
      BY <2>1, <2>4, <2>8 DEF MATCH_WNEC, MATCH_ALL
    <3>2. Lists(s, q.first, q.n, q.c)
      <4>1. s = FoundByCond(q.first, q.n, q.c)
        BY <2>1, <2>8 DEF Answer
      <4>2. Lists(FoundByCond(q.first, q.n, q.c), q.first, q.n, q.c)
        BY <2>1, CondListed
      <4> QED BY <4>1, <4>2
    <3>3. Cardinality(found) = Len(s)
      BY <2>2, <2>3 DEF Ordered
    <3> HIDE DEF s, found
    <3>4. \A x \in found : Selects(x, q.c)
      BY <2>2, <3>2 DEF Lists
    <3>5. ASSUME NEW z \in found \ ClosedUnwritten PROVE z \in wanted
      BY <2>6, <3>1, <3>4, SelectsMatching
    <3>6. ASSUME NEW z \in wanted, z \notin found
          PROVE  Cardinality(found) = q.n /\ \A y \in found : y < z
      <4>1. z \in Configured /\ z \notin ClosedUnwritten /\ z >= q.first
        BY <2>5
      <4>2. Selects(z, q.c)
        BY <3>1, <4>1, SelectsMatching
      <4>3. z \in q.first..(num_zones - 1)
        BY <2>1, <4>1, SizesAssumption DEF Configured, Slots
      <4>4. Len(s) = q.n /\ \A y \in Elements(s) : y < z
        BY <2>2, <3>2, <3>6, <4>2, <4>3 DEF Lists
      <4> QED BY <2>2, <3>3, <4>4
    <3> QED BY <3>5, <3>6
  <2> QED BY <2>7, <2>8
<1>2. Init => ShownConds
  <2> SUFFICES ASSUME Init, NEW z \in Configured PROVE Shown(z)
    BY DEF ShownConds
  <2>1. z \in Slots /\ z \in Nat /\ z < NumZonesDefault /\ NumZonesDefault \in Nat
    BY NumZonesBound, SizesAssumption DEF Init, Configured, Slots
  <2> QED BY <2>1 DEF Init, InitZoneStatus, FreshZone, Shown, IsSeq, IsConv, Cond
<1>3. Spec => []HmInv
  BY HmInit, HmStep, PTL DEF Spec
<1>4. HmInv => TypeOK
  BY DEF HmInv
<1> QED BY <1>1, <1>2, <1>3, <1>4, StepShown, PTL DEF Spec
=============================================================================
