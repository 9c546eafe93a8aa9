----------------------------- MODULE ZacDevice -----------------------------
(***************************************************************************)
(* What a host-managed SMR drive promises its host, without the zone table *)
(* and the write rules that keep the promise: a sequential zone grows at   *)
(* its end only, nobody but the host's own configuration restarts it, and  *)
(* a refused request changes nothing.                                      *)
(*                                                                         *)
(* SmrZones implements this with the out-of-policy and the research flags  *)
(* clear.  The one weak point is stated, not hidden: once the pointer of a *)
(* conventional zone has run past the zone the device is no longer         *)
(* "sound", and a write may then put data anywhere in a sequential zone;   *)
(* even then no append point moves by it.                                  *)
(***************************************************************************)
EXTENDS Integers

CONSTANT Zones      \* zone indices

VARIABLES
  kind,   \* "none", "conv" or "seq", by zone
  next,   \* where a sequential zone is appended to
  data,   \* sectors of a sequential zone written since its restart
  size,   \* sectors of a zone
  barred, \* sequential zones that are read-only or offline
  sound,  \* no conventional zone has overrun its end
  by      \* who took the last step: "write", "refused" or "config"

zone(z) == <<kind[z], next[z], data[z], z \in barred>>
avars == <<kind, next, data, size, barred, sound, by>>

Kept(z) == zone(z)' = zone(z)
Restarted(z) == next[z]' = 0 /\ data[z]' = {}

Init ==
  /\ \A z \in Zones : kind[z] \in {"none", "conv", "seq"}
  /\ \A z \in Zones : next[z] = 0 /\ data[z] = {}
  /\ barred = {}
  /\ sound = TRUE
  /\ by = "config"

\* A write of n sectors that ends in sequential zone z starts at its end.
Append(z) ==
  /\ by' = "write"
  /\ sound
  /\ kind[z] = "seq" /\ z \notin barred
  /\ next[z]' > next[z] /\ next[z]' <= size
  /\ data[z]' = data[z] \cup next[z]..(next[z]' - 1)
  /\ kind[z]' = kind[z] /\ (z \in barred)' = (z \in barred)
  /\ \A y \in Zones \ {z} : Kept(y)
  /\ UNCHANGED <<size, sound>>

\* A write into conventional zones, or of nothing.
WriteConv ==
  /\ by' = "write"
  /\ sound
  /\ \A z \in Zones : Kept(z)
  /\ UNCHANGED size

\* A write of a device that is no longer sound.
WriteUnsound ==
  /\ by' = "write"
  /\ ~sound
  /\ \A z \in Zones :
       \/ Kept(z)
       \/ /\ kind[z] = "seq" /\ kind[z]' = "seq"
          /\ data[z] \subseteq data[z]'
          /\ next[z] <= next[z]' /\ next[z]' <= size
          /\ (z \in barred)' = (z \in barred)
  /\ UNCHANGED size

Refuse ==
  /\ by' = "refused"
  /\ UNCHANGED <<kind, next, data, size, barred, sound>>

\* The host configures the device: a zone is left alone or starts anew, and
\* every zone does when their size changes.
Configure ==
  /\ by' = "config"
  /\ \A z \in Zones : (Kept(z) /\ size' = size) \/ Restarted(z)

Next ==
  \/ \E z \in Zones : Append(z)
  \/ WriteConv \/ WriteUnsound
  \/ Refuse
  \/ Configure

Spec == Init /\ [][Next]_avars

=============================================================================
