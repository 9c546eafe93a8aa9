----------------------------- MODULE ZoneStore -----------------------------
(***************************************************************************)
(* What the persistence of the zone state promises, without pages, header, *)
(* change flags and locks: the device keeps at most one snapshot; what a   *)
(* restart takes over is a state that was in use as a whole at one moment, *)
(* the one the last header was written for, or else the default state.     *)
(*                                                                         *)
(* It does not promise that a snapshot is on the device at every moment: a *)
(* save tears the last one up before the next is complete.                 *)
(*                                                                         *)
(* "No state" is the empty set, a state s the set {s}.                     *)
(***************************************************************************)
CONSTANT Default    \* the state of a device that has no snapshot

VARIABLES
  cur,    \* the state in use, none while the device is down
  head,   \* the state the header on the device was written for
  kept    \* the snapshot a restart would find, if it is whole

svars == <<cur, head, kept>>

Init == cur = {Default} /\ kept = {}

\* The state in use changes.
Change ==
  /\ cur # {} /\ cur' # {}
  /\ UNCHANGED <<head, kept>>

\* A header is written for the state in use; the snapshot is whole at once
\* only if nothing else of it is missing on the device.
Begin ==
  /\ cur # {}
  /\ head' = cur
  /\ kept' \in {{}, cur}
  /\ UNCHANGED cur

\* The rest of the state the header is for has arrived.
Complete ==
  /\ cur # {} /\ kept = {}
  /\ kept' = head
  /\ UNCHANGED <<cur, head>>

\* A part of another state is written over the snapshot.
Tear ==
  /\ cur # {}
  /\ kept' = {}
  /\ UNCHANGED <<cur, head>>

Stop == cur' = {} /\ UNCHANGED <<head, kept>>

Restart ==
  /\ cur = {}
  /\ cur' = IF kept = {} THEN {Default} ELSE kept
  /\ UNCHANGED <<head, kept>>

Next == Change \/ Begin \/ Complete \/ Tear \/ Stop \/ Restart

Spec == Init /\ [][Next]_svars

=============================================================================
