---------------------------- MODULE MCSmrPstore ----------------------------
(* Small instances of SmrPstore for TLC.                                   *)
EXTENDS SmrPstore

\* One page holds everything (up to 92 zones).
MCOnePage == [z \in Zones |-> 0]

\* Statistics on page 0, the status of all zones but the first on page 1.
MCStatusPage == [z \in Zones |-> IF z = 0 THEN 0 ELSE 1]

\* What is owed to the device is history that no action and, in a run with
\* this view, no property looks at.
AllButOwed ==
  <<mem, crc, disk, diskCrc, magic, flag, queue, gap, sts, lock, pc, todo,
    ioc, iold, bio, bold, phase, ver, spoilt, crashes>>

============================================================================
