---------------------------- MODULE MCSmrZones ----------------------------
(* Small instances of SmrZones, and of SmrQuery over it, for TLC.          *)
EXTENDS SmrQuery

\* What smrsim_util sends: a type or a condition, the pointer at 0.
MCModifyArgs ==
  {[z_type |-> t, z_conds |-> c, z_write_ptr_offset |-> 0] :
     t \in {"CONV", "SEQ"}, c \in {"NO_WP", "EMPTY", "FULL", "OFFLINE", "RO"}}
    \ {[z_type |-> "CONV", z_conds |-> c, z_write_ptr_offset |-> 0] :
         c \in {"EMPTY", "FULL", "RO"}}

\* Restart a zone as sequential.
MCRestart == {[z_type |-> "SEQ", z_conds |-> "EMPTY", z_write_ptr_offset |-> 0]}

\* Restart a zone as sequential, or retype it.
MCRetype ==
  {[z_type |-> "CONV", z_conds |-> "NO_WP", z_write_ptr_offset |-> 0],
   [z_type |-> "SEQ", z_conds |-> "EMPTY", z_write_ptr_offset |-> 0]}

\* No property looks at what the step before the last was: states that
\* differ in it only are one.
AllButOp ==
  <<num_zones, zone_size, zone_status, rflag, wflag, wp_reset_flag,
    wp_adjust_flag, ioctl, written, tainted>>

\* The read flag decides only whether a read is mapped, which is op: a run
\* whose properties leave op alone may leave it out as well.
AllButOpAndReadFlag ==
  <<num_zones, zone_size, zone_status, wflag, wp_reset_flag,
    wp_adjust_flag, ioctl, written, tainted>>

===========================================================================
