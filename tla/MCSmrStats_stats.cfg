\* Two processes with bios, one conventional and two sequential zones.
CONSTANTS
  Bios = {b1, b2}
  NumZones = 3
  SeqZones = {1, 2}
  Research = TRUE
  MaxEvents = 2
SYMMETRY BioSymmetry
SPECIFICATION Spec
INVARIANTS TypeOK CountsHold SnapshotHolds LastErrorKept
PROPERTY ToldInOrder
CHECK_DEADLOCK FALSE
