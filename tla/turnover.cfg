\* Two rooms, a stay that may move, two tasks, two housekeepers, two scans.
CONSTANTS
  Rooms = {r1, r2}
  Stays = {g1}
  Tasks = {t1, t2}
  Keepers = {k1, k2}
  Scanners = {w1, w2}
  NoTask = NoTask
  NoStay = NoStay
SPECIFICATION Spec
INVARIANTS TypeOK DirtyRoomHasWork NoTwinTasks
CONSTRAINT MCBound
SYMMETRY MCSymmetry
CHECK_DEADLOCK FALSE
