\* Two users open, call and close the device while the module is loaded, fails
\* to load, and is removed, any number of times.  It may get stuck for good.
CONSTANTS
  Users = {u1, u2}
SPECIFICATION Spec
INVARIANTS TypeOK RestsWholeOrGone MemoryOutlivesUsers UsersFailInTheGapsOnly
SYMMETRY UserSymmetry
CHECK_DEADLOCK FALSE
