\* Two handlers.  boot_count reaches the bound of the automatic rollback
\* (MAX_BOOT_COUNT + 1).
SPECIFICATION SerialSpec
CONSTANTS
  Handler = {h1, h2}
  Image = {i1}
  NoImage = NoImage
  Absent = Absent
  BootBound = 4
  Operation <- MCAll
INVARIANTS TypeOK OneActive
PROPERTIES AtomicWhenSerial SerialLeavesActive
