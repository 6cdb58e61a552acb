SPECIFICATION OutputSpec
CONSTANTS
  Processes = {p1, p2, p3}
  Chunks = 2
  Inodes = {i1, i2, i3}
  NoInode = NoInode
SYMMETRY MCSymmetry
INVARIANTS
  InstalledIsWhole
  TemporaryHasOwner
