\* Two Macs that edit one file, whose saves can be told apart by length and second only.
CONSTANTS
  Macs = {a, b}
  Nobody = nobody
  Bases = {"weak"}
  MaxEpoch = 3
  MaxSaves = 2
  MaxEvents = 1
SPECIFICATION Spec
INVARIANTS TypeOK Coherent Fenced
PROPERTY ForeignWorkKept
SYMMETRY MCSymmetry
