\* The same without faults, and with saves that record an exact base.
CONSTANTS
  Macs = {a, b}
  Nobody = nobody
  Bases = {"present", "weak"}
  MaxEpoch = 3
  MaxSaves = 2
  MaxEvents = 0
SPECIFICATION Spec
PROPERTY BoundaryRemembered
SYMMETRY MCSymmetry
