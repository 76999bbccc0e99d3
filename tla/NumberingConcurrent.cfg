\* Creates, copies and updates of type and date.
SPECIFICATION Spec
CONSTANTS
  Workers = {w1, w2}
  Docs = {d1, d2, d3}
  Types = {t1, t2}
  Dates = {a1, a2}
  NoDoc = NoDoc
SYMMETRY Interchangeable
INVARIANTS
  NumberingInv
  Gapless
