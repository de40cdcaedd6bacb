SPECIFICATION Spec
CONSTANTS
  c1 = c1
  c2 = c2
  c3 = c3
  h1 = h1
  h2 = h2
  o1 = o1
  o2 = o2
  NoFile = NoFile
  Compilers = {c1, c2, c3}
  Hashes = {h1, h2}
  Outputs = {o1, o2}
  Modes = {"hardlink"}
SYMMETRY Sym
INVARIANT EntriesGood
CHECK_DEADLOCK FALSE
