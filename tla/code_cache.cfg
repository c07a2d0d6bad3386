SPECIFICATION FairSpec
CONSTANTS
  a = a
  w1 = w1
  w2 = w2
  w3 = w3
  Warmups = {w1, w2}
  Codes = {a}
  CodeOf <- SameCode
  NoOne = NoOne
  MaxErrors = 2
  MaxRestarts = 2
 
INVARIANT NoOrphan
PROPERTY PrepareEnds
