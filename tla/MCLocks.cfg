CONSTANTS
  h1 = h1
  h2 = h2
  t1 = t1
  t2 = t2
  i1 = i1
  None = None
  EFAULT = EFAULT
  BootHart = h1
  Bits <- MCBits
  Calls <- MCCalls
  Harts = {h1, h2}
  Contexts = {t1, t2, i1}
  Irqs = {i1}
  HartOf <- MCHartOf
  Cpus = {c1, c2, c3}
  Wrap = 4
SPECIFICATION MCSpec
INVARIANTS
  WordCountsHolders
  HandOver
PROPERTIES
  AbstractSpec
  
  Progress
