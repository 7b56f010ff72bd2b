SPECIFICATION Spec
CONSTANTS
  s1 = s1
  s2 = s2
  t1 = t1
  t2 = t2
  t3 = t3
  Files = {f1}
  Monitors = {m1}
  Servers = {s1, s2}
  Threads = {t1, t3}
  ServerOf <- TwoOfS1
  Sgl <- TwoGroups
  find_act = "keep"
  finish_act = "delete"
  max_upload_num = 1
  retry_count = 1
  IoErrors = TRUE
  Nodes = {n1, n2}
  Copies = {c1, c2}
  MaxWrites = 1
  MaxStarts = 1
  NoFile = NoFile
  NoMonitor = NoMonitor
  NoNode = NoNode
  NoCopy = NoCopy
  NoServer = NoServer
CHECK_DEADLOCK FALSE
SYMMETRY HeapSymmetry
INVARIANTS MemoryInv RetainExact NoDanglingCopy NothingLeaked OneCopyPerGroup
