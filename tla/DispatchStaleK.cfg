SPECIFICATION Spec
CONSTANTS
  s1 = s1
  s2 = s2
  t1 = t1
  t2 = t2
  t3 = t3
  Files = {f1}
  Monitors = {m1}
  Servers = {s1}
  Threads = {t1}
  ServerOf <- TwoOfS1
  Sgl <- OneServer
  find_act = "keep"
  finish_act = "delete"
  max_upload_num = 0
  retry_count = 0
  IoErrors = FALSE
  Nodes = {n1, n2}
  Copies = {c1, c2}
  MaxWrites = 2
  MaxStarts = 1
  NoFile = NoFile
  NoMonitor = NoMonitor
  NoNode = NoNode
  NoCopy = NoCopy
  NoServer = NoServer
CHECK_DEADLOCK FALSE
SYMMETRY HeapSymmetry
INVARIANTS FinishAllMeansUploaded
