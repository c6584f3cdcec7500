SPECIFICATION Spec
CONSTANTS
  t1 = t1  t2 = t2  h1 = h1  h2 = h2
  s1 = s1  s2 = s2
  Texts = {t1, t2}
  Policies = {h1, h2}
  Compiled <- MCCompiled
  DefaultText = t1
  Nothing = Nothing
  Tours <- MCTours
  Slots = {s1, s2}
  MaxRevision = 2
  MaxReceipts = 2
  MaxTasks = 1
SYMMETRY SlotSymmetry
CHECK_DEADLOCK FALSE
INVARIANTS TypeOK DemoIsReadOnly StoredAsCompiled ReadsItsWrites VerdictIsOfTheCard
