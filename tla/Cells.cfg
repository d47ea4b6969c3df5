SPECIFICATION FairSpec
CONSTANTS
  VMs = {v1, v2, v3}
  Cells = {c1, c2}
  NoVM = NoVM
  NoCell = NoCell
  Blank = Blank
  MaxRows = 2
  MaxCode = 1
  MaxQueue = 2
INVARIANTS RowShowsOwnCode LiveRowCurrent
PROPERTIES TrapOnlyBeforeReload RowFreezesOnlyByReuse LabelsArrive
