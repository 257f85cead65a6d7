SPECIFICATION Spec
CONSTANTS
  p = p
  q = q
  b1 = b1
  b2 = b2
  b3 = b3
  bad = bad
  big = big
  w1 = w1
  w2 = w2
  Worker = {w1, w2}
  Path = {p, q}
  Journal <- SmallJournal
  First <- SmallFirst
  Last <- SmallLast
  Package = {b1, b2}
  Malformed = {}
  Oversize = {}
  Replacing = {b1, b2}
  MaxCrashes = 0
  MaxErrors = 1
  Serial = FALSE
  OrderedRelay = TRUE
  PublishSyncMayFail = FALSE
  ReceiptReadMayFail = FALSE
INVARIANT ReceiptCovers
CHECK_DEADLOCK FALSE
