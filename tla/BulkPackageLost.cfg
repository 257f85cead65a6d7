SPECIFICATION Spec
CONSTANTS
  p = p
  q = q
  b1 = b1
  b2 = b2
  b3 = b3
  bad = bad
  big = big
  w1 = w1
  w2 = w2
  Worker = {w1}
  Path = {p, q}
  Journal <- MCJournal
  First <- MCFirst
  Last <- MCLast
  Package = {b1, b2}
  Malformed = {}
  Oversize = {}
  Replacing = {b1, b2}
  MaxCrashes = 1
  MaxErrors = 0
  Serial = TRUE
  OrderedRelay = TRUE
  PublishSyncMayFail = FALSE
  ReceiptReadMayFail = FALSE
INVARIANT PackageOrReceipt
CHECK_DEADLOCK FALSE
