SPECIFICATION FairSpec
CONSTANTS
  p = p
  q = q
  b1 = b1
  b2 = b2
  b3 = b3
  bad = bad
  big = big
  w1 = w1
  w2 = w2
  Worker = {w1}
  Path = {p, q}
  Journal <- SmallJournal
  First <- SmallFirst
  Last <- SmallLast
  Package = {b1, b2, bad, big}
  Malformed = {bad}
  Oversize = {big}
  Replacing = {b2, bad}
  MaxCrashes = 1
  MaxErrors = 2
  Serial = TRUE
  OrderedRelay = TRUE
  PublishSyncMayFail = FALSE
  ReceiptReadMayFail = FALSE
PROPERTY AllAcknowledged
CHECK_DEADLOCK FALSE
