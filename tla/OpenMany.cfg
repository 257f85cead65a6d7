SPECIFICATION FairSpec
CONSTANTS
  None = None
  c1 = c1
  c2 = c2
  p1 = p1
  p2 = p2
  i1 = i1
  i2 = i2
  i3 = i3
  h1 = h1
  h2 = h2
  h3 = h3
  Conn = {c1, c2}
  Posix = {c2}
  Path = {p1, p2}
  Inode = {i1}
  Handle = {h1, h2}
  Disposition = {"openIf"}
  SharedRename = TRUE
INVARIANT TypeOK
INVARIANT PendingHasOpen
PROPERTY MarkedFilesGo
