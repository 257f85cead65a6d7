SPECIFICATION Spec
CONSTANTS
  None = None
  c1 = c1
  c2 = c2
  p1 = p1
  p2 = p2
  i1 = i1
  i2 = i2
  i3 = i3
  h1 = h1
  h2 = h2
  h3 = h3
  Conn = {c1}
  Posix = {}
  Path = {p1, p2}
  Inode = {i1, i2, i3}
  Handle = {h1, h2, h3}
  Disposition = {"open", "openIf", "create", "overwrite"}
  SharedRename = FALSE
SYMMETRY Symmetric
INVARIANT RightFileUnlinked
INVARIANT OpenFileIsNamed
