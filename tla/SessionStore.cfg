\* Two chats, two keys that share a file, four messages.
SPECIFICATION Spec
CONSTANTS
  Chats = {c1, c2}
  Names = {n1}
  KeepLasts = {0, 2}
  MaxSaid = 4
SYMMETRY ChatSymmetry
INVARIANTS TypeOK KeysKeepApart SavedHistoryKept
CHECK_DEADLOCK FALSE
