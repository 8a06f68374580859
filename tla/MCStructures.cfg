SPECIFICATION Spec
CONSTANTS
  BASE = 2
  MaxText = 4
  EMBSTR_MAX = 2
  Item = {1, 2, 3}
  BigItem = {3}
  Member = {1, 2, 3, 4}
  BigMember = {4}
  Field = {1, 2, 3}
  BigField = {3}
  ZMember = {1, 2, 3}
  Text = {2, 3, 99}
  NotNumber = 99
  BoundAt = {5}
  Flags = {{}, {"NX"}, {"XX"}, {"GT"}, {"LT", "CH"}, {"CH"}}
  MAX_LISTPACK_ENTRIES = 2
  MAX_HASH_ENTRIES = 2
  MAX_INTSET_ENTRIES = 2
  HALF = 5
  I64_MAX = 3
  MAX_CAPACITY = 2
  MaxLen = 3
VIEW View
INVARIANTS TypeOK IndexesAgree CompactIsSmall
PROPERTIES LogReplays Refines
