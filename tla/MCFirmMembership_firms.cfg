SPECIFICATION MembersSpec
CONSTANTS
  Firms = {f1, f2}
  Users = {u1, u2}
  Slots = {s1, s2}
  Ops <- Every
SYMMETRY Interchangeable
INVARIANTS AlwaysOwned CacheTrue DeadFirmsEmpty
PROPERTIES OwnershipGranted KeepsAFirm
