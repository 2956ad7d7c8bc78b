SPECIFICATION Spec
CONSTANTS
  Name = {n, m}
  Password = {p}
  Table = {t}
  Device = {d, e}
  Request = {r1, r2}
  None = None
  MaxAccounts = 3
SYMMETRY Symmetry
INVARIANTS
  NoOrphans
  OneAccountPerName
  AccountsNotConfused
  RevokedTokensRefused
