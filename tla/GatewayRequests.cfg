SPECIFICATION Spec
CONSTANTS
  c1 = c1  c2 = c2  t = t  s = s  n = n  pa = pa  pb = pb
  None = None
  Caller = {c1, c2}
  Email = {t, s, n}
  Password = {pa, pb}
  Key = {k1}
  SeedAccount <- KnownPair
  SeedSession <- LoggedIn
  Menu <- Menus
  ArgsOf <- FewArgs
  Handler = {h1, h2, h3}
  MaxRequests = 3
  MaxFaults = 2
INVARIANTS RefusedUndone CarriedOutOnce PasswordInTurn RowBackedInTurn OrphansExplained
