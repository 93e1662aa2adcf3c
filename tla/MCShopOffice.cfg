SPECIFICATION OfficeSpec
CONSTANTS
  Main = Main
  Nasr = Nasr
  Giza = Giza
  Branches = {Main, Nasr, Giza}
  Opening = 2
  MaxStock = 3
  Owner = Owner
  Clerk = Clerk
  None = None
  Users = {Owner, Clerk}
  MaxAttempts = 2
  LoginSteps <- Steps
  CodeLock = 1
  RecoveryLock = 1
  ChallengeTTL = 1
  Forgetful = {Clerk}
  SheetSize = 1
  MaxClock = 2
  MaxIssued = 3
  Releases = {1, 2}
  Severity <- Severities
  low = low
  unpaid = unpaid
  Alerts = {low, unpaid}
  Calm = Calm
  old = old
  new = new
  Passphrases = {old, new}
  Unset = Unset
  MaxRevision = 3
  legacy = legacy
  Founding = {Main, legacy}
  c1 = c1
  c2 = c2
  c3 = c3
  Codes = {c1, c2, c3}
  far = far
  Strangers = {far}
  NoBranch = NoBranch
  first = first
  second = second
  Counts = {first, second}
  Uncounted = Uncounted
  MaxOnShelf = 3
  MaxLost = 2
  Cashiers = {Owner, Clerk}
  Owners = {Owner}
  SignedOut = SignedOut
  s1 = s1
  Sales = {s1}
  s2 = s2
  Slips = {s1, s2}
  PiecesPerUnit = 2
  MainUnits = 1
  SideUnits = 1
  MaxWhole = 1
  MaxPieces = 3
  MaxCorrection = 1
  Floats = {1}
  MaxShifts = 2
  MaxEntries = 2
SYMMETRY OtherBranches
INVARIANTS
  OfficeTypeOK
  NeverMoreThanBooked
  BranchExplained
  OneGrantPerCode
  LockoutStands
  SkippedStaysAway
  GateOnlyAfterVerified
  PortalMatchesRecord
  PhoneNeverAhead
  ArchiveOpens
  PaidBranchesStand
  CountAdopted
  ExpectedIsInDrawer
  PiecesExplained
  SideKeepsItsPieces
CHECK_DEADLOCK FALSE
