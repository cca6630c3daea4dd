\* Two ids of three stay in use, pages of one record; the operations are bounded (see MemoryMC).
CONSTANTS
  Contents <- FourContents
  Identity <- IdentityOf
  Bytes <- LengthOf
  MaxRecords = 2
  MaxBytes = 3
  Probation = 1
  MaxInt = 4
  Calls = {p, q}
  Nobody = Nobody
  Times = {0, 1}
  Older <- OldTables
  MaxWork = 3
  PageSize = 1
  PushAttempts = 2
  Attempts = 2
SYMMETRY TwoCalls
CONSTRAINT Small
SPECIFICATION TransferSpec
INVARIANTS
  KeysKeepTheirMeaning
  ReadProtects
  PushedTheCorpus
  RemoteIdsStayRetired
CHECK_DEADLOCK FALSE
