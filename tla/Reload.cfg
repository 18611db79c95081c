SPECIFICATION ReloadSpec
CONSTANTS
  a = a
  b = b
  p = p
  q = q
  x = x
  y = y
  backup = backup
  register = register
  Dbs = {a, b}
  Paths = {p, q}
  Addrs = {x, y}
  Dirs = {1, 2}
  Instance = Instance
  Jobs = {backup, register}
  Key <- MCKey
  Backups = {backup}
  NoPath = NoPath
  NoDb = NoDb
  NoDsn = NoDsn
  Broken = Broken
  Files <- MCFiles
  First <- MCFirst
  FileWatcher = FileWatcher
  Client = Client
  Nobody = Nobody
  MaxEdits = 1
INVARIANT JobKeepsItsConfig
INVARIANT StateFollowsConfig
PROPERTY Settles
PROPERTY DrainLifted
