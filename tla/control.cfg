SPECIFICATION FairSpec
CONSTANTS
  None = None
  MaxTypes = 4
  MaxFunctions = 2
  MaxGlobals = 1
  MaxPages = 2
  MaxSegments = 1
  Conns = {c1, c2}
  Tenants = {"a", "b"}
  Grants = {"g1", "g2", "gb"}
  WorkerIds = {"w1", "w2"}
  Credentials <- MCCredentials
  Modules <- MCModules
  Uploads <- MCUploads
  Files <- MCFiles
  Configs <- MCConfigs
  Config <- MCConfig
  Migrations <- MCMigrations
  Histories <- MCHistories
  Database <- MCDatabase
INVARIANTS ModuleVerdict ConfigSuitsStore
PROPERTIES Isolation ShutdownEnds
VIEW UnreadAnswers
