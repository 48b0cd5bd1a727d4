SPECIFICATION CrashSpec
CONSTANTS
  NBLOCKS = 9
  NDIRECT = 1
  DBPERIDB = 2
  DIRPERBLOCK = 4
  BLOCKUNITS = 2
  Names <- MCNames
  Writes <- MCWrites
  Lengths <- MCLengths
  Volumes <- MCVolumes
  Working <- MCWorking
  MaxOpen = 1
  MaxCalls = 3
  MaxTroubles = 2
  BLOCKSIZE = 2
  DATA_MAXSIZE = 4
  NUMFILES = 4
  NUMLINKS = 2
  NUMTHINGS = 2
  NUMOPS = 2
  Sizeblocks <- MCSizes
  Workloads <- MCWorkloads
  WorkloadSizes = {"small", "medium"}
  RandPositions = {0, 3}
  RandLengths = {2}
  Damage <- MCDamage
  DamagedNames = 4
INVARIANTS  Durable FsckRepairs
  CheckerFollowsWorkload SilenceMeansVersion
CHECK_DEADLOCK FALSE
