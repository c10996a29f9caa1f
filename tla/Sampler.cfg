SPECIFICATION FairSpec
CONSTANTS
  Parts = {"loop", "list", "gpu", "net", "devices", "cgroups", "cgroup list"}
  Interval = 1
  Samples = {2, 99}
  Forever = 99
  MaxCnt = 2
  MaxSignals = 2
  MaxWipes = 1
  Procs = {1, 2, 3}
  MaxThreads = 2
  MaxEvents = 3
  Pids = {1, 2, 3}
  Gpus = {1, 2, 3}
  MaxEntries = 3
  MaxRecords = 4
  MaxFiles = 2
  Tables = {"intf", "dsk", "nfs", "cpu", "flow"}
  Names = {1, 2, 3}
  Types = {"v", "e"}
  Cpus = {0, 1, 2}
  Node = {1}
  Sections = {"load", "sock", "nummem", "frag", "mem", "balloon", "zfs", "vm", "snmp",
              "snmp6", "nfsd", "nfs", "psi", "llc", "freq", "low", "huge", "ib", "ksm"}
  MaxValue = 2
  MaxFlow = 3
  MaxResets = 1
  MAXENT = 3
  DevInterval = 2
  MaxCount = 2
  MaxChanges = 2
  MaxSamples = 3
  Letters = {1, 2, 3}
  MaxLevels = 2
  CgPids = {1, 2}
  MaxCgEvents = 2
  MaxWalks = 2
  MaxCgroups = 5
  SortVals = {0, 1}
INVARIANTS
  OwnInterval
  OneMore
  Complete
  GpuGiven
  NetOnce
  DevicesRight
  FlowRight
  OwnCounters
  BelowAddsUp
  ListRight
PROPERTIES
  Served
  CpuContinues
CHECK_DEADLOCK FALSE
