SPECIFICATION Spec
CONSTANTS
  Deployments = {d1, d2}
  Checked = {d1, d2}
  Overlap = FALSE
  Patches = {p1, p2}
  PatchOf <- MCPatchOf
  Files <- MCFiles
  Contents <- MCContents
  InstalledFiles <- MCInstalled
  AppFile = exe
  d1 = d1
  d2 = d2
  d3 = d3
  p1 = p1
  p2 = p2
  exe = exe
  lib = lib
  new = new
  Absent = Absent
  Base = Base
  Corrupt = Corrupt
  NoBackup = NoBackup
  None = None
  MaxBackupsToKeep = 1
INVARIANT ReportedRollbackRestored
