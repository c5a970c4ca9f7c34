\* A file download and a directory download that compete for two names, with
\* other programs on the same disk.  The downloads end for good.
SPECIFICATION DownloadSpec
CHECK_DEADLOCK FALSE
CONSTANTS
  FileJobs = {f1}
  DirJobs = {d1}
  LastIndex = 1
INVARIANTS
  DownloadConsistent
  NeverOverwrites
  PublishedWhole
PROPERTIES
  UnlistedFilesKept
