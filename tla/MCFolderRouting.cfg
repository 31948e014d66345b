\* Two tasks of two owners, folders of up to two files, two faults.
SPECIFICATION Spec
CONSTANTS
  t1 = t1  t2 = t2
  Tasks = {t1, t2}
  Names <- MCNames
  Lower <- MCLower
  Unnumbered <- MCUnnumbered
  Ext <- MCExt
  Script <- MCScript
  Regarded <- MCRegarded
  Segment <- MCSegment
  WordsIn <- MCWordsIn
  Ratio <- MCRatio
  Workspaces <- MCWorkspaces
  OwnerTenant <- MCOwnerTenant
  TargetTenant <- MCTargetTenant
  TargetKey <- MCTargetKey
  AllowDevHeaders = TRUE
  DefaultActor <- Hq
  Creator <- MCCreator
  Profiles <- MCProfiles
  Folders <- MCFolders
  MaxFileCount = 2
  Requests <- MCRequests
  MaxRoutingFaults = 2
INVARIANTS NoFileDropped ReadersSeeTheirOwn ShownBytesAreOwn FailuresExplained
CHECK_DEADLOCK FALSE
