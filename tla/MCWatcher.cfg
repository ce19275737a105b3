SPECIFICATION Spec
CONSTANTS
  whole = whole
  flat = flat
  member = member
  malformed = malformed
  top = top
  lib = lib
  deep = deep
  Files = {top, lib, deep}
  Layouts = {whole, flat, member}
  Malformed = malformed
  PackageFiles <- MCPackageFiles
  RootFile <- MCRootFile
  ThreadBound = 3
  FaultBound = 1
  WatchFailures = 2
  Roots <- MCRoots
  Directory <- MCDirectory
  Inside <- MCInside
  MaxText = 2
  EditBound = 2
INVARIANTS
  OneLiveHost
  RollbackRestores
  CoveredThroughout
  ChangeIsPending
PROPERTY
  CatchesUp
CHECK_DEADLOCK FALSE
