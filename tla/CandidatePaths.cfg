\* What the controller commits against "only leased paths changed": one
\* edit, one write of a process left behind and one failing git command.
SPECIFICATION Spec
CONSTANTS
  MaxFiles = 2
  MaxEdits = 1
  MaxStrays = 1
  MaxFaults = 1
INVARIANT OnlyLeasedPathsChanged
