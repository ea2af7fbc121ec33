\* One good commit and nobody about; the run that deploys it may die, and
\* `docker compose up` always works.  Once HEAD is the newest commit there is
\* nothing left to do, so the system may stop.
CONSTANTS
    Last = 1
    Broken <- Nothing
    SetupOf <- NoChange
    Marked <- Nothing
    Outside <- Nothing
    Keep = 2
    MaxBackups = 1
SPECIFICATION FairSpec
PROPERTY StoppedAreRestarted
CHECK_DEADLOCK FALSE
