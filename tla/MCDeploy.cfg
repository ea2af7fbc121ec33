\* Every way through update.sh, with runs that die and an operator who deploys
\* by hand between and during them, over four new commits.
CONSTANTS
    Last = 4
    Broken <- MCBroken
    SetupOf <- MCSetupOf
    Marked <- MCMarked
    Outside <- Everything
    Keep = 2
    MaxBackups = 4
SPECIFICATION Spec
INVARIANTS TypeOK RestorePoint SetupIsByHand ConfigMatches SettledRunsHead FailedStaysOff
