SPECIFICATION Spec
CONSTANTS
    MaxRelease = 3
    NativeSteps <- MCNativeSteps
    MaxBackups = 3
    MaxFaults = 2
CHECK_DEADLOCK FALSE
INVARIANTS ReportedReleaseRuns ReadyIsMigrated RollbackLosesNoMore NativeProgress
PROPERTY ImplementsRecord
