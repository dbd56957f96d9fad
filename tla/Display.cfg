SPECIFICATION FairSpec
CONSTANTS
    MaxJobs = 2
    Verdicts = {"OK", "NG"}
    Untraced = {"OK"}
    LineLimit = 1
    MaxTriggers = 1
    MaxRestarts = 1
INVARIANTS TypeOK CountedOnce ShownWasPublished ImagesOwn
PROPERTIES AlarmsOnce TriggerEndsForAReason
PROPERTIES EventRecorded TriggerEnds
