CONSTANT MaxRegions = 7
SPECIFICATION Spec
\* A load of the driver ends once, refused or stopped.
CHECK_DEADLOCK FALSE
INVARIANTS TypeOK RingsNeverDangle RingsAreCurrent HandlesCurrent
           ConfiguredBeforeCpu OnlineMeansStages StoppedIsQuiet
PROPERTIES IndicesAgree ProbeAfterAnnounce
