SPECIFICATION Spec
\* The sequence ends once, configured or failed.
CHECK_DEADLOCK FALSE
INVARIANTS TypeOK NoWildWrite ConfigComplete MisreadIsCaught
