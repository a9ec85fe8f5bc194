SPECIFICATION AppSpec
PROPERTIES
    SignalEnds

\* The process ends.
CHECK_DEADLOCK FALSE
