\* The instances are given in MCOperations, next to each INSTANCE.
SPECIFICATION Spec
CONSTANTS
    Unset = Unset
PROPERTIES
    UnknownIsReported
    WindowsEnd
    QueueIsServed
CHECK_DEADLOCK FALSE
