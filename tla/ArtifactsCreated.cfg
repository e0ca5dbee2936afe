SPECIFICATION Spec
CONSTANTS
    Tasks = {t1}
    MaxRetries = 3
    MaxFaults = 0
PROPERTIES
    ArtifactsCreated
CHECK_DEADLOCK FALSE
