SPECIFICATION Spec
CONSTANTS
    MaxEpisodes = 1
    CEILING = 2
PROPERTIES StandbyReturns
CHECK_DEADLOCK FALSE
