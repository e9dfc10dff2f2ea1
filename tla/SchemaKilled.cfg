SPECIFICATION Spec
CONSTANTS
    Starts <- MCBeforeDaily
    Floor = 4
    MaxKills = 1
    MaxDowns = 0
    Spared = {}
PROPERTIES
    StartsReachHead
CHECK_DEADLOCK FALSE
