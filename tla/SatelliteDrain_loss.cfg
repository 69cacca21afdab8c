SPECIFICATION Spec
CONSTANTS
    NTransmissions = 3
    Beacons = {}
    Cap = 1
    Polls = 2
INVARIANT LossFailsPass
