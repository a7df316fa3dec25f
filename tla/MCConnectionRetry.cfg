SPECIFICATION ManagedSpec
CONSTANTS
    there = there
    elsewhere = elsewhere
    Unset = Unset
    Required <- MCRequired
    Names <- MCNames
    MaxTimeout = 1
    Dsns <- MCDsns
INVARIANT
    AlreadyConnectedMeansOpen
