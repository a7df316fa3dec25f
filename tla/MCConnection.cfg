SPECIFICATION MCSpec
CONSTANTS
    there = there
    elsewhere = elsewhere
    Unset = Unset
    Required <- MCRequired
    Names <- MCNames
    MaxTimeout = 1
    Dsns <- MCDsns
INVARIANTS
    ConnectedIsUsable
    ManagedHandleIsSound
PROPERTIES
    OnlyReleaseEndsConnection
