CONSTANTS
    Handles = {h1, h2, h3}
    None = None
    MaxAttempt = 2
SPECIFICATION FairSpec
INVARIANTS
    ConnectedIsWatched
    OneSocket
    StoppedIsQuiet
    NeverStranded
    LevelIsLive
    SubscriptionFollowsChoice
PROPERTIES
    ConnectsAgain
