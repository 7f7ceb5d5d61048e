\* An administrator and a member; each sends one join or leave at a time.
SPECIFICATION BoardSpec
CONSTANTS
    admin = admin
    member = member
    image = image
    grid = grid
    Browsers = {admin, member}
    Admins = {admin}
    Strokes <- OneStroke
    Images = {}
    Grid = grid
    MaxElements = 1
    MaxBytes = 1
    RateLimits = FALSE
    MaxSent = 1
    MaxInbox = 1
    MaxSessions = 1
INVARIANTS
    PresenceFollows
    BoardOfConnected
PROPERTY
    TabJoins
