\* One browser is enough for a leave that overtakes its join.
SPECIFICATION BoardSpec
CONSTANTS
    admin = admin
    member = member
    image = image
    grid = grid
    Browsers = {admin}
    Admins = {admin}
    Strokes <- OneStroke
    Images = {}
    Grid = grid
    MaxElements = 1
    MaxBytes = 1
    RateLimits = FALSE
    MaxSent = 1
    MaxInbox = 1
    MaxSessions = 1
INVARIANT
    NoGhost
