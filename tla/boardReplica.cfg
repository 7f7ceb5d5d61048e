\* One administrator, every kind of edit, refused requests, restarts.
SPECIFICATION BoardSpec
CONSTANTS
    admin = admin
    member = member
    image = image
    grid = grid
    Browsers = {admin}
    Admins = {admin}
    Strokes <- ThreeStrokes
    Images = {image}
    Grid = grid
    MaxElements = 2
    MaxBytes = 3
    RateLimits = TRUE
    MaxSent = 2
    MaxInbox = 2
    MaxSessions = 2
INVARIANTS
    BoardTypeOK
    BoardBounded
    ReplicaFollows
