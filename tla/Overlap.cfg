SPECIFICATION OverlapSpec
CONSTANTS
    game = game
    hands = hands
    track = track
    sound = sound
    loop = loop
    camera = camera
    pose = pose
    Calls = {c1, c2}
    Experiences = {hands, track}
    Bindings = {own}
    Drivers = {camera, pose}
    Required <- MCRequired
    Exclusive <- MCExclusive
    Allowed <- MCAllowed
    Needs <- MCNeeds
    MaxLeases = 1
INVARIANTS NothingHalfDone AppStateIsTrue
PROPERTIES EveryCallReturns
CHECK_DEADLOCK FALSE
