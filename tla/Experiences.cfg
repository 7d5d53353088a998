SPECIFICATION ClientsSpec
CONSTANTS
    game = game
    hands = hands
    track = track
    sound = sound
    loop = loop
    camera = camera
    pose = pose
    Calls = {c1}
    Experiences = {game, hands, track, sound, loop}
    Bindings = {own, other}
    Drivers = {camera, pose}
    Required <- MCRequired
    Exclusive <- MCExclusive
    Allowed <- MCAllowed
    Needs <- MCNeeds
    MaxLeases = 1
INVARIANTS TypeOK LeasesMatch
PROPERTIES StartsAreWhole
CHECK_DEADLOCK FALSE
