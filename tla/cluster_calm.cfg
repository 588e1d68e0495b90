SPECIFICATION FairSpec
CONSTANTS
    gate = gate
    net = net
    game = game
    l1 = l1
    l2 = l2
    l3 = l3
    l4 = l4
    s1 = s1
    s2 = s2
    s3 = s3
    s4 = s4
    None = None
    Nodes <- Three
    Remotes <- ThreeRemotes
    Links = {l1, l2, l3, l4}
    Slots = {s1, s2}
    MaxStarts = 5
    MaxCrashes = 2
    MaxDrops = 0
    MaxMasterCrashes = 0
    Calm = TRUE
INVARIANTS
    Discovered
    OneLiveLink
PROPERTIES
    LinksUp
