SPECIFICATION Spec
CONSTANTS
    gate = gate
    net = net
    game = game
    l1 = l1
    l2 = l2
    l3 = l3
    l4 = l4
    s1 = s1
    s2 = s2
    s3 = s3
    s4 = s4
    None = None
    Nodes <- Two
    Remotes <- TwoRemotes
    Links = {l1, l2}
    Slots = {s1, s2, s3}
    MaxStarts = 3
    MaxCrashes = 1
    MaxDrops = 0
    MaxMasterCrashes = 0
    Calm = FALSE
INVARIANTS
    RegistryAccurate
