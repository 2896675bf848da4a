SPECIFICATION FairSpec
CONSTANTS
    e1 = e1
    shop = shop
    n1 = n1
    g1 = g1
    g2 = g2
    main = main
    NoGraph = NoGraph
    NoParent = NoParent
    NoSpec = NoSpec
    Envs = {e1}
    Projects = {shop}
    Namespaces = {n1}
    NamespaceOf <- OneNamespace
    Docs = {1}
    Graphs = {NoGraph, g1, g2}
    Parents = {NoParent, main}
    Specs <- Preview
    MaxGen = 1
    MaxDeletes = 1
    MaxPuts = 0
    MaxFaults = 0
CHECK_DEADLOCK FALSE
PROPERTY ArtifactsCollected
