SPECIFICATION FairSpec
CONSTANTS
    e1 = e1
    shop = shop
    n1 = n1
    g1 = g1
    g2 = g2
    main = main
    NoGraph = NoGraph
    NoParent = NoParent
    NoSpec = NoSpec
    Envs = {e1}
    Projects = {shop}
    Namespaces = {n1}
    NamespaceOf <- OneNamespace
    Docs = {1, 2}
    Graphs = {NoGraph, g1}
    Parents = {NoParent, main}
    Specs <- Mixed
    MaxGen = 2
    MaxDeletes = 1
    MaxPuts = 1
    MaxFaults = 1
CHECK_DEADLOCK FALSE
INVARIANTS TypeOK NothingForgotten
PROPERTIES Isolated FinalizerLast Converges TornDown
