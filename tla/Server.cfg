SPECIFICATION FairSpec
CONSTANTS
    s1 = s1
    s2 = s2
    ipc = ipc
    Pipes = {ipc}
    c1 = c1
    c2 = c2
    NoConn = NoConn
    Share = {s1, s2, ipc}
    Conn = {c1, c2}
    Served = c1
    MaxChain = 3
    MaxTrees = 4
    Scripts <- MCScripts
    Hosts <- MCHosts
    Cases <- MCCases
CHECK_DEADLOCK FALSE
INVARIANTS TypeOK ChainsSentWhole AnsweredOnce HandleLeftOpen TreesAgree RepliesInOrder ShutdownMissesOne
PROPERTIES ServingEnds PacketsAnswered
