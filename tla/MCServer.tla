------------------------------ MODULE MCServer ----------------------------
(* Server for TLC: chains of up to MaxChain requests after a TREE_CONNECT   *)
(* with a client that stays, sequences of tree operations, conversations    *)
(* and chains on the pipe, packets of related requests only, and a few      *)
(* packets in every surrounding with two connections.                       *)
EXTENDS Server, SequencesExt

CONSTANTS MaxChain, MaxTrees, s1, s2, ipc, c1, c2

R(op, ok, tree, file, share) ==
    [id |-> 0, op |-> op, related |-> FALSE, ok |-> ok, tree |-> tree, file |-> file, share |-> share]
OnTree1 ==
    {R(op, TRUE, 1, 0, s1) : op \in {"create", "use", "close", "notify", "silent"}}
        \cup {R(op, FALSE, 1, 0, s1) : op \in {"create", "use"}}
InChain == OnTree1 \cup {R("echo", TRUE, 0, 0, s1), R("cancel", TRUE, 0, 0, s1)}
Connect == R("connect", TRUE, 0, 0, s1)

Relate(p) == [j \in DOMAIN p |-> [p[j] EXCEPT !.related = j > 1]]
Chains == UNION {[1 .. n -> InChain] : n \in 2 .. MaxChain}
Unrelated == [1 .. 2 -> InChain]

ChainScripts == {<< <<Connect>>, Relate(p)>> : p \in Chains} \cup {<< <<Connect>>, p>> : p \in Unrelated}

(* A packet that nothing leads, and one behind it. *)
UnledRequests == {[r EXCEPT !.related = TRUE] :
    r \in {R("create", TRUE, 1, 0, s1), R("use", FALSE, 1, 0, s1), R("echo", TRUE, 0, 0, s1)}}
UnledScripts ==
    {<< <<Connect>>, p, <<R("echo", TRUE, 0, 0, s1)>> >> : p \in UNION {[1 .. n -> UnledRequests] : n \in 1 .. 2}}

(* A file created in one packet and used and closed in others. *)
FileScripts ==
    {<< <<Connect>>, <<R("create", TRUE, 1, 0, s1)>>, <<R(a, TRUE, 1, 2, s1)>>, <<R(b, TRUE, 1, 2, s1)>> >> :
        a \in {"use", "close", "notify"}, b \in {"use", "close", "notify"}}

TreeRequests ==
    {R("connect", TRUE, 0, 0, s) : s \in {s1, s2}} \cup {R("disconnect", TRUE, t, 0, s1) : t \in 1 .. 2}
        \cup {R("connect", FALSE, 0, 0, s1), R("use", TRUE, 1, 0, s1)}
TreeScripts == {[i \in DOMAIN p |-> <<p[i]>>] : p \in [1 .. MaxTrees -> TreeRequests]}

(* Two clients of the pipe that take turns, and chains on it. *)
ConnectPipe == R("connect", TRUE, 0, 0, ipc)
Conversation ==
    {R("pipeWrite", ok, 1, SrvsvcGuid, ipc) : ok \in BOOLEAN}
        \cup {R(op, TRUE, 1, SrvsvcGuid, ipc) : op \in {"pipeRead", "pipeCall"}}
OtherPipe ==
    {R("disconnect", TRUE, 1, 0, ipc), ConnectPipe} \cup {R(op, TRUE, 1, SrvsvcGuid, ipc) : op \in {"create", "close", "use", "notify", "silent"}}
        \cup {R("create", FALSE, 1, 0, ipc), R("pipeCall", FALSE, 1, SrvsvcGuid, ipc), R("pipeCall", TRUE, 1, 0, ipc),
             R("pipeCall", FALSE, 1, 0, ipc)}
PipeChain == {R("create", TRUE, 1, 0, ipc), R("pipeWrite", TRUE, 1, 0, ipc), R("pipeWrite", FALSE, 1, 0, ipc),
              R("pipeRead", TRUE, 1, 0, ipc), R("close", TRUE, 1, 0, ipc)}
PipeScripts ==
    {<< <<ConnectPipe>> >> \o [i \in DOMAIN p |-> <<p[i]>>] :
        p \in [1 .. 4 -> Conversation] \cup [1 .. 2 -> OtherPipe]}
    \cup {<< <<ConnectPipe>>, Relate(p), <<R("pipeRead", TRUE, 1, SrvsvcGuid, ipc)>> >> : p \in [1 .. 3 -> PipeChain]}

Quiet == [acceptSingleConn |-> FALSE, come |-> {c1}, leave |-> {}, renew |-> {}, shutdown |-> FALSE]
Busy ==
    [acceptSingleConn : {FALSE}, come : {{c1, c2}}, leave : SUBSET {c1, c2}, renew : {{}}, shutdown : BOOLEAN]
        \cup [acceptSingleConn : {TRUE}, come : {{c1, c2}}, leave : {{c1}, {c2}},
              renew : {{}, {c1, c2}}, shutdown : BOOLEAN]
BusyScripts ==
    {<< <<Connect>>, Relate(<<R("create", TRUE, 1, 0, s1), R("close", TRUE, 1, 0, s1)>>)>>,
     << <<R("use", TRUE, 1, 0, s1)>> >>}

(* Message ids count from 1. *)
Number(s) ==
    LET before(i) == FoldLeft(LAMBDA n, k : n + Len(s[k]), 0, [k \in 1 .. (i - 1) |-> k])
    IN  [i \in DOMAIN s |-> [j \in DOMAIN s[i] |-> [s[i][j] EXCEPT !.id = before(i) + j]]]

QuietScripts == {Number(s) : s \in ChainScripts \cup UnledScripts \cup PipeScripts \cup FileScripts \cup TreeScripts}
MCScripts == QuietScripts \cup {Number(s) : s \in BusyScripts}
MCHosts == {Quiet} \cup Busy
MCCases == (QuietScripts \X {Quiet}) \cup ({Number(s) : s \in BusyScripts} \X Busy)
============================================================================
