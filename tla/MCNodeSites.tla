---------------------------- MODULE MCNodeSites -----------------------------
(* Instances of NodeSites for TLC.                                         *)
EXTENDS NodeSites, TLC

CONSTANTS s1, s2, w1, w2

Ask(n, request, s, own) == [id |-> n, request |-> request, site |-> s, own |-> own]

\* A site without a repository is provisioned and torn down beside one with,
\* whose customer has set PORT to a port of the range.
NodeOrders ==
    {Ask(1, "provision", s1, 0), Ask(2, "deprovision", s1, 0),
     Ask(3, "provision", s2, 4000)}

LowPorts == {4000, 4001, 4002}
=============================================================================
