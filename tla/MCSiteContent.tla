--------------------------- MODULE MCSiteContent ----------------------------
(* Instances of SiteContent for TLC.                                       *)
EXTENDS SiteContent

CONSTANTS s1, s2, w1, w2, full1, full2

Ask(n, request, s, t, data, after) ==
    [id |-> n, request |-> request, from |-> s, to |-> t, db |-> data, after |-> after]

\* Ids short enough to be the name of the directory, and UUIDs.
ShortIds == [s \in Sites |-> s]
UUIDs == [s \in Sites |-> IF s = s1 THEN full1 ELSE full2]

\* A site is installed, while another is pushed over it and an archive imported.
\* (A clone is a push without the replacement.)
PushOrders ==
    {Ask(1, "install", s2, s2, TRUE, {}), Ask(2, "push", s1, s2, TRUE, {}),
     Ask(3, "import", s2, s2, TRUE, {2})}

\* A site is cloned, and pushed back.
CloneOrders == {Ask(1, "clone", s1, s2, FALSE, {}), Ask(2, "push", s2, s1, FALSE, {})}
=============================================================================
