-------------------------- MODULE MCSiteLifecycle ---------------------------
(* Instances of SiteLifecycle for TLC.                                     *)
EXTENDS SiteLifecycle, TLC

CONSTANTS s1, s2, v1, v2, w1, w2

TwoWorkers == Permutations({w1, w2})

Ask(n, request, s, v) == [id |-> n, request |-> request, site |-> s, version |-> v]

\* A site provisioned and torn down, beside another whose vhost Nginx rejects
\* and that is suspended without its domain.
MixedOrders ==
    {Ask(1, "provision", s1, v1), Ask(2, "directDeprovision", s1, v1),
     Ask(3, "provision", s2, v1), Ask(4, "suspendUnnamed", s2, v1)}

\* A site provisioned by two orders that name different versions, beside
\* another that is released from a suspension.
BuildOrders ==
    {Ask(1, "provision", s1, v1), Ask(2, "direct", s1, v2), Ask(3, "unsuspend", s2, v1)}

\* One provisioning order, sent again after a crash.
OneOrder == {Ask(1, "provision", s1, v1)}
=============================================================================
