---------------------------- MODULE MCEdgeVhosts ----------------------------
(* Instances of EdgeVhosts for TLC.                                        *)
EXTENDS EdgeVhosts

CONSTANTS d1, rules, nofile, a, w1, w2

Req(kind, key, content) == [kind |-> kind, key |-> key, content |-> content]

\* An edge vhost is ordered and deleted while the rules are synchronised and a
\* certificate of another site is issued.
EdgeOrders == {Req("create", d1, a), Req("delete", d1, a), Req("sync", rules, a),
               Req("issue", nofile, a)}
=============================================================================
