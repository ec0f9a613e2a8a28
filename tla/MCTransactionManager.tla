------------------------- MODULE MCTransactionManager -------------------------
(* Model checking of TransactionManager: one Call-ID, two receivers. *)
EXTENDS TransactionManager, TLC

Datagram(method, cseq, vias, from, to, body) ==
    [method |-> method, cseq |-> cseq, vias |-> vias, from |-> from, to |-> to,
     body |-> body]

Request(method, vias, from, to) == Datagram(method, method, vias, from, to, "whole")

\* The caller's INVITE in two copies that differ, its CANCEL and ACK, the callee's
\* BYE and its answer to our INVITE, that INVITE come back through a proxy, a
\* response of somebody else's request, an INVITE and a response with half a
\* body, and bytes without headers.
MCContent ==
    << Request("INVITE", <<"i">>, "x", ""),
       Request("INVITE", <<"i">>, "x", ""),
       Request("CANCEL", <<"i">>, "x", ""),
       Request("ACK", <<"i">>, "x", "a"),
       Request("BYE", <<"b">>, "y", "b"),
       Datagram("RESPONSE", "INVITE", <<"o">>, "b", "y", "whole"),
       Request("INVITE", <<"p", "o">>, "b", ""),
       Datagram("RESPONSE", "INVITE", <<"z", "z1">>, "z", "", "whole"),
       Datagram("INVITE", "INVITE", <<"t">>, "x", "", "truncated"),
       Datagram("RESPONSE", "INVITE", <<"z">>, "z", "", "truncated"),
       Datagram("INVITE", "INVITE", <<>>, "", "", "whole") >>

\* An INVITE and what follows it; its call with the callee's requests and a loop; the
\* messages that belong to no call or cannot be read.
MCScenarios == {1..4, {1, 3, 5, 6}, {1, 5, 6, 7}, {1, 8}, {1, 9}, {10, 11}}

Symmetry == Permutations(Receivers)
===============================================================================
