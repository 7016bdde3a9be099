--------------------------- MODULE MCSqlProvider ---------------------------
(***************************************************************************)
(* Callers with one and with two claims, and a pool of one connection, so  *)
(* that every transaction but the first runs in a session already used and *)
(* everybody waits for the same client.                                    *)
(***************************************************************************)
EXTENDS SqlProvider

CONSTANTS c1, c2, c3, k1

MCCalls == {c1, c2, c3}
MCTwoCalls == {c1, c2}
MCClients == {k1}
MCClaimSets == {{}, {<<"tenant", "a">>}, {<<"tenant", "b">>, <<"user", "b">>}}
=============================================================================
