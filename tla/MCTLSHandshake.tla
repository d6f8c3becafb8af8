--------------------------- MODULE MCTLSHandshake ---------------------------
(***************************************************************************)
(* TLSHandshake for TLC: every dialer is a user with the configured keys,  *)
(* a user that the server does not trust, a user that trusts another       *)
(* server, or a plain TCP client.                                          *)
(***************************************************************************)
EXTENDS TLSHandshake

CONSTANTS d1, d2, d3    \* dialers

AllEnds == Dialers \X {"user", "server"}
OtherEnd == [e \in AllEnds |-> <<e[1], IF e[2] = "user" THEN "server" ELSE "user">>]
Configs == {[UserSignKey |-> "user", ServerVerifyKey |-> "server"],
            [UserSignKey |-> "stranger", ServerVerifyKey |-> "server"],
            [UserSignKey |-> "user", ServerVerifyKey |-> "stranger"]}

=============================================================================
