----------------------------- MODULE MCPayjoin -----------------------------
(* Model-checking instance of Payjoin: two payments, in each way that they *)
(* can meet at this program.                                               *)
EXTENDS Payjoin

CONSTANTS a1, a2

MCAttempts == {a1, a2}

Pair(x, y) == [a \in MCAttempts |-> IF a = a1 THEN x ELSE y]

MCRoutes == {Pair("both", "both"), Pair("both", "wallet"), Pair("both", "server")}
=============================================================================
