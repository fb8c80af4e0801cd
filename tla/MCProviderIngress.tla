-------------------------- MODULE MCProviderIngress --------------------------
(* Instances of ProviderIngress for TLC. *)
EXTENDS ProviderIngress

CONSTANT Latecomer      \* a request that only ever finds the handler full

MCEvents == <<"received", "read">>

MCNext == Next /\ stage'[Latecomer] \notin Running

MCSpec == Init /\ [][MCNext]_vars /\ Fairness
=============================================================================
