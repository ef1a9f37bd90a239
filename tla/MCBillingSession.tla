-------------------------- MODULE MCBillingSession --------------------------
(* Instances of BillingSession for TLC.                                    *)
EXTENDS BillingSession, TLC

Sym == Permutations(Requests)

MCSubs0 == {}
MCSubs1 == {1}
MCSubs2 == {1, 2}
MCTotal0 == [s \in {} |-> 0]
MCTotal1 == [s \in {1} |-> 4]
MCTotal2 == (1 :> 2) @@ (2 :> 3)
=============================================================================
