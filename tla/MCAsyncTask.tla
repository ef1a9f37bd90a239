---------------------------- MODULE MCAsyncTask -----------------------------
(* Instances of AsyncTask for TLC.                                         *)
EXTENDS AsyncTask, TLC

CONSTANTS t1, t2

Sym == Permutations(Workers)
MCActual1 == t1 :> 3
MCActual2 == (t1 :> 3) @@ (t2 :> 0)
=============================================================================
