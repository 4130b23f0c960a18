--------------------------- MODULE MCAppLifecycle ---------------------------
(* Instances of AppLifecycle for TLC.                                       *)
EXTENDS AppLifecycle, TLC

CONSTANTS a1, a2

Symmetry == Permutations(Pid) \union Permutations(Handler) \union Permutations(Waiter)

\* boot.toml of the instances.
MCAlways      == a1 :> "always"
MCBoth        == (a1 :> "always") @@ (a2 :> "on-failure")
==============================================================================
