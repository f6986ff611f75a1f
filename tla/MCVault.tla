------------------------------ MODULE MCVault ------------------------------
(***************************************************************************)
(* Two threads of a server and one command line, on one data directory.    *)
(***************************************************************************)
EXTENDS Vault

CONSTANTS server, shell, a, b, c, good, other, weak, d1, d2, alien

MCProcs == {server, shell}
MCTasks == {a, b, c}
MCHome == [t \in MCTasks |-> IF t = c THEN shell ELSE server]
MCPassphrases == {good, other, weak}
MCStrong == {good, other}
MCConfigs == {[k |-> 1, n |-> 2], [k |-> 2, n |-> 3]}
MCDraws == {d1, d2, alien}
MCForeign == {alien}

share(d, i) == [draw |-> d, index |-> i, intact |-> TRUE]
torn(d, i) == [draw |-> d, index |-> i, intact |-> FALSE]

(* Too few, a quorum, a quorum and a damaged extra share, a damaged share  *)
(* inside the quorum, a mixture with another vault's share.                *)
ShareSets(d) == { {share(d, 2)},
                  {share(d, 1), share(d, 3)},
                  {share(d, 1), share(d, 2), torn(d, 3)},
                  {torn(d, 1), share(d, 2)},
                  {share(d, 1), share(alien, 2)} }
MCPresented == UNION {ShareSets(d) : d \in {d1, d2}}
                   \cup {{share(alien, 1), share(alien, 2)}}
=============================================================================
