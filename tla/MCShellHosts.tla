---------------------------- MODULE MCShellHosts ---------------------------
(* Two hosts: one the shell works on, one that must not be affected by it.  *)
(* At most MaxTasks background tasks are under way at once, enough for      *)
(* every pair of them to interact.                                          *)
EXTENDS ShellHosts, TLC

CONSTANT MaxTasks

Symmetry == Permutations(Host)

Underway == {<<"pairing", attempt # NoHost>>, <<"appList", appList # NoHost>>,
             <<"art", art # NoHost>>, <<"discovery", discovering>>,
             <<"probe", round # {}>>}

FewTasks == Cardinality({t \in Underway : t[2]}) <= MaxTasks
=============================================================================
