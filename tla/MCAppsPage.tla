----------------------------- MODULE MCAppsPage -----------------------------
(* Two small instances of AppsPage: two hosts with one app each, for        *)
(* answers that arrive on another host's page, and one host with two apps,  *)
(* for lists, favorites and images that change while others stay.           *)
EXTENDS AppsPage, TLC

Symmetry == Permutations(Host) \cup Permutations(Title)

\* forgotten only records what the code no longer knows.
Behaviour == <<pc, pageVars, file, art, listTask, artTask, deleted>>
=============================================================================
