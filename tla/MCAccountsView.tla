---------------------------- MODULE MCAccountsView ----------------------------
(* Two accounts, one of them there at first; two logins; two tasks under way. *)
EXTENDS AccountsView
CONSTANTS a, b

MCInit == list = {a} /\ Init

MCSpec == MCInit /\ [][Next]_vars /\ Fairness
=============================================================================
