----------------------------- MODULE MCAccounts -----------------------------
(* Accounts for TLC: the accounts, and the requests, are alike. *)
EXTENDS Accounts, TLC

TwoIds == {<<1, 2>>}
Sym == Permutations(OpenID) \cup Permutations(Admin)
=============================================================================
