---------------------------- MODULE MCTokenStore ----------------------------
(* An instance of TokenStore for TLC: the IDLE thread of a Junk folder and   *)
(* the training loop, for an account each.                                  *)
EXTENDS TokenStore, TLC

CONSTANTS ann, bob, idle, loop, i1, i2, i3, i4, buy

TwoAccounts == {ann, bob}
Threads == {idle, loop}
AccountEach == (idle :> bob) @@ (loop :> ann)
OneWord == {buy}
OneSpam == {[words |-> {buy}, as |-> "spam"]}
FourInodes == {i1, i2, i3, i4}
Alike == Permutations(FourInodes)
=============================================================================
