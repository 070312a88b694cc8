---------------------------- MODULE MCTokenVault ----------------------------
(* Instances of the token vault for TLC *)
EXTENDS TokenVault

OneSplit == {<<1, 1>>}
=============================================================================
