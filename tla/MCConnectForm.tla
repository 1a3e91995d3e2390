--------------------------- MODULE MCConnectForm ---------------------------
(* ConnectForm with a few secrets, for TLC.  They may be permuted.          *)
EXTENDS ConnectForm, TLC

SecretSymmetry == Permutations(Secrets)
=============================================================================
