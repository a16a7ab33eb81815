----------------------------- MODULE MCSignInPage -----------------------------
(* SignInPage for TLC: one sign-in the API may begin.                      *)
EXTENDS SignInPage, TLC
=============================================================================
