----------------------------- MODULE AccountsMC -----------------------------
(***************************************************************************)
(* Two requests at a time, of one account or anonymous, from one address.  *)
(***************************************************************************)
EXTENDS Accounts, TLC

CONSTANTS u1, a1, e1, e2, r1, r2

\* 10, 30 and 30 in cmd/api/main.go.
MCAllowance == [shorten |-> 1, urls |-> 2, analytics |-> 2]
=============================================================================
