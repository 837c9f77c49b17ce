----------------------------- MODULE MCAuthState -----------------------------
(* A small instance of AuthState for TLC. *)
EXTENDS AuthState

CONSTANTS h1, h2, c1, c2

\* Two login commands around one handler, and two handlers at once.
SmallCrews ==
  {[handlers |-> {h1}, clients |-> {c1, c2}], [handlers |-> {h1, h2}, clients |-> {}]}

=============================================================================
