---------------------------- MODULE MCSessionStore ----------------------------
(***************************************************************************)
(* SessionStore for TLC: chats are alike, for none is named in a session.  *)
(***************************************************************************)
EXTENDS SessionStore, TLC

ChatSymmetry == Permutations(Chats)
=============================================================================
