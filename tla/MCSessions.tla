----------------------------- MODULE MCSessions -----------------------------
(***************************************************************************)
(* The session registry for TLC: ids and users are alike, and so are the   *)
(* connections but Third.  Two connections are enough for all that can     *)
(* happen to a session, except that two bind to one that a third is        *)
(* ending: Third comes where sessions are shared, and while one session at *)
(* most has been made.                                                     *)
(***************************************************************************)
EXTENDS Sessions, TLC

CONSTANT Third

Symmetry ==
  Permutations(Conns \ {Third}) \cup Permutations(Sids) \cup Permutations(Users)

\* Bound: two sessions among two connections, trees and files in one of them, or one
\* session among three.
Few ==
  \/ /\ conn[Third].up = "gone" /\ thread[Third] = Idle
     /\ Cardinality({s \in Sids : sess[s] # None /\ sess[s].next_tree_id # 0}) <= 1
  \/ /\ Cardinality({s \in Sids : sess[s] # None}) <= 1
     /\ config.multichannel /\ ~config.encrypt /\ ~config.allow_guest

=============================================================================
