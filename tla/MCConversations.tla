-------------------------- MODULE MCConversations --------------------------
(* Conversations on small instances. *)
EXTENDS Conversations, TLC

Symmetry == Permutations(Clients) \cup Permutations(Convs)
              \cup Permutations(Handlers)

\* Bound: while one session has two listeners the other has none.
FewListeners ==
  \A c, d \in Convs :
    c # d /\ agent[c] # None /\ agent[d] # None =>
      Len(agent[c].subscribers) + Len(agent[d].subscribers) <= 2
=============================================================================
