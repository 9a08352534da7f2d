----------------------------- MODULE MCFeedHub -----------------------------
(* FeedHub for TLC: clients and subjects are interchangeable.              *)
EXTENDS FeedHub, TLC

Symmetry == Permutations(Clients) \cup Permutations(Subjects)
=============================================================================
