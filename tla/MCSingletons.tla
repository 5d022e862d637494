---- MODULE MCSingletons ----
EXTENDS Singletons, TLC

CONSTANTS w1, w2, a1

Threads == Permutations(Workers)
====
