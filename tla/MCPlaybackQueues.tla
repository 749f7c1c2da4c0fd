---- MODULE MCPlaybackQueues ----
EXTENDS PlaybackQueues
CONSTANTS t1, t2
TwoLists == {<<t1>>, <<t2, t1>>}
Sym == Permutations(Callers)
====
