-------------------------- MODULE MCCachingStorage --------------------------
(* Instances of CachingStorage for TLC: which reads there are, what they    *)
(* depend on, and which updates purge them.                                 *)
EXTENDS CachingStorage, TLC

CONSTANTS w1, w2, f1, f2, readFeed1, entryIds1, readFeed2, feedIds

\* The id of f1 is a prefix of the id of f2, as one URL may be of another.
MCScope == [k \in Key |-> CASE k = readFeed1 -> {f1}
                            [] k = entryIds1 -> {f1}
                            [] k = readFeed2 -> {f2}
                            [] k = feedIds   -> Feed]
MCPrefixed == [f \in Feed |-> IF f = f1 THEN Key \ {feedIds}
                                        ELSE Key \cap {readFeed2}]

WorkerSymmetry == Permutations(Worker)
=============================================================================
