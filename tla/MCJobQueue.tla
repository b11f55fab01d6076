----------------------------- MODULE MCJobQueue -----------------------------
(* Instances of JobQueue for TLC: jobs j1 .. j3, objects r1 and r2.        *)
EXTENDS JobQueue, TLC

CONSTANTS j1, j2, j3, w1, w2, r1, r2, h1

\* j1 and j2 belong to one channel, j3 to another object.
RelTwo    == [j \in Jobs |-> IF j = j3 THEN r2 ELSE r1]
\* All of them belong to one channel.
RelOne    == [j \in Jobs |-> r1]
\* j2 terminates its channel, j3 has a type without a handler.
TypeTerm  == [j \in Jobs |-> IF j = j2 THEN "terminate"
                             ELSE IF j = j3 THEN "orphan" ELSE "pre"]
\* j2 starts with a delay.
TypeDelay == [j \in Jobs |-> IF j = j2 THEN "delayed" ELSE "pre"]

NoHashes  == [j \in Jobs |-> None]
\* j1 and j3 stem from one transaction, j2 from none.
Hashes    == [j \in Jobs |-> IF j = j2 THEN None ELSE h1]

RankTwo   == [r \in Rels |-> IF r = r1 THEN 1 ELSE 2]
\* The objects are spread over two workers, or share one.
Spread    == [r \in Rels |-> IF r = r1 THEN w1 ELSE w2]
Shared    == [r \in Rels |-> w1]

\* The terminating job is retried without limit, the others run twice.
LimitMix  == [t \in Types |-> IF t = "terminate" THEN 0 ELSE 2]
=============================================================================
