---- MODULE MCFileNetwork ----
(* FileNetwork for TLC.  The uploads and what else clients ask of whom are    *)
(* chosen for each run.                                                      *)
EXTENDS FileNetwork, TLC

CONSTANTS node1, node2

Upload(how, n, bytes) == [op |-> how, node |-> n, body |-> bytes]

\* The second file is the last chunk of the first, which is cut to three bytes.
SharedChunk == {Upload("post", node1, <<1, 2, 3, 4>>), Upload("stream", node1, <<3>>)}

\* One file at two nodes, cut to one byte at the one; a stream that is refused.
SameFile == {Upload("post", node1, <<1, 2>>), Upload("post", node2, <<1>>),
             Upload("stream", node2, <<1, 1>>)}

\* Reads that end anywhere.
OneStream == {Upload("stream", node1, <<1, 2, 3>>)}

EachSome == [n \in Nodes |-> IF n = node1 THEN {"delete"} ELSE {"get", "global"}]
GetAndDelete == [n \in Nodes |-> IF n = node1 THEN {"get", "global"} ELSE {"global"}]
OwnerDeletes == [n \in Nodes |-> IF n = node1 THEN {"global"} ELSE {"get"}]

\* One request after another, each of a quiet cluster.
SequentialSpec == Init /\ [][Next /\ ((\E t \in Tasks : Request(t)) => AtRest)]_vars

Symmetry == Permutations(Tasks)
====
