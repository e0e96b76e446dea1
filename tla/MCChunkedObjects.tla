-------------------------- MODULE MCChunkedObjects --------------------------
(* Instances of the uploads of one key, in bytes that are told apart by two  *)
(* values.                                                                   *)
EXTENDS ChunkedObjects, TLC

CONSTANTS u1, u2, w1, r1

Upload1(declared, input) == [declared |-> declared, input |-> input]

\* For concurrent uploads: files that share a chunk, and one input that is
\* not what was declared.
MCFewRequests ==
    {Upload1(<<1, 2>>, <<1, 2>>), Upload1(<<1>>, <<1>>), Upload1(<<1>>, <<2>>)}

\* For paging: with two bytes per chunk and two chunks per page, a chunk that
\* occurs twice, a page that is full, one that is not and a chunk cut short;
\* the empty file; inputs that are too short, too long or different.
MCRequests ==
    LET long == <<1, 1, 1, 1, 2>>
    IN  {Upload1(long, long), Upload1(<<>>, <<>>), Upload1(<<1, 1>>, <<1, 1>>),
         Upload1(long, <<1, 1, 1, 1>>), Upload1(<<1, 1>>, long), Upload1(<<1, 1>>, <<1, 2>>)}

MCSymmetry == Permutations(Uploaders)
============================================================================
