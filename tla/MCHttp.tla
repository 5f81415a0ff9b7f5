------------------------------- MODULE MCHttp -------------------------------
(* The recorder on connections of two exchanges.                           *)
EXTENDS Recording

\* A plain text, one with a NUL in it that is called text, and one that is not.
Exchanged(method, sent, answered, chunked, nul, text) ==
    [method |-> method, sent |-> sent, answered |-> answered, chunked |-> chunked, nul |-> nul, text |-> text]

Get(n) == Exchanged("GET", 0, n, FALSE, {}, {})
GetText(n) == Exchanged("GET", 0, n, FALSE, {"responses"}, {"responses"})
Chunked == Exchanged("GET", 0, 1, TRUE, {}, {"responses"})
HeadOf(n) == Exchanged("HEAD", 0, n, FALSE, {}, {})
Post == Exchanged("POST", 1, 1, FALSE, Directions, {})
PostText == Exchanged("POST", 1, 1, FALSE, {}, Directions)
HeadChunked == Exchanged("HEAD", 0, 0, TRUE, {}, {})

TalksVal == {<<HeadChunked, Get(1)>>, <<HeadOf(1), GetText(2)>>, <<Post, Chunked>>, <<Chunked, PostText>>}
=============================================================================
