-------------------------------- MODULE MCAi --------------------------------
(* Small instances of AiGateway for TLC.                                     *)
EXTENDS AiGateway, TLC

CONSTANTS m1, m2, r1, r2, t1, t2

TwoProviders == {"main", "spare"}
ServesJobs   == [main |-> Jobs, spare |-> {"summary"}]
Order        == [main |-> 1, spare |-> 2]

Doc(reads, providers, target) ==
    [reads |-> reads, providers |-> providers, routing |-> [job \in Jobs |-> target]]
Files == {Doc(TRUE, {"main", "spare"}, "main"), Doc(TRUE, {"spare"}, "spare"),
          Doc(TRUE, {"spare"}, "main"), Doc(FALSE, {}, NoProvider)}

Url(https, port) == [https |-> https, host |-> TRUE, port |-> port]
SomeUrls == {Url(TRUE, "none"), Url(TRUE, "word"), Url(FALSE, "none")}

Server(up, status, framing, pieces, arrive, closes, says) ==
    [up |-> up, status |-> status, framing |-> framing, pieces |-> pieces,
     arrive |-> arrive, closes |-> closes, says |-> says]
Behaviours ==
    {Server(FALSE, 200, "length", <<>>, 0, TRUE, "nothing")}
    \cup {Server(TRUE, status, framing, pieces, arrive, closes, says) :
            status \in {NotHttp, 200, 402, 500}, framing \in {"length", "chunked", "close", "garbled"},
            pieces \in {<<1, 1>>, <<1, 2>>}, arrive \in 0..2, closes \in BOOLEAN, says \in Says}

RequestSymmetry == Permutations({r1, r2})
=============================================================================
