------------------------------- MODULE MCBetOn -------------------------------
(* Markets and selectors for TLC: binary markets in either vocabulary, in a *)
(* mixed one and in one of their own, with all, one or none of their tokens. *)
EXTENDS BetOn

Doc(shape, labels, ids) == [shape |-> shape, labels |-> labels, ids |-> ids]

MCDocuments ==
    { Doc("good", labels, ids) :
        labels \in {<<"up", "down">>, <<"no", "yes">>, <<"other", "up">>, <<"up", "yes">>},
        ids \in {<<>>, <<"t1">>, <<"t1", "t2">>} }
    \cup { Doc("good", <<>>, <<>>), Doc("bad", <<>>, <<>>), Doc("mistyped", <<>>, <<>>) }

MCSelectors ==
    [index : {-1}, text : {"up", "down", "yes", "no", "other", "t2", ""}]
    \cup [index : {0, 1, 2}, text : {""}]
=============================================================================
