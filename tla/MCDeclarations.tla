--------------------------- MODULE MCDeclarations ---------------------------
(* Instances of Declarations: a structure T with two locks, a field of the   *)
(* structure B, one that is written in place and one of data, next to the    *)
(* declared lock type L; in every order, with every choice of guards.        *)
EXTENDS Declarations

On(names, type, own, exempt) == [names |-> names, type |-> type, own |-> own, exempt |-> exempt]
Mu == <<"mu">>
Other == <<"other">>

Lock == [lock |-> TRUE, rules |-> <<>>, groups |-> <<On(<<"m">>, Mutex, <<>>, FALSE)>>]
Base == [lock |-> FALSE, rules |-> <<>>, groups |-> <<On(<<"inner">>, Mutex, <<>>, FALSE)>>]
Place == [lock |-> FALSE, rules |-> <<>>, groups |-> <<On(<<"x">>, Data, <<>>, FALSE)>>]

By(path, strict) == [guard |-> path, strict |-> strict]
Rules == {<<>>, <<By(Mu, FALSE)>>, <<By(Mu, TRUE)>>, <<By(<<"b", "inner">>, FALSE)>>,
          <<By(<<"inner">>, FALSE)>>, <<By(<<"x">>, FALSE)>>, <<By(Mu, FALSE), By(Other, FALSE)>>}
Owns == {<<>>, <<Mu>>, <<Other>>, <<Mu, Other>>, <<<<"gmu">>>>, <<<<"y">>>>, <<<<"nowhere">>>>}

Outer(mu, other, own, base, place, rules, owns, exempt) ==
    [lock |-> FALSE, rules |-> rules,
     groups |-> <<On(Mu, mu, own, FALSE), On(Other, other, <<>>, FALSE),
                  On(base, "B", <<>>, FALSE), On(<<"s">>, place, <<>>, FALSE),
                  On(<<"x", "y">>, Data, owns, exempt)>>]

LockTypes == {Mutex, "L"}
AllPackages ==
    {[t \in {"T", "L", "B", "S"} |->
        CASE t = "L" -> Lock [] t = "B" -> Base [] t = "S" -> Place
          [] t = "T" -> Outer(mu, other, own, base, "S", rules, owns, exempt)] :
        mu \in LockTypes, other \in LockTypes, own \in {<<>>, <<Other>>},
        base \in {<<>>, <<"b">>}, rules \in Rules, owns \in Owns, exempt \in BOOLEAN}
=============================================================================
