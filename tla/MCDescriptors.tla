--------------------------- MODULE MCDescriptors ---------------------------
(* Instances of Descriptors for TLC. *)
EXTENDS Descriptors

D(type, len, num, addr, alt) == [type |-> type, len |-> len, num |-> num, addr |-> addr, alt |-> alt]
If(n, a) == D("interface", 9, n, 0, a)
Ep(a) == D("endpoint", 7, 0, a, 0)
Audio(a) == D("endpoint", 9, 0, a, 0)
Other(n) == D("other", n, 0, 0, 0)

\* Settings as they should be, with and without class descriptors; one that
\* counts too many endpoints.
Settings(alt) ==
    {<<If(0, alt)>>, <<If(0, alt), Other(3)>>, <<If(1, alt), Ep(1)>>,
     <<If(1, alt), Other(2), Audio(2), Other(2), Other(3)>>,
     <<If(2, alt), Ep(1), Other(3), Ep(2)>>, <<If(2, alt), Ep(1)>>}
Good == {r \o s \o t \o u : r \in {<<>>, <<Other(2)>>}, s \in Settings(0),
                            t \in Settings(1) \cup {<<>>}, u \in Settings(0) \cup {<<>>}}
\* An alternate setting that is longer than what is left.
Long == D("interface", 250, 0, 0, 1)
\* Descriptors no device should send, in any order.
Odd == {If(0, 0), If(1, 1), If(3, 0), Ep(1), D("endpoint", 5, 0, 1, 0), D("endpoint", 0, 0, 1, 0),
        D("endpoint", 250, 0, 2, 0), D("config", 9, 2, 0, 0), Other(250), Other(0), Other(4)}
Strange == {h \o <<a, b, c>> : h \in {<<>>, <<If(1, 0)>>, <<If(2, 0), Ep(1)>>},
                           a \in Odd, b \in Odd, c \in {If(0, 0), Other(4), Other(250)}}

Whole(body, n) == [total |-> 9 + Bytes(body), num |-> n, body |-> body]
Cut(body, n, k) == [total |-> 9 + Bytes(body) - k, num |-> n, body |-> body]
MCRaws == {Whole(b, n) : b \in Good, n \in 0..2}
            \cup {Cut(b, n, k) : b \in Strange, n \in 1..3, k \in {0, 1, 8}}
            \cup {[total |-> 4, num |-> 1, body |-> <<If(0, 0)>>]}
            \cup {[total |-> 18 + Bytes(b), num |-> 1, body |-> Append(b, Long)] : b \in Settings(0)}
============================================================================
