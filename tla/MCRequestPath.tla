--------------------------- MODULE MCRequestPath ---------------------------
(* Two connections, two keys and one token of every kind the verifier tells *)
(* apart; the second connection asks for the list of users.                 *)
EXTENDS RequestPath

Keys == <<"k1", "k2">>

Good == [form |-> "bearer", alg |-> "HS256", kid |-> "k2", key |-> "k2",
         exp |-> "future", nbf |-> "past", scope |-> TRUE, sub |-> 1, role |-> ""]

\* The accepted: the owner (by kid), another user and an administrator whose
\* tokens name no kid and are signed with the second and the first key.
Accepted == {Good,
             [Good EXCEPT !.sub = 2, !.kid = "absent", !.role = "user"],
             [Good EXCEPT !.sub = 2, !.kid = "absent", !.key = "k1", !.role = "admin"]}

Refused == {[Good EXCEPT !.alg = "none"],
            [Good EXCEPT !.kid = "k1"],
            [Good EXCEPT !.kid = "unknown"],
            [Good EXCEPT !.kid = "absent", !.key = "foreign", !.role = "admin"],
            [Good EXCEPT !.exp = "past", !.kid = "absent"],
            [Good EXCEPT !.exp = "absent"],
            [Good EXCEPT !.nbf = "future"],
            [Good EXCEPT !.scope = FALSE],
            [Good EXCEPT !.sub = 0],
            [Good EXCEPT !.role = "root"]}

AllHeaders == {NoHeader, [form |-> "malformed"]} \cup Accepted \cup Refused

FirstAsks ==
    {<<p, "GET">> : p \in {"/api/v1/users/{id}", "/api/v1/users/{id}/profile", "/", "/debug/"}
                             \cup JobItems}
        \cup {<<"/api/v1/users", "OPTIONS">>, <<"/debug/", "OPTIONS">>,
              <<"/livez", "GET">>, <<"/api/v2/users", "PUT">>}

TwoMenus == [r \in {"r1", "r2"} |->
                IF r = "r1" THEN FirstAsks
                ELSE {<<"/api/v1/users", "GET">>}]

OneOrigin == [origins |-> {"https://app"}, credentials |-> FALSE,
              methods |-> {"GET"}, headers |-> {"authorization"}]

SomeOrigins == {[origin |-> "", wants |-> "", headers |-> {}],
                [origin |-> "https://other", wants |-> "", headers |-> {}],
                [origin |-> "https://app", wants |-> "GET", headers |-> {"authorization"}],
                [origin |-> "https://app", wants |-> "GET", headers |-> {"x-other"}],
                [origin |-> "https://app", wants |-> "", headers |-> {}]}

SomeAccepts == {<<"json", "protobuf">>, <<"other">>}
=============================================================================
