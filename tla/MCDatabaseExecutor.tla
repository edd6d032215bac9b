-------------------------- MODULE MCDatabaseExecutor --------------------------
EXTENDS DatabaseExecutor, TLC

\* Each mix has a barrier and an interactive read among its four requests.
Mixes == {<<"write", "write", "read", "interactive">>,
          <<"write", "other", "read", "interactive">>,
          <<"write", "read", "interactive", "interactive">>,
          <<"other", "write", "interactive", "interactive">>}

MixedOffers ==
    {k \in [Requests -> Kinds] :
        \E mix \in Mixes : \A kd \in Kinds :
            Cardinality({r \in Requests : k[r] = kd}) =
                Cardinality({i \in DOMAIN mix : mix[i] = kd})}

Symmetry == Permutations(Requests)
=============================================================================
