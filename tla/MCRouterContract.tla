-------------------------- MODULE MCRouterContract --------------------------
(* RouterContract on every pair of entries, every short id and every kind of *)
(* repository, revision and job name.                                        *)
EXTENDS RouterContract

Ids(n, chars) == UNION {[1..k -> chars] : k \in 0..n}

Urls == {None} \cup [scheme : {"http", "https"}, host : {"cluster", "one"},
                    slash : BOOLEAN, flaw : {None}]
           \cup {[scheme |-> "https", host |-> "one", slash |-> FALSE, flaw |-> "path"]}

Auths == {None} \cup [path : {"direct"}, name : {"x", "y"}, file : {"secret"}]
            \cup {[path |-> p, name |-> "x", file |-> "secret"] :
                    p \in {"relative", "traversal", "nested"}}
            \cup {[path |-> "direct", name |-> f, file |-> f] :
                    f \in {"missing", "outside", "directory", "malformed"}}

Entries == [id : {<<"a">>, <<"b">>, <<"a", "-", "b">>, <<"-", "a">>},
            enabled : BOOLEAN, url : Urls, auth : Auths]

\* Two entries only when each could stand alone, and three only when dormant.
MCSpecLists ==
  {<<>>} \cup {<<e>> : e \in Entries}
    \cup {<<d, e>> : d, e \in {e \in Entries : ValidSpec(e)}}
    \cup [1..3 -> {e \in Entries : ~e.enabled /\ ValidSpec(e)}]

MCUpstreamIds == Ids(2, {"a", "b", "-", ".", "~"})
MCStatusIds == Ids(4, {"a", "b", "-", "~"})

MCJobs == [repo : Ids(3, {"plain", "dots", "long", "illegal"}),
           revision : {"lower", "upper", "other"}, idLength : {0, 1, 54, 100, 101},
           profile : {None, "fixed"}]

MCMaxIdLength == [executor |-> 3, upstream |-> 2]
=============================================================================
