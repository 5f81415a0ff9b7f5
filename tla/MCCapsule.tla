------------------------------ MODULE MCCapsule ------------------------------
(* Values for model-checking Capsule, and Dataset under it: users in teams    *)
(* with a boss, whose posts have no key and refer to them by a second unique  *)
(* column; and two tables that refer to each other. For seeding alone, a      *)
(* table whose key is made of its references, a reference of two columns, one *)
(* of which may be NULL, and columns of every kind.                           *)
EXTENDS Capsule, TLC

F(child, col, parent, ref) == [child |-> child, cols |-> <<col>>, parent |-> parent, ref |-> <<ref>>]

\* The columns of `known` are as it says, the others random or references.
Schema(pk, cols, unique, fks, free, strict, known) ==
  [pk |-> pk, cols |-> cols, unique |-> unique, fks |-> fks, free |-> free, strict |-> strict,
   kind |-> [tc \in UNION {{<<t, c>> : c \in cols[t]} : t \in DOMAIN pk} |->
               IF tc \in DOMAIN known THEN known[tc] ELSE "random"]]

Org == Schema([team |-> <<"id">>, user |-> <<"id">>, post |-> << >>],
              [team |-> {"id"}, user |-> {"id", "nick", "team", "boss"}, post |-> {"by", "team"}],
              [team |-> {}, user |-> {<<"nick">>}, post |-> {}],
              {F("user", "team", "team", "id"), F("user", "boss", "user", "id"),
               F("post", "by", "user", "nick"), F("post", "team", "team", "id")},
              {<<"user", "boss">>, <<"post", "team">>}, {},
              <<"team", "id">> :> "serial" @@ <<"user", "id">> :> "sequence" @@ <<"user", "nick">> :> "serial")

Circle == Schema([a |-> <<"id">>, b |-> <<"id">>], [a |-> {"id", "b"}, b |-> {"id", "a"}], [a |-> {}, b |-> {}],
                 {F("a", "b", "b", "id"), F("b", "a", "a", "id")}, {<<"a", "b">>, <<"b", "a">>}, {},
                 <<"a", "id">> :> "serial" @@ <<"b", "id">> :> "serial")

Link == Schema([a |-> <<"id">>, b |-> <<"id">>, link |-> <<"a", "b">>],
               [a |-> {"id"}, b |-> {"id"}, link |-> {"a", "b"}], [a |-> {}, b |-> {}, link |-> {}],
               {F("link", "a", "a", "id"), F("link", "b", "b", "id")}, {}, {},
               <<"a", "id">> :> "sequence" @@ <<"b", "id">> :> "serial")

Pair == Schema([room |-> <<"house", "no">>, bed |-> <<"id">>],
               [room |-> {"house", "no"}, bed |-> {"id", "house", "no"}], [room |-> {}, bed |-> {}],
               {[child |-> "bed", cols |-> <<"house", "no">>, parent |-> "room", ref |-> <<"house", "no">>]},
               {<<"bed", "no">>}, {},
               <<"room", "no">> :> "serial" @@ <<"bed", "id">> :> "sequence")

\* Tags with a unique name, files that may have a hash, and notes under a CHECK.
Tags == Schema([tag |-> <<"id">>, file |-> <<"id">>, note |-> <<"id">>],
               [tag |-> {"id", "name", "state"}, file |-> {"id", "hash"}, note |-> {"id"}],
               [tag |-> {<<"name">>, <<"id", "state">>}, file |-> {<<"hash">>}, note |-> {}],
               {}, {<<"file", "hash">>}, {"note"},
               <<"tag", "id">> :> "sequence" @@ <<"tag", "state">> :> "default" @@ <<"file", "id">> :> "sequence" @@
               <<"file", "hash">> :> "bytes" @@ <<"note", "id">> :> "serial")

MCSchemas == {Org, Circle, Link, Pair, Tags}

U(id, nick, team, boss) == [id |-> id, nick |-> nick, team |-> team, boss |-> boss]

MCDatabases(s) ==
  CASE s = Org -> {[team |-> {}, user |-> {}, post |-> {}],
                   [team |-> {[id |-> 1]}, user |-> {U(1, 2, 1, 2), U(2, 1, 1, 0)}, post |-> {[by |-> 1, team |-> 0]}]}
    [] s = Circle -> {[a |-> {[id |-> 1, b |-> 1]}, b |-> {[id |-> 1, a |-> 1], [id |-> 2, a |-> 0]}]}
    [] s = Link -> {[a |-> {}, b |-> {}, link |-> {}],
                    [a |-> {[id |-> 1], [id |-> 2]}, b |-> {[id |-> 1]}, link |-> {[a |-> 1, b |-> 1]}]}
    [] s = Pair -> {[room |-> {}, bed |-> {}],
                    [room |-> {[house |-> 1, no |-> 1]}, bed |-> {[id |-> 1, house |-> 2, no |-> 0]}]}
    [] s = Tags -> {[tag |-> {}, file |-> {}, note |-> {}],
                    [tag |-> {[id |-> 2, name |-> 1, state |-> 1]}, file |-> {[id |-> 1, hash |-> 1]}, note |-> {}]}

MCWhere == [password |-> "env", key |-> "label"]
MCCommand == <<[flag |-> "none", value |-> "serve"], [flag |-> "--pass", value |-> "none"],
               [flag |-> "none", value |-> "token"], [flag |-> "--pass", value |-> "none"]>>
MCKnown == {{}, {"ref"}}
=============================================================================
