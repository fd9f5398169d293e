---------------------------- MODULE MCOrganizers ----------------------------
(* Organizers on small plans: each mixes the calls that meet in one part of   *)
(* the game.                                                                  *)
EXTENDS Organizers, TLC

MCLoginOf == [c \in Org |-> IF c = "b1" THEN "b" ELSE "a"]

Hands == Permutations(Hand)

Op(verb, id, set) == [verb |-> verb, id |-> id, set |-> set]
Plain(verbs) == {Op(v, 0, <<>>) : v \in verbs}

Game(levels, dated) ==
  [name |-> "n1", finished |-> FALSE, dated |-> dated, levels |-> levels,
   status |-> 0, points |-> 1, blocked |-> TRUE, pin |-> "old",
   progress |-> <<>>, bonus |-> 0, penalty |-> 0, stopped |-> FALSE, chat |-> <<>>]

Level(id) == [id |-> id, title |-> "t1", codes |-> {"c1"}]
Two == <<Level(1), Level(2)>>

Anybody == {[org |-> "a1", session |-> TRUE]}
SignedIn(start, ops, fronts, n) ==
  [game |-> start, ops |-> ops, fronts |-> fronts, calls |-> n, tabs |-> {}, files |-> Anybody]

Positions(dated) ==
  SignedIn(Game(Two, dated),
    {Op("delete_level", 1, <<>>), Op("move_up", 2, <<>>), Op("move_down", 2, <<>>),
     Op("create_level", 0, [title |-> "t2", codes |-> {"c2"}])} \cup Plain({"show_levels"}),
    {"cli", "tool", "web"}, 2)

Texts ==
  SignedIn(Game(Two, TRUE),
    {Op("update_level", 1, [title |-> "t2"]), Op("update_level", 1, [codes |-> {"c2"}]),
     Op("update_level", 1, [codes |-> {}]), Op("delete_level", 1, <<>>),
     Op("show_level", 1, <<>>), Op("copy_levels", 0, <<>>),
     Op("create_level", 0, [title |-> "t2", codes |-> {"c2"}])},
    {"cli", "web"}, 3)

Teams ==
  SignedIn(Game(<<Level(1)>>, TRUE),
    {Op("set_application", 0, [status |-> 1]), Op("set_application", 0, [newPin |-> TRUE]),
     Op("update_game", 0, [name |-> "n2"]), Op("update_game", 0, [finished |-> TRUE])}
    \cup Plain({"accept_all", "block", "unblock", "finish_game", "show_team", "show_game",
                "copy_game"}),
    {"cli", "tool"}, 2)

Live ==
  SignedIn([Game(Two, TRUE) EXCEPT !.blocked = FALSE],
    {Op("give_and_accept", 1, <<>>), Op("give_level", 1, <<>>), Op("accept_level", 1, <<>>),
     Op("accept_code", 1, [code |-> "c3"]), Op("remove_level", 1, <<>>),
     Op("clear_codes", 1, <<>>), Op("set_time", 1, <<>>)}
    \cup Plain({"clear_progress", "finish_game", "show_monitor"}),
    {"cli", "tool"}, 2)

Playing ==
  [SignedIn([Game(<<Level(1)>>, TRUE) EXCEPT !.blocked = FALSE],
    {Op("give_level", 1, <<>>), Op("clear_codes", 1, <<>>),
     Op("send_code", 1, [code |-> "c1"])},
    {"cli", "player"}, 3) EXCEPT !.files = [org : {"a1"}, session : BOOLEAN]]

Switching ==
  SignedIn(Game(<<Level(1)>>, TRUE), Plain({"engine_on", "engine_off", "switch_robot"}),
           {"cli", "tool"}, 3)

Chat ==
  SignedIn(Game(<<>>, TRUE),
    {Op("send_message", 0, [text |-> "m1"]), Op("delete_message", 1, <<>>),
     Op("add_correction", 0, [kind |-> "bonus"]), Op("add_correction", 0, [kind |-> "penalty"]),
     Op("delete_corrections", 0, [kind |-> "bonus"]),
     Op("delete_corrections", 0, [kind |-> "penalty"])}
    \cup Plain({"delete_messages", "show_messages"}),
    {"cli", "tool"}, 2)

Whoever == [org : Good \cup {NoOrg}, session : BOOLEAN]

SigningIn ==
  [SignedIn(Game(<<>>, TRUE), {}, {}, 0) EXCEPT !.tabs = Tab, !.files = Whoever]

\* A call of each front while organizers sign in and out in one tab.
Meanwhile ==
  [SignedIn([Game(<<Level(1)>>, TRUE) EXCEPT !.blocked = FALSE],
            {Op("engine_off", 0, <<>>)},
            {"tool", "web"}, 1)
     EXCEPT !.tabs = {CHOOSE t \in Tab : TRUE}]

MCPlans ==
  {Positions(TRUE), Positions(FALSE), Texts, Teams, Live, Playing, Switching, Chat, SigningIn, Meanwhile}

=============================================================================
