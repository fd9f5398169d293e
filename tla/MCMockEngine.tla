---------------------------- MODULE MCMockEngine ----------------------------
(* A game of two main levels, a skvoz level, and one level to be added. *)
EXTENDS PlayerCommands
MCLine == <<"l1", "l2", "sk">>
Plain(codes) == [codes |-> codes, bonusCodes |-> {}, fakeCodes |-> {}, spoilers |-> {},
                 codeCount |-> 0, bonus |-> FALSE, noMaster |-> FALSE]
MCDefs == [l1 |-> [Plain({"a"}) EXCEPT !.bonusCodes = {"b"}, !.spoilers = {"s"}],
           l2 |-> [Plain({"a", "c"}) EXCEPT !.codeCount = 1, !.noMaster = TRUE],
           sk |-> [Plain({"k"}) EXCEPT !.fakeCodes = {"f"}, !.bonus = TRUE],
           new |-> Plain({"a"})]
MCPlans == {{"failures", "extras"}, {"failures", "time", "late"}, {"hints", "clues"},
            {"breaks", "choices", "time", "late"}, {"breaks", "choices", "switches", "hold"},
            {"sessions", "extras", "hold"}, {"lists", "breaks"}, {"monitor", "breaks"},
            {"switches", "extras"}, {"commands", "choices", "hold"},
            {"commands", "choices", "breaks"}, {"commands", "hints", "time"}}
MCEdit == {{}, {"a", "b"}}
=============================================================================
