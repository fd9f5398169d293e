------------------------ MODULE ScenarioImport_proofs ------------------------
(* What is proved of imports: for any scenario, any number of games, levels,  *)
(* calls and changes by another organizer, the report is true, a complete     *)
(* import is equal to its source, and nothing is published before the rest    *)
(* was read back.                                                             *)
EXTENDS ScenarioImport, SequenceTheorems, WellFoundedInduction, TLAPS

-----------------------------------------------------------------------------
(* The inductive invariant *)

GameFields == {"content", "pub", "asset", "order"}
LevelFields == {"game", "content", "pub"}
JobFields == {"kind", "at", "k", "game", "ids"}
ReportFields == {"gameID", "createdGame", "levelIDs", "completed", "stage", "key", "complete"}

\* The places of a call, by what it has done so far.
Entering == {"preflight", "create_game"}
Preparing == {"upload_asset", "write_game", "verify_game"}
Naming == {"write_level", "find_level"}
Filling == {"replace_level", "verify_level"}
Ordering == {"list", "move", "relist"}
Flagging == {"flags", "verify_flags"}
Closing == {"game_flags", "verify_game_flags"}
Applying == {"apply", "find_applied"}
Importing == Preparing \cup Naming \cup Filling \cup Ordering \cup Flagging \cup Closing
Finding == {"find_level", "find_applied"}
Places == {"idle"} \cup Entering \cup Importing \cup Applying

\* Where a call may be that deals with no level: anywhere else the scenario has one.
Levelless == {"idle"} \cup Entering \cup Preparing \cup {"list"} \cup Closing
Turn(at, k) == k \in 1 .. Count \/ (k = 1 /\ at \in Levelless)

Complete == r.stage = "complete"
Named(n) == {Scenario[i] : i \in 1 .. n}

\* The engine: every game lists its levels once, and no others.
EngineInv ==
  /\ games \in Seq(Range(games)) /\ levels \in Seq(Range(levels))
  /\ \A l \in DOMAIN levels :
       DOMAIN levels[l] = LevelFields /\ levels[l].game \in {0} \cup DOMAIN games
  /\ \A g \in DOMAIN games :
       /\ DOMAIN games[g] = GameFields
       /\ games[g].order \in Seq(Nat) /\ IsInjective(games[g].order)
       /\ Range(games[g].order) = {l \in DOMAIN levels : levels[l].game = g}

\* The call under way.
JobInv ==
  /\ DOMAIN job = JobFields /\ job.kind \in {"import", "create", "update"}
  /\ job.at \in Places /\ Turn(job.at, job.k)
  /\ job.at # "idle" /\ Count = 0 => job.kind = "import"
  /\ job.at \in Importing \cup {"create_game"} => job.kind = "import"
  /\ job.at \in Applying => job.kind \in {"create", "update"}
  /\ job.at = "find_applied" => job.kind = "create"
  /\ job.at # "idle" =>
       /\ DOMAIN job.ids \in {{}, Keys}
       /\ \A x \in DOMAIN job.ids : job.ids[x] \in DOMAIN levels
       /\ job.at # "preflight" \/ job.kind = "update" => IsInjective(job.ids)
       /\ job.kind = "update" => DOMAIN job.ids = Keys
       /\ job.kind = "create" \/ job.at \in {"create_game", "find_level"} => DOMAIN job.ids = {}

\* Its report, and how far it has come.
ReportInv ==
  /\ DOMAIN r = ReportFields /\ r.gameID \in {0} \cup DOMAIN games
  /\ \/ job.at \in Importing \cup Applying \/ Complete
     \/ job.at = "preflight" /\ job.kind # "import"
     => r.gameID # 0
  /\ DOMAIN r.levelIDs \subseteq Keys
  /\ \A x \in DOMAIN r.levelIDs : r.levelIDs[x] \in DOMAIN levels
  /\ r.completed \in Seq(Keys) /\ Len(r.completed) <= Count
  /\ \A i \in DOMAIN r.completed : r.completed[i] = Scenario[i] /\ Scenario[i] \in DOMAIN r.levelIDs
  /\ made \subseteq DOMAIN levels
  /\ job.at \in Entering \cup Preparing => r.completed = <<>> /\ DOMAIN r.levelIDs = {}
  /\ job.at \in Naming \cup Applying =>
       Len(r.completed) = job.k - 1 /\ DOMAIN r.levelIDs = Named(job.k - 1)
  /\ job.at \in Filling => Len(r.completed) = job.k - 1 /\ DOMAIN r.levelIDs = Named(job.k)
  /\ job.at \in Ordering \cup Flagging \cup Closing \/ Complete =>
       Len(r.completed) = Count /\ DOMAIN r.levelIDs = Keys
  /\ job.at # "idle" => ~Complete
  /\ job.at \in Naming \cup Filling \cup Applying \cup Flagging => r.key = Scenario[job.k]
  /\ job.at \in Naming \cup Filling => r.stage = "write_level"
  /\ job.at \in Applying => r.stage = "apply"

\* Unless the list changed while an id was read from its end, every level the call made
\* has a key of its own, but for the one that is being looked for.
Pending == IF job.at \in Finding THEN {Last(games[r.gameID].order)} ELSE {}
MadeInv ==
  /\ job.at # "idle" => \A x \in DOMAIN r.levelIDs \cap DOMAIN job.ids : r.levelIDs[x] = job.ids[x]
  /\ ~raced =>
       /\ IsInjective(r.levelIDs)
       /\ job.at \in Finding =>
            games[r.gameID].order # <<>> /\ Last(games[r.gameID].order) \notin Range(r.levelIDs)
       /\ job.at # "idle" => made \ Range(r.levelIDs) \subseteq Pending
       /\ job.at = "find_applied" =>
            LET l == Last(games[r.gameID].order)
            IN <<"level", l>> \in touched \/ levels[l].content \in {Scenario[job.k], "altered"}

Id(i) == r.levelIDs[Scenario[i]]
Marked(i) == Scenario[i] \in Published
Listed == job.at \in {"move"} \cup Flagging \cup Closing \/ Complete
Aligned == job.at \in Flagging \cup Closing \/ Complete

\* What was read back of a level is there, unless the other organizer changed it since,
\* or the level was recorded, and written, for a later key too.
Restored(i) ==
  /\ Marked(i)
  /\ job.at \in Closing \/ Complete \/ (job.at \in Flagging /\ i < job.k)
Holds(i, on) ==
  \/ <<"level", Id(i)>> \in touched
  \/ InGame(Id(i)) /\ levels[Id(i)].content = Scenario[i] /\ (On(levels[Id(i)].pub) <=> on)
Again(i) == \E j \in 1 .. Count : i < j /\ Scenario[j] \in DOMAIN r.levelIDs /\ Id(j) = Id(i)
ContentInv ==
  /\ job.at \in Flagging => Marked(job.k)
  /\ job.at \in Importing \/ Complete =>
       \A i \in 1 .. Len(r.completed) :
         Holds(i, Restored(i)) \/ Again(i) \/ (i = job.k /\ job.at = "verify_flags")

OrderInv ==
  /\ Listed => /\ seen \in Seq(Nat) /\ Len(seen) = Count /\ IsInjective(seen)
               /\ <<"order", r.gameID>> \in touched \/ seen = games[r.gameID].order
  /\ Aligned => \A i \in 1 .. Count : seen[i] = Id(i)

GameInv ==
  /\ job.at \in Importing \ {"upload_asset"} \/ Complete =>
       <<"asset", r.gameID>> \in touched \/ games[r.gameID].asset = "same"
  /\ Complete => \/ <<"game", r.gameID>> \in touched
                 \/ games[r.gameID].content = "scenario" /\ On(games[r.gameID].pub) = GamePublished

\* ReportTellsTruth, its two parts by name.
Told(i) ==
  \/ <<"level", Id(i)>> \in touched \/ raced
  \/ /\ InGame(Id(i))
     /\ \/ levels[Id(i)].content = Scenario[i]
        \/ levels[Id(i)].content = "altered" /\ (job.kind # "import" \/ r.key = Scenario[i])
Spare ==
  raced \/ \A l \in made \ Range(r.levelIDs) :
    /\ made \ Range(r.levelIDs) = {l}
    /\ r.key \notin DOMAIN r.levelIDs /\ r.stage \in {"write_level", "apply"}
TruthInv == (\A i \in 1 .. Len(r.completed) : Told(i)) /\ Spare

IInv ==
  /\ EngineInv /\ JobInv /\ ReportInv /\ MadeInv /\ ContentInv /\ OrderInv /\ GameInv
  /\ TruthInv

-----------------------------------------------------------------------------
(* Sequences *)

LEMMA OwnRange ==
  ASSUME NEW S, NEW s \in Seq(S)
  PROVE  s \in Seq(Range(s))
<1>1. PICK n \in Nat : s \in [1 .. n -> S]
  BY SeqDef
<1>2. s \in [1 .. n -> Range(s)]
  BY <1>1 DEF Range
<1> QED BY <1>2, SeqDef

LEMMA Replaced ==
  ASSUME NEW s, s \in Seq(Range(s)), NEW i \in DOMAIN s, NEW x, NEW t, t = [s EXCEPT ![i] = x]
  PROVE  /\ t \in Seq(Range(t)) /\ DOMAIN t = DOMAIN s /\ Len(t) = Len(s)
         /\ t[i] = x /\ \A j \in DOMAIN s : j # i => t[j] = s[j]
<1>1. PICK S : S = Range(s) \cup {x} /\ s \in Seq(S) /\ x \in S
  <2>1. s \in Seq(Range(s) \cup {x})
    BY SeqMonotonic
  <2> QED BY <2>1
<1>2. DOMAIN s = 1 .. Len(s)
  BY <1>1, LenProperties
<1>3. t \in Seq(S) /\ Len(t) = Len(s)
  BY <1>1, <1>2, ExceptSeq
<1> QED BY <1>3, OwnRange

LEMMA Appended ==
  ASSUME NEW s, s \in Seq(Range(s)), NEW x, NEW t, t = Append(s, x)
  PROVE  /\ t \in Seq(Range(t)) /\ DOMAIN t = DOMAIN s \cup {Len(s) + 1}
         /\ Len(s) + 1 \notin DOMAIN s /\ Len(t) = Len(s) + 1 /\ Len(s) + 1 # 0
         /\ t[Len(s) + 1] = x /\ \A j \in DOMAIN s : t[j] = s[j]
<1>1. PICK S : S = Range(s) \cup {x} /\ s \in Seq(S) /\ x \in S
  <2>1. s \in Seq(Range(s) \cup {x})
    BY SeqMonotonic
  <2> QED BY <2>1
<1>2. Len(s) \in Nat /\ DOMAIN s = 1 .. Len(s)
  BY <1>1, LenProperties
<1>3. t \in Seq(S) /\ Len(t) = Len(s) + 1 /\ t[Len(s) + 1] = x /\ \A j \in 1 .. Len(s) : t[j] = s[j]
  BY <1>1, <1>2
<1>4. DOMAIN t = 1 .. (Len(s) + 1)
  BY <1>3, LenProperties
<1>5. /\ 1 .. (Len(s) + 1) = 1 .. Len(s) \cup {Len(s) + 1}
      /\ Len(s) + 1 \notin 1 .. Len(s) /\ Len(s) + 1 # 0
  BY <1>2
<1>6. t \in Seq(Range(t))
  BY <1>3, OwnRange
<1> QED BY <1>2, <1>3, <1>4, <1>5, <1>6

-----------------------------------------------------------------------------
(* The engine *)

\* What a write to the engine may do without touching a list of levels.
LEMMA EngineKept ==
  ASSUME EngineInv, games' \in Seq(Range(games')), levels' \in Seq(Range(levels')),
         DOMAIN games' = DOMAIN games, DOMAIN levels' = DOMAIN levels,
         \A g \in DOMAIN games : DOMAIN games'[g] = GameFields /\ games'[g].order = games[g].order,
         \A l \in DOMAIN levels : DOMAIN levels'[l] = LevelFields /\ levels'[l].game = levels[l].game
  PROVE  EngineInv'
<1>1. \A g \in DOMAIN games : {l \in DOMAIN levels : levels[l].game = g}
                               = {l \in DOMAIN levels' : levels'[l].game = g}
  OBVIOUS
<1> QED BY <1>1 DEF EngineInv

LEMMA ReplacedGame ==
  ASSUME EngineInv, NEW c, NEW on, r.gameID \in DOMAIN games, ReplaceGame(c, on)
  PROVE  /\ EngineInv' /\ levels' = levels /\ DOMAIN games' = DOMAIN games
         /\ \A g \in DOMAIN games :
              /\ games'[g].order = games[g].order /\ games'[g].asset = games[g].asset
              /\ \/ games'[g].pub = games[g].pub
                 \/ g = r.gameID /\ games'[g].pub = Ours(on)
<1> DEFINE g == r.gameID
           old == games[g]
<1>1. PICK n : n = [[old EXCEPT !.content = c] EXCEPT !.pub = Ours(on)]
  OBVIOUS
<1>2. DOMAIN old = GameFields
  BY DEF EngineInv
<1>3. /\ DOMAIN n = GameFields /\ n.order = old.order /\ n.asset = old.asset /\ n.pub = Ours(on)
  BY <1>1, <1>2 DEF GameFields
<1>4. PICK rec \in Stored(old, n) : games' = [games EXCEPT ![g] = rec] /\ levels' = levels
  BY <1>1 DEF ReplaceGame
<1>5. /\ DOMAIN rec = GameFields /\ rec.order = old.order /\ rec.asset = old.asset
      /\ rec.pub \in {Ours(on), old.pub}
  <2>1. CASE rec = n
    BY <1>3, <2>1
  <2>2. CASE rec = [n EXCEPT !.content = "altered"]
    BY <1>3, <2>2 DEF GameFields
  <2>3. CASE rec = [n EXCEPT !.pub = old.pub]
    BY <1>3, <2>3 DEF GameFields
  <2> QED BY <1>4, <2>1, <2>2, <2>3 DEF Stored
<1> HIDE DEF g, old
<1>6. games \in Seq(Range(games)) /\ g \in DOMAIN games /\ old = games[g] /\ g = r.gameID
  BY DEF EngineInv, g, old
<1>7. /\ games' \in Seq(Range(games')) /\ DOMAIN games' = DOMAIN games
      /\ games'[g] = rec /\ \A j \in DOMAIN games : j # g => games'[j] = games[j]
  BY <1>4, <1>6, Replaced
<1>8. /\ levels' = levels
      /\ \A x \in DOMAIN games :
           /\ DOMAIN games'[x] = GameFields /\ games'[x].order = games[x].order
           /\ games'[x].asset = games[x].asset
           /\ games'[x].pub = games[x].pub \/ (x = g /\ games'[x].pub = Ours(on))
  <2>1. \A x \in DOMAIN games : DOMAIN games[x] = GameFields
    BY DEF EngineInv
  <2> QED BY <1>4, <1>5, <1>6, <1>7, <2>1
<1>9. EngineInv'
  BY <1>7, <1>8, EngineKept DEF EngineInv
<1> QED BY <1>6, <1>7, <1>8, <1>9

LEMMA ReplacedLevel ==
  ASSUME EngineInv, NEW l, NEW c, NEW on, ReplaceLevel(l, c, on)
  PROVE  /\ EngineInv' /\ games' = games /\ DOMAIN levels' = DOMAIN levels
         /\ l \in DOMAIN levels /\ levels[l].game = r.gameID /\ levels'[l].game = r.gameID
         /\ levels'[l].content \in {c, "altered"} /\ levels'[l].pub \in {levels[l].pub, Ours(on)}
         /\ \A x \in DOMAIN levels : x # l => levels'[x] = levels[x]
<1> DEFINE old == levels[l]
<1>1. PICK n : n = [[old EXCEPT !.content = c] EXCEPT !.pub = Ours(on)]
  OBVIOUS
<1>2. l \in DOMAIN levels /\ old.game = r.gameID /\ DOMAIN old = LevelFields
  BY DEF EngineInv, ReplaceLevel, InGame
<1>3. DOMAIN n = LevelFields /\ n.game = r.gameID /\ n.pub = Ours(on) /\ n.content = c
  BY <1>1, <1>2 DEF LevelFields
<1>4. PICK rec \in Stored(old, n) : levels' = [levels EXCEPT ![l] = rec] /\ games' = games
  BY <1>1 DEF ReplaceLevel
<1>5. /\ DOMAIN rec = LevelFields /\ rec.game = r.gameID
      /\ rec.content \in {c, "altered"} /\ rec.pub \in {old.pub, Ours(on)}
  <2>1. CASE rec = n
    BY <1>3, <2>1
  <2>2. CASE rec = [n EXCEPT !.content = "altered"]
    BY <1>3, <2>2 DEF LevelFields
  <2>3. CASE rec = [n EXCEPT !.pub = old.pub]
    BY <1>3, <2>3 DEF LevelFields
  <2> QED BY <1>4, <2>1, <2>2, <2>3 DEF Stored
<1> HIDE DEF old
<1>6. levels \in Seq(Range(levels)) /\ old = levels[l]
  BY DEF EngineInv, old
<1>7. /\ levels' \in Seq(Range(levels')) /\ DOMAIN levels' = DOMAIN levels
      /\ levels'[l] = rec /\ \A x \in DOMAIN levels : x # l => levels'[x] = levels[x]
  BY <1>2, <1>4, <1>6, Replaced
<1>8. \A x \in DOMAIN levels :
        DOMAIN levels'[x] = LevelFields /\ levels'[x].game = levels[x].game
  BY <1>2, <1>5, <1>6, <1>7 DEF EngineInv
<1>9. EngineInv'
  BY <1>4, <1>7, <1>8, EngineKept DEF EngineInv
<1> QED BY <1>2, <1>4, <1>5, <1>6, <1>7, <1>9

-----------------------------------------------------------------------------
(* Lists of levels *)

LEMMA AppendedOrder ==
  ASSUME NEW o \in Seq(Nat), IsInjective(o), NEW n \in Nat, n \notin Range(o), NEW t, t = Append(o, n)
  PROVE  /\ t \in Seq(Nat) /\ IsInjective(t) /\ Range(t) = Range(o) \cup {n}
         /\ t # <<>> /\ Last(t) = n
<1>1. Len(o) \in Nat /\ DOMAIN o = 1 .. Len(o)
  BY LenProperties
<1>2. /\ t \in Seq(Nat) /\ Len(t) = Len(o) + 1 /\ t[Len(o) + 1] = n
      /\ \A i \in 1 .. Len(o) : t[i] = o[i]
  BY <1>1
<1>3. DOMAIN t = 1 .. (Len(o) + 1)
  BY <1>2, LenProperties
<1>4. 1 .. (Len(o) + 1) = 1 .. Len(o) \cup {Len(o) + 1} /\ Len(o) + 1 # 0
  BY <1>1
<1>5. \A i \in 1 .. Len(o) : o[i] # n
  BY <1>1 DEF Range
<1>6. IsInjective(t)
  BY <1>1, <1>2, <1>3, <1>4, <1>5 DEF IsInjective
<1>7. Range(t) = Range(o) \cup {n}
  BY <1>1, <1>2, <1>3, <1>4 DEF Range
<1>8. t # <<>>
  BY <1>2, <1>4, EmptySeq
<1> QED BY <1>2, <1>6, <1>7, <1>8 DEF Last

LEMMA Reindexed ==
  ASSUME NEW o, IsInjective(o), NEW t, NEW at \in [DOMAIN t -> DOMAIN o],
         IsInjective(at), t = [x \in DOMAIN t |-> o[at[x]]]
  PROVE  IsInjective(t) /\ Range(t) = {o[y] : y \in Range(at)}
<1>1. ASSUME NEW x \in DOMAIN t, NEW y \in DOMAIN t, t[x] = t[y] PROVE x = y
  <2>1. at[x] \in DOMAIN o /\ at[y] \in DOMAIN o /\ o[at[x]] = o[at[y]]
    BY <1>1
  <2>2. at[x] = at[y]
    BY <2>1 DEF IsInjective
  <2>3. DOMAIN at = DOMAIN t
    OBVIOUS
  <2> QED BY <2>2, <2>3 DEF IsInjective
<1>2. IsInjective(t)
  BY <1>1, Zenon DEF IsInjective
<1>3. \A x \in DOMAIN t : t[x] = o[at[x]]
  OBVIOUS
<1> QED BY <1>2, <1>3 DEF Range

LEMMA Exchanged ==
  ASSUME NEW o \in Seq(Nat), IsInjective(o), NEW i \in DOMAIN o, NEW j \in DOMAIN o,
         NEW t \in Seq(Nat), DOMAIN t = DOMAIN o, t[i] = o[j], t[j] = o[i],
         \A x \in DOMAIN o : x # i /\ x # j => t[x] = o[x]
  PROVE  IsInjective(t) /\ Range(t) = Range(o)
<1>1. PICK at : at = [x \in DOMAIN o |-> IF x = i THEN j ELSE IF x = j THEN i ELSE x]
  OBVIOUS
<1>2. /\ at \in [DOMAIN t -> DOMAIN o] /\ \A x \in DOMAIN t : t[x] = o[at[x]]
      /\ \A y \in DOMAIN o : at[y] \in DOMAIN o /\ at[at[y]] = y
  BY <1>1
<1>3. IsInjective(at) /\ Range(at) = DOMAIN o
  <2>1. DOMAIN at = DOMAIN o
    BY <1>1
  <2>2. ASSUME NEW x \in DOMAIN at, NEW y \in DOMAIN at, at[x] = at[y] PROVE x = y
    BY <1>2, <2>1, <2>2
  <2>3. IsInjective(at)
    BY <2>2, Zenon DEF IsInjective
  <2>4. \A y \in DOMAIN o : \E x \in DOMAIN at : at[x] = y
    BY <1>2, <2>1
  <2>5. \A x \in DOMAIN at : at[x] \in DOMAIN o
    BY <1>2, <2>1
  <2>6. Range(at) = DOMAIN o
    BY ONLY <2>4, <2>5 DEF Range
  <2> QED BY <2>3, <2>6
<1>4. at \in [DOMAIN t -> DOMAIN o] /\ t = [x \in DOMAIN t |-> o[at[x]]]
  <2>1. t \in [DOMAIN t -> Nat]
    BY LenProperties
  <2> QED BY <1>2, <2>1
<1>5. IsInjective(t) /\ Range(t) = {o[y] : y \in Range(at)}
  BY <1>3, <1>4, Reindexed
<1> QED BY <1>3, <1>5 DEF Range

LEMMA SwappedOrder ==
  ASSUME NEW o \in Seq(Nat), IsInjective(o), NEW i \in 1 .. Len(o), i > 1,
         NEW t, t = [[o EXCEPT ![i] = o[i - 1]] EXCEPT ![i - 1] = o[i]]
  PROVE  t \in Seq(Nat) /\ IsInjective(t) /\ Range(t) = Range(o)
<1>1. /\ Len(o) \in Nat /\ DOMAIN o = 1 .. Len(o) /\ i - 1 \in 1 .. Len(o) /\ i - 1 # i
      /\ o[i] \in Nat /\ o[i - 1] \in Nat
  BY LenProperties
<1>2. PICK j \in 1 .. Len(o) : j = i - 1
  BY <1>1
<1>3. PICK u : u = [o EXCEPT ![i] = o[j]]
  OBVIOUS
<1>4. u \in Seq(Nat) /\ Len(u) = Len(o) /\ DOMAIN u = DOMAIN o
  BY <1>1, <1>2, <1>3, ExceptSeq
<1>5. t = [u EXCEPT ![j] = o[i]]
  BY <1>2, <1>3
<1>6. t \in Seq(Nat) /\ DOMAIN t = DOMAIN o
  BY <1>1, <1>4, <1>5, ExceptSeq
<1>7. t[i] = o[j] /\ t[j] = o[i] /\ \A x \in DOMAIN o : x # i /\ x # j => t[x] = o[x]
  BY <1>1, <1>2, <1>3, <1>4, <1>5
<1>8. /\ o \in Seq(Nat) /\ IsInjective(o) /\ i \in DOMAIN o /\ j \in DOMAIN o
      /\ t \in Seq(Nat) /\ DOMAIN t = DOMAIN o /\ t[i] = o[j] /\ t[j] = o[i]
      /\ \A x \in DOMAIN o : x # i /\ x # j => t[x] = o[x]
  BY <1>1, <1>6, <1>7
<1>9. IsInjective(t) /\ Range(t) = Range(o)
  BY ONLY <1>8, Exchanged
<1> QED BY <1>6, <1>9

LEMMA RemovedOrder ==
  ASSUME NEW o \in Seq(Nat), IsInjective(o), NEW i \in 1 .. Len(o), NEW t, t = RemoveAt(o, i)
  PROVE  t \in Seq(Nat) /\ IsInjective(t) /\ Range(t) = Range(o) \ {o[i]}
<1>1. PICK l \in Nat : l = Len(o) /\ DOMAIN o = 1 .. l /\ i \in 1 .. l
  BY LenProperties
<1>2. PICK a, b : a = SubSeq(o, 1, i - 1) /\ b = SubSeq(o, i + 1, l)
  OBVIOUS
<1>3. \A x \in 1 .. l : o[x] \in Nat
  BY <1>1, ElementOfSeq
<1>4. a \in Seq(Nat) /\ Len(a) = i - 1 /\ \A x \in 1 .. (i - 1) : a[x] = o[x]
  BY <1>1, <1>2, <1>3
<1>5. b \in Seq(Nat) /\ Len(b) = l - i /\ \A x \in 1 .. (l - i) : b[x] = o[x + i]
  BY <1>1, <1>2, <1>3
<1>6. t = a \o b
  BY <1>1, <1>2 DEF RemoveAt
<1>7. /\ t \in Seq(Nat) /\ Len(t) = Len(a) + Len(b)
      /\ \A x \in 1 .. Len(a) + Len(b) : t[x] = IF x <= Len(a) THEN a[x] ELSE b[x - Len(a)]
  <2>1. a \in Seq(Nat) /\ b \in Seq(Nat)
    BY <1>4, <1>5
  <2> QED BY ONLY <1>6, <2>1, ConcatProperties
<1>8. Len(t) = l - 1 /\ \A x \in 1 .. (l - 1) : t[x] = IF x <= i - 1 THEN a[x] ELSE b[x - (i - 1)]
  <2>1. (i - 1) + (l - i) = l - 1
    BY <1>1
  <2> QED BY <1>4, <1>5, <1>7, <2>1
<1>9. DOMAIN t = 1 .. (l - 1)
  BY <1>7, <1>8, LenProperties
<1>10. ASSUME NEW x \in 1 .. (l - 1)
       PROVE  /\ x < i => t[x] = o[x]
              /\ x >= i => t[x] = o[x + 1]
  <2>1. CASE x < i
    BY <1>1, <1>4, <1>8, <2>1
  <2>2. CASE x >= i
    <3>1. PICK y : y = x - (i - 1)
      OBVIOUS
    <3>2. y \in 1 .. (l - i) /\ y + i = x + 1 /\ ~(x <= i - 1)
      BY <1>1, <2>2, <3>1
    <3> QED BY <1>1, <1>5, <1>8, <2>2, <3>1, <3>2
  <2> QED BY <1>1, <2>1, <2>2
<1>11. PICK at : at = [x \in 1 .. (l - 1) |-> IF x < i THEN x ELSE x + 1]
  OBVIOUS
<1>12. \A x \in 1 .. (l - 1) : at[x] \in 1 .. l /\ at[x] # i /\ t[x] = o[at[x]]
  BY <1>1, <1>10, <1>11
<1>13. \A x, y \in 1 .. (l - 1) : at[x] = at[y] => x = y
  BY <1>1, <1>11
<1>14. at \in [DOMAIN t -> DOMAIN o] /\ t = [x \in DOMAIN t |-> o[at[x]]]
  <2>1. t \in [DOMAIN t -> Nat]
    BY <1>7, LenProperties
  <2> QED BY <1>1, <1>9, <1>11, <1>12, <2>1
<1>15. Range(at) = (1 .. l) \ {i}
  <2>1. ASSUME NEW y \in 1 .. l, y < i PROVE y \in 1 .. (l - 1) /\ at[y] = y
    BY <1>1, <1>11, <2>1
  <2>2. ASSUME NEW y \in 1 .. l, y > i PROVE y - 1 \in 1 .. (l - 1) /\ at[y - 1] = y
    BY <1>1, <1>11, <2>2
  <2>3. \A y \in 1 .. l : y = i \/ y < i \/ y > i
    BY <1>1
  <2>4. DOMAIN at = 1 .. (l - 1)
    BY <1>11
  <2>5. \A y \in (1 .. l) \ {i} : \E x \in 1 .. (l - 1) : at[x] = y
    BY <2>1, <2>2, <2>3
  <2>6. \A x \in 1 .. (l - 1) : at[x] \in (1 .. l) \ {i}
    BY <1>12
  <2> QED BY ONLY <2>4, <2>5, <2>6 DEF Range
<1>16. IsInjective(t) /\ Range(t) = {o[y] : y \in Range(at)}
  <2>1. IsInjective(at)
    BY <1>9, <1>13, <1>14 DEF IsInjective
  <2> QED BY <1>14, <2>1, Reindexed
<1>17. \A y \in 1 .. l : o[y] = o[i] => y = i
  BY <1>1 DEF IsInjective
<1>18. Range(t) = Range(o) \ {o[i]}
  BY <1>1, <1>15, <1>16, <1>17 DEF Range
<1> QED BY <1>7, <1>16, <1>18

\* Where a level stands in a list that has it.
LEMMA Place ==
  ASSUME NEW o \in Seq(Nat), NEW l \in Range(o)
  PROVE  Position(o, l) \in 1 .. Len(o) /\ o[Position(o, l)] = l
<1>1. \E i \in DOMAIN o : o[i] = l
  BY DEF Range
<1> QED BY <1>1, LenProperties DEF Position

-----------------------------------------------------------------------------
(* Changes of a list *)

\* One game gets another list.
LEMMA Relisted ==
  ASSUME EngineInv, NEW g \in DOMAIN games, NEW o, games' = [games EXCEPT ![g].order = o]
  PROVE  /\ games' \in Seq(Range(games')) /\ DOMAIN games' = DOMAIN games
         /\ games'[g].order = o /\ \A x \in DOMAIN games : x # g => games'[x] = games[x]
         /\ \A x \in DOMAIN games :
              /\ DOMAIN games'[x] = GameFields /\ games'[x].content = games[x].content
              /\ games'[x].pub = games[x].pub /\ games'[x].asset = games[x].asset
<1>1. PICK n : n = [games[g] EXCEPT !.order = o]
  OBVIOUS
<1>2. DOMAIN games[g] = GameFields /\ games \in Seq(Range(games))
  BY DEF EngineInv
<1>3. /\ DOMAIN n = GameFields /\ n.order = o /\ n.content = games[g].content
      /\ n.pub = games[g].pub /\ n.asset = games[g].asset
  BY <1>1, <1>2 DEF GameFields
<1>4. games' = [games EXCEPT ![g] = n]
  BY <1>1
<1>5. /\ games' \in Seq(Range(games')) /\ DOMAIN games' = DOMAIN games
      /\ games'[g] = n /\ \A x \in DOMAIN games : x # g => games'[x] = games[x]
  <2>1. games \in Seq(Range(games)) /\ g \in DOMAIN games /\ games' = [games EXCEPT ![g] = n]
    BY <1>2, <1>4
  <2> QED BY ONLY <2>1, Replaced
<1>6. \A x \in DOMAIN games : DOMAIN games[x] = GameFields
  BY DEF EngineInv
<1> QED BY <1>3, <1>5, <1>6

LEMMA AddedLevel ==
  ASSUME EngineInv, NEW g \in DOMAIN games, NEW c, NEW pub, AddLevel(g, c, pub)
  PROVE  /\ EngineInv' /\ DOMAIN games' = DOMAIN games
         /\ DOMAIN levels' = DOMAIN levels \cup {NewLevel} /\ NewLevel \notin DOMAIN levels
         /\ levels'[NewLevel].game = g /\ levels'[NewLevel].content = c /\ levels'[NewLevel].pub = pub
         /\ \A l \in DOMAIN levels : levels'[l] = levels[l]
         /\ games'[g].order # <<>> /\ Last(games'[g].order) = NewLevel
         /\ \A x \in DOMAIN games :
              /\ x # g => games'[x] = games[x]
              /\ games'[x].content = games[x].content
              /\ games'[x].pub = games[x].pub /\ games'[x].asset = games[x].asset
<1>1. PICK n : n = NewLevel
  OBVIOUS
<1>2. PICK new : new = [game |-> g, content |-> c, pub |-> pub]
  OBVIOUS
<1>3. levels' = Append(levels, new) /\ games' = [games EXCEPT ![g].order = Append(@, n)]
  BY <1>1, <1>2 DEF AddLevel
<1>4. /\ levels' \in Seq(Range(levels')) /\ DOMAIN levels' = DOMAIN levels \cup {n}
      /\ n \notin DOMAIN levels /\ n # 0 /\ levels'[n] = new
      /\ \A l \in DOMAIN levels : levels'[l] = levels[l]
  <2>1. levels \in Seq(Range(levels)) /\ levels' = Append(levels, new) /\ n = Len(levels) + 1
    BY <1>1, <1>3 DEF EngineInv, NewLevel
  <2>2. PICK s, t : s = levels /\ t = levels'
    OBVIOUS
  <2>3. s \in Seq(Range(s)) /\ t = Append(s, new)
    BY <2>1, <2>2
  <2>4. /\ t \in Seq(Range(t)) /\ DOMAIN t = DOMAIN s \cup {Len(s) + 1}
        /\ Len(s) + 1 \notin DOMAIN s /\ Len(s) + 1 # 0
        /\ t[Len(s) + 1] = new /\ \A j \in DOMAIN s : t[j] = s[j]
    <3>1. t \in Seq(Range(t)) /\ DOMAIN t = DOMAIN s \cup {Len(s) + 1}
      BY ONLY <2>3, Appended
    <3>2. Len(s) + 1 \notin DOMAIN s /\ Len(s) + 1 # 0
      BY ONLY <2>3, Appended
    <3>3. t[Len(s) + 1] = new /\ \A j \in DOMAIN s : t[j] = s[j]
      BY ONLY <2>3, Appended
    <3> QED BY <3>1, <3>2, <3>3
  <2> QED BY <2>1, <2>2, <2>4
<1>5. n \in Nat
  <2>1. Len(levels) \in Nat
    BY LenProperties DEF EngineInv
  <2> QED BY <1>1, <2>1 DEF NewLevel
<1>6. PICK o : o = games[g].order
  OBVIOUS
<1>7. /\ o \in Seq(Nat) /\ IsInjective(o) /\ Range(o) = {l \in DOMAIN levels : levels[l].game = g}
      /\ n \notin Range(o)
  BY <1>4, <1>6 DEF EngineInv
<1>8. PICK t : t = Append(o, n)
  OBVIOUS
<1>9. t \in Seq(Nat) /\ IsInjective(t) /\ Range(t) = Range(o) \cup {n} /\ t # <<>> /\ Last(t) = n
  BY <1>5, <1>7, <1>8, AppendedOrder
<1>10. games' = [games EXCEPT ![g].order = t]
  BY <1>3, <1>6, <1>8
<1>11. /\ games' \in Seq(Range(games')) /\ DOMAIN games' = DOMAIN games
       /\ games'[g].order = t /\ \A x \in DOMAIN games : x # g => games'[x] = games[x]
       /\ \A x \in DOMAIN games :
            /\ DOMAIN games'[x] = GameFields /\ games'[x].content = games[x].content
            /\ games'[x].pub = games[x].pub /\ games'[x].asset = games[x].asset
  BY <1>10, Relisted
<1>12. DOMAIN new = LevelFields /\ new.game = g /\ new.content = c /\ new.pub = pub
  BY <1>2 DEF LevelFields
<1>13. ASSUME NEW x \in DOMAIN games
       PROVE  /\ games'[x].order \in Seq(Nat) /\ IsInjective(games'[x].order)
              /\ Range(games'[x].order) = {l \in DOMAIN levels' : levels'[l].game = x}
  <2>1. CASE x = g
    BY <1>4, <1>7, <1>9, <1>11, <1>12, <2>1
  <2>2. CASE x # g
    <3>1. games'[x].order = games[x].order
      BY <1>11, <2>2
    <3>2. {l \in DOMAIN levels' : levels'[l].game = x} = {l \in DOMAIN levels : levels[l].game = x}
      BY <1>4, <1>12, <2>2
    <3> QED BY <3>1, <3>2 DEF EngineInv
  <2> QED BY <2>1, <2>2
<1>14. \A l \in DOMAIN levels' :
         DOMAIN levels'[l] = LevelFields /\ levels'[l].game \in {0} \cup DOMAIN games'
  BY <1>4, <1>11, <1>12 DEF EngineInv
<1>15. EngineInv'
  BY <1>4, <1>11, <1>13, <1>14 DEF EngineInv
<1> QED BY <1>1, <1>4, <1>9, <1>11, <1>12, <1>15

\* One game gets another list of the same levels.
LEMMA Reordered ==
  ASSUME EngineInv, NEW g \in DOMAIN games, NEW o \in Seq(Nat), IsInjective(o),
         Range(o) = Range(games[g].order), games' = [games EXCEPT ![g].order = o], levels' = levels
  PROVE  EngineInv'
<1>1. /\ games' \in Seq(Range(games')) /\ DOMAIN games' = DOMAIN games
      /\ games'[g].order = o /\ \A x \in DOMAIN games : x # g => games'[x] = games[x]
      /\ \A x \in DOMAIN games : DOMAIN games'[x] = GameFields
  BY Relisted
<1>2. ASSUME NEW x \in DOMAIN games
      PROVE  /\ games'[x].order \in Seq(Nat) /\ IsInjective(games'[x].order)
             /\ Range(games'[x].order) = {l \in DOMAIN levels : levels[l].game = x}
  BY <1>1 DEF EngineInv
<1> QED BY <1>1, <1>2 DEF EngineInv

LEMMA MovedUp ==
  ASSUME EngineInv, NEW g \in DOMAIN games, NEW l, MoveUp(g, l) \/ UNCHANGED games, levels' = levels
  PROVE  /\ EngineInv' /\ DOMAIN games' = DOMAIN games
         /\ \A x \in DOMAIN games :
              /\ x # g => games'[x] = games[x]
              /\ games'[x].content = games[x].content
              /\ games'[x].pub = games[x].pub /\ games'[x].asset = games[x].asset
<1>1. PICK o : o = games[g].order
  OBVIOUS
<1>2. o \in Seq(Nat) /\ IsInjective(o)
  BY <1>1 DEF EngineInv
<1>3. CASE games' = games
  BY <1>3 DEF EngineInv
<1>4. CASE games' # games
  <2>1. PICK i : i = Position(o, l)
    OBVIOUS
  <2>2. /\ l \in Range(o) /\ i > 1
        /\ games' = [games EXCEPT ![g].order = [o EXCEPT ![i] = o[i - 1], ![i - 1] = l]]
    BY <1>1, <1>4, <2>1 DEF MoveUp
  <2>3. i \in 1 .. Len(o) /\ o[i] = l
    BY <1>2, <2>1, <2>2, Place
  <2>4. PICK t : t = [[o EXCEPT ![i] = o[i - 1]] EXCEPT ![i - 1] = o[i]]
    OBVIOUS
  <2>5. games' = [games EXCEPT ![g].order = t]
    BY <2>2, <2>3, <2>4
  <2>6. t \in Seq(Nat) /\ IsInjective(t) /\ Range(t) = Range(o)
    BY <1>2, <2>2, <2>3, <2>4, SwappedOrder
  <2>7. EngineInv'
    BY <1>1, <2>5, <2>6, Reordered
  <2>8. /\ DOMAIN games' = DOMAIN games
        /\ \A x \in DOMAIN games :
             /\ x # g => games'[x] = games[x]
             /\ games'[x].content = games[x].content
             /\ games'[x].pub = games[x].pub /\ games'[x].asset = games[x].asset
    BY <2>5, Relisted
  <2> QED BY <2>7, <2>8
<1> QED BY <1>3, <1>4

LEMMA DeletedLevel ==
  ASSUME EngineInv, NEW l \in DOMAIN levels, OtherDeletes(l)
  PROVE  /\ EngineInv' /\ DOMAIN games' = DOMAIN games /\ DOMAIN levels' = DOMAIN levels
         /\ \A x \in DOMAIN levels : x # l => levels'[x] = levels[x]
         /\ levels'[l].pub = levels[l].pub
         /\ \A x \in DOMAIN games :
              /\ x # levels[l].game => games'[x] = games[x]
              /\ games'[x].content = games[x].content
              /\ games'[x].pub = games[x].pub /\ games'[x].asset = games[x].asset
<1>1. PICK g, n : g = levels[l].game /\ n = [levels[l] EXCEPT !.game = 0]
  OBVIOUS
<1>2. /\ g # 0 /\ levels' = [levels EXCEPT ![l] = n]
      /\ games' = [games EXCEPT ![g].order = RemoveAt(@, Position(@, l))]
  BY <1>1 DEF OtherDeletes
<1>3. DOMAIN levels[l] = LevelFields /\ g \in DOMAIN games
  BY <1>1, <1>2 DEF EngineInv
<1>4. DOMAIN n = LevelFields /\ n.game = 0 /\ n.pub = levels[l].pub
  BY <1>1, <1>3 DEF LevelFields
<1>5. /\ levels' \in Seq(Range(levels')) /\ DOMAIN levels' = DOMAIN levels
      /\ levels'[l] = n /\ \A x \in DOMAIN levels : x # l => levels'[x] = levels[x]
  BY <1>2, Replaced DEF EngineInv
<1>6. PICK o : o = games[g].order
  OBVIOUS
<1>7. /\ o \in Seq(Nat) /\ IsInjective(o) /\ Range(o) = {x \in DOMAIN levels : levels[x].game = g}
      /\ l \in Range(o)
  BY <1>1, <1>3, <1>6 DEF EngineInv
<1>8. PICK i, t : i = Position(o, l) /\ t = RemoveAt(o, i)
  OBVIOUS
<1>9. t \in Seq(Nat) /\ IsInjective(t) /\ Range(t) = Range(o) \ {l}
  <2>1. i \in 1 .. Len(o) /\ o[i] = l
    BY <1>7, <1>8, Place
  <2>2. t \in Seq(Nat) /\ IsInjective(t) /\ Range(t) = Range(o) \ {o[i]}
    BY <1>7, <1>8, <2>1, RemovedOrder
  <2> QED BY <2>1, <2>2
<1>10. games' = [games EXCEPT ![g].order = t]
  BY <1>2, <1>6, <1>8
<1>11. /\ games' \in Seq(Range(games')) /\ DOMAIN games' = DOMAIN games
       /\ games'[g].order = t /\ \A x \in DOMAIN games : x # g => games'[x] = games[x]
       /\ \A x \in DOMAIN games :
            /\ DOMAIN games'[x] = GameFields /\ games'[x].content = games[x].content
            /\ games'[x].pub = games[x].pub /\ games'[x].asset = games[x].asset
  BY <1>3, <1>10, Relisted
<1>12. 0 \notin DOMAIN games
  BY LenProperties DEF EngineInv
<1>13. ASSUME NEW x \in DOMAIN games
       PROVE  /\ games'[x].order \in Seq(Nat) /\ IsInjective(games'[x].order)
              /\ Range(games'[x].order) = {y \in DOMAIN levels' : levels'[y].game = x}
  <2>1. CASE x = g
    BY <1>4, <1>5, <1>7, <1>9, <1>11, <1>12, <2>1
  <2>2. CASE x # g
    <3>1. games'[x].order = games[x].order
      BY <1>11, <2>2
    <3>2. {y \in DOMAIN levels' : levels'[y].game = x} = {y \in DOMAIN levels : levels[y].game = x}
      BY <1>1, <1>4, <1>5, <1>12, <2>2
    <3> QED BY <3>1, <3>2 DEF EngineInv
  <2> QED BY <2>1, <2>2
<1>14. \A y \in DOMAIN levels' :
         DOMAIN levels'[y] = LevelFields /\ levels'[y].game \in {0} \cup DOMAIN games'
  BY <1>4, <1>5, <1>11 DEF EngineInv
<1>15. EngineInv'
  BY <1>5, <1>11, <1>13, <1>14 DEF EngineInv
<1> QED BY <1>1, <1>4, <1>5, <1>11, <1>15

LEMMA CreatedGame ==
  ASSUME EngineInv, CreateGame
  PROVE  /\ EngineInv' /\ levels' = levels /\ Len(games) + 1 \in DOMAIN games' /\ Len(games) + 1 # 0
         /\ DOMAIN games \subseteq DOMAIN games' /\ \A x \in DOMAIN games : games'[x] = games[x]
<1>1. PICK n, new : /\ n = Len(games) + 1
                    /\ new = [content |-> "seed", pub |-> "off", asset |-> "none", order |-> <<>>]
  OBVIOUS
<1>2. games' = Append(games, new) /\ levels' = levels
  BY <1>1 DEF CreateGame
<1>3. DOMAIN new = GameFields /\ new.order = <<>>
  BY <1>1 DEF GameFields
<1>4. /\ games' \in Seq(Range(games')) /\ DOMAIN games' = DOMAIN games \cup {n}
      /\ n \notin DOMAIN games /\ n # 0 /\ games'[n] = new
      /\ \A x \in DOMAIN games : games'[x] = games[x]
  <2>1. games \in Seq(Range(games)) /\ games' = Append(games, new) /\ n = Len(games) + 1
    BY <1>1, <1>2 DEF EngineInv
  <2>2. PICK s, t : s = games /\ t = games'
    OBVIOUS
  <2>3. s \in Seq(Range(s)) /\ t = Append(s, new)
    BY <2>1, <2>2
  <2>4. /\ t \in Seq(Range(t)) /\ DOMAIN t = DOMAIN s \cup {Len(s) + 1}
        /\ Len(s) + 1 \notin DOMAIN s /\ Len(s) + 1 # 0
        /\ t[Len(s) + 1] = new /\ \A j \in DOMAIN s : t[j] = s[j]
    <3>1. t \in Seq(Range(t)) /\ DOMAIN t = DOMAIN s \cup {Len(s) + 1}
      BY ONLY <2>3, Appended
    <3>2. Len(s) + 1 \notin DOMAIN s /\ Len(s) + 1 # 0
      BY ONLY <2>3, Appended
    <3>3. t[Len(s) + 1] = new /\ \A j \in DOMAIN s : t[j] = s[j]
      BY ONLY <2>3, Appended
    <3> QED BY <3>1, <3>2, <3>3
  <2> QED BY <2>1, <2>2, <2>4
<1>5. new.order \in Seq(Nat) /\ IsInjective(new.order) /\ Range(new.order) = {}
  BY <1>3 DEF IsInjective, Range
<1>6. {l \in DOMAIN levels : levels[l].game = n} = {}
  BY <1>4 DEF EngineInv
<1>7. ASSUME NEW x \in DOMAIN games'
      PROVE  /\ DOMAIN games'[x] = GameFields
             /\ games'[x].order \in Seq(Nat) /\ IsInjective(games'[x].order)
             /\ Range(games'[x].order) = {l \in DOMAIN levels : levels[l].game = x}
  BY <1>3, <1>4, <1>5, <1>6 DEF EngineInv
<1>8. EngineInv'
  BY <1>2, <1>4, <1>7 DEF EngineInv
<1> QED BY <1>1, <1>2, <1>4, <1>8

-----------------------------------------------------------------------------
(* Keys and steps *)

LEMMA KeysOnce ==
  /\ Count \in Nat /\ DOMAIN Scenario = 1 .. Count
  /\ \A i \in 1 .. Count : Scenario[i] \in Keys
  /\ \A i, j \in 1 .. Count : Scenario[i] = Scenario[j] => i = j
  /\ \A x \in Keys : \E i \in 1 .. Count : x = Scenario[i]
<1>1. Scenario \in Seq(Keys) /\ IsInjective(Scenario)
  BY ScenarioAssumption
<1>2. Count \in Nat /\ DOMAIN Scenario = 1 .. Count
  BY <1>1, LenProperties DEF Count
<1> QED BY <1>1, <1>2 DEF IsInjective, Keys, Range

\* A call that deals with a level deals with one of the scenario's.
LEMMA LevelTurn ==
  ASSUME NEW at \in Naming \cup Filling \cup {"move", "relist"} \cup Flagging \cup Applying, NEW k,
         Turn(at, k)
  PROVE  k \in 1 .. Count
BY DEF Turn, Levelless, Entering, Preparing, Naming, Filling, Flagging, Closing, Applying

LEMMA AtLevel ==
  ASSUME IInv, job.at \in Naming \cup Filling \cup {"move", "relist"} \cup Flagging \cup Applying
  PROVE  job.k \in 1 .. Count
BY LevelTurn DEF IInv, JobInv

LEMMA NamedNext ==
  /\ Named(0) = {} /\ Named(Count) = Keys
  /\ \A k \in 1 .. Count :
       /\ Named(k) = Named(k - 1) \cup {Scenario[k]} /\ Scenario[k] \notin Named(k - 1)
       /\ Named(k) \subseteq Keys /\ \A i \in 1 .. k : Scenario[i] \in Named(k)
<1>1. Named(0) = {} /\ Named(Count) = Keys
  BY KeysOnce DEF Named
<1>2. ASSUME NEW k \in 1 .. Count
      PROVE  /\ Named(k) = Named(k - 1) \cup {Scenario[k]} /\ Scenario[k] \notin Named(k - 1)
             /\ Named(k) \subseteq Keys /\ \A i \in 1 .. k : Scenario[i] \in Named(k)
  <2>1. /\ 1 .. k = 1 .. (k - 1) \cup {k} /\ k \notin 1 .. (k - 1)
        /\ 1 .. k \subseteq 1 .. Count
    BY KeysOnce
  <2> QED BY <2>1, KeysOnce DEF Named
<1> QED BY <1>1, <1>2

LEMMA StepTaken ==
  ASSUME DOMAIN job = JobFields, NEW at \in Places \ {"idle"}, NEW k,
         NEW report, DOMAIN report = ReportFields, Step(at, k, report)
  PROVE  /\ DOMAIN job' = JobFields /\ job'.at = at /\ job'.k = k /\ job'.kind = job.kind
         /\ job'.game = job.game /\ job'.ids = job.ids
         /\ DOMAIN r' = ReportFields /\ r'.gameID = report.gameID
         /\ r'.levelIDs = report.levelIDs /\ r'.completed = report.completed
         /\ r'.stage # "complete"
         /\ at \in Naming \cup Filling => r'.stage = "write_level"
         /\ at \in Applying => r'.stage = "apply"
         /\ at \in Naming \cup Filling \cup Applying \cup Flagging => r'.key = Scenario[k]
<1>1. PICK s : s = StageOf(at)
  OBVIOUS
<1>2. PICK key : key = IF s \in PerLevel THEN Scenario[k] ELSE ""
  OBVIOUS
<1>3. /\ job' = [[job EXCEPT !.at = at] EXCEPT !.k = k]
      /\ r' = [[report EXCEPT !.stage = s] EXCEPT !.key = key]
  BY <1>1, <1>2 DEF Step
<1>4. /\ DOMAIN job' = JobFields /\ job'.at = at /\ job'.k = k /\ job'.kind = job.kind
      /\ job'.game = job.game /\ job'.ids = job.ids
  BY <1>3 DEF JobFields
<1>5. /\ DOMAIN r' = ReportFields /\ r'.gameID = report.gameID
      /\ r'.levelIDs = report.levelIDs /\ r'.completed = report.completed
      /\ r'.stage = s /\ r'.key = key
  BY <1>3 DEF ReportFields
<1>6. /\ s # "complete"
      /\ at \in Naming \cup Filling => s = "write_level"
      /\ at \in Applying => s = "apply"
      /\ at \in Flagging => s = "restore_level_flags"
  BY <1>1 DEF StageOf, Places, Entering, Importing, Preparing, Naming, Filling, Ordering,
              Flagging, Closing, Applying
<1>7. at \in Naming \cup Filling \cup Applying \cup Flagging => key = Scenario[k]
  BY <1>2, <1>6 DEF PerLevel
<1> QED BY <1>4, <1>5, <1>6, <1>7

LEMMA Recording ==
  ASSUME DOMAIN r = ReportFields, NEW l, NEW s, s = Recorded(l)
  PROVE  /\ DOMAIN s = ReportFields /\ s.gameID = r.gameID /\ s.completed = r.completed
         /\ s.stage = r.stage /\ s.key = r.key
         /\ DOMAIN s.levelIDs = DOMAIN r.levelIDs \cup {Key} /\ s.levelIDs[Key] = l
         /\ \A x \in DOMAIN r.levelIDs : x # Key => s.levelIDs[x] = r.levelIDs[x]
<1>1. PICK f : f = [x \in DOMAIN r.levelIDs \cup {Key} |-> IF x = Key THEN l ELSE r.levelIDs[x]]
  OBVIOUS
<1>2. s = [r EXCEPT !.levelIDs = f]
  BY <1>1 DEF Recorded
<1>3. /\ DOMAIN s = ReportFields /\ s.gameID = r.gameID /\ s.completed = r.completed
      /\ s.stage = r.stage /\ s.key = r.key /\ s.levelIDs = f
  BY <1>2 DEF ReportFields
<1>4. /\ DOMAIN f = DOMAIN r.levelIDs \cup {Key} /\ f[Key] = l
      /\ \A x \in DOMAIN r.levelIDs : x # Key => f[x] = r.levelIDs[x]
  BY <1>1
<1> QED BY <1>3, <1>4

LEMMA Returned ==
  ASSUME DOMAIN job = JobFields, NEW report, Return(report)
  PROVE  /\ DOMAIN job' = JobFields /\ job'.at = "idle" /\ job'.k = 1 /\ job'.kind = job.kind
         /\ r' = report
<1>1. job' = [[[job EXCEPT !.at = "idle"] EXCEPT !.k = 1] EXCEPT !.ids = <<>>] /\ r' = report
  BY DEF Return
<1> QED BY <1>1 DEF JobFields

LEMMA Completing ==
  ASSUME NEW s, DOMAIN s = ReportFields, NEW t, t = [s EXCEPT !.complete = TRUE]
  PROVE  /\ DOMAIN t = ReportFields /\ t.gameID = s.gameID /\ t.completed = s.completed
         /\ t.levelIDs = s.levelIDs /\ t.stage = s.stage /\ t.key = s.key
BY DEF ReportFields

LEMMA Doing ==
  ASSUME NEW s, DOMAIN s = ReportFields, NEW c, NEW t, t = [s EXCEPT !.completed = c]
  PROVE  /\ DOMAIN t = ReportFields /\ t.gameID = s.gameID /\ t.completed = c
         /\ t.levelIDs = s.levelIDs /\ t.stage = s.stage /\ t.key = s.key
BY DEF ReportFields

\* One more key in the report's list of what is done.
LEMMA DoneKey ==
  ASSUME ReportInv, job.k \in 1 .. Count, Len(r.completed) = job.k - 1,
         NEW c, c = Append(r.completed, Key)
  PROVE  /\ c \in Seq(Keys) /\ Len(c) = job.k
         /\ \A i \in DOMAIN c : i \in 1 .. Count /\ c[i] = Scenario[i]
<1>1. r.completed \in Seq(Keys) /\ Key = Scenario[job.k] /\ Key \in Keys
  BY KeysOnce DEF ReportInv, Key
<1>2. DOMAIN r.completed = 1 .. (job.k - 1)
  BY <1>1, LenProperties
<1>3. \A i \in 1 .. (job.k - 1) : r.completed[i] = Scenario[i]
  BY <1>2 DEF ReportInv
<1>4. job.k \in Nat /\ Count \in Nat /\ job.k - 1 \in Nat /\ job.k \in 1 .. Count
  BY KeysOnce
<1>5. c \in Seq(Keys) /\ Len(c) = job.k /\ c[job.k] = Key /\ \A i \in 1 .. (job.k - 1) : c[i] = r.completed[i]
  BY <1>1, <1>4
<1>6. DOMAIN c = 1 .. job.k
  BY <1>5, LenProperties
<1> QED BY <1>1, <1>3, <1>4, <1>5, <1>6

-----------------------------------------------------------------------------
(* What has to be shown of a step *)

LEMMA TruthOfReport == ReportInv /\ TruthInv => ReportTellsTruth
<1> SUFFICES ASSUME ReportInv, TruthInv PROVE ReportTellsTruth
  OBVIOUS
<1>1. ASSUME NEW i \in DOMAIN r.completed
      PROVE  LET l == r.levelIDs[r.completed[i]]
             IN \/ <<"level", l>> \in touched \/ raced
                \/ /\ l \in DOMAIN levels /\ levels[l].game = r.gameID
                   /\ \/ levels[l].content = r.completed[i]
                      \/ /\ levels[l].content = "altered"
                         /\ job.kind # "import" \/ r.key = r.completed[i]
  <2>1. r.completed[i] = Scenario[i] /\ i \in 1 .. Len(r.completed)
    BY LenProperties DEF ReportInv
  <2> QED BY <2>1 DEF TruthInv, Told, Id, InGame
<1> QED BY <1>1 DEF ReportTellsTruth, TruthInv, Spare

\* While a call goes on, what it made is in its report but for the level it looks for.
LEMMA SpareNext ==
  ASSUME JobInv', ReportInv', MadeInv', job'.at # "idle"
  PROVE  Spare'
<1> SUFFICES ASSUME ~raced', NEW l \in made' \ Range(r'.levelIDs)
             PROVE  /\ made' \ Range(r'.levelIDs) = {l}
                    /\ r'.key \notin DOMAIN r'.levelIDs /\ r'.stage \in {"write_level", "apply"}
  BY DEF Spare
<1>1. made' \ Range(r'.levelIDs) \subseteq Pending'
  BY DEF MadeInv
<1>2. job'.at \in Finding /\ made' \ Range(r'.levelIDs) = {l}
  BY <1>1 DEF Pending
<1>3. /\ r'.key = Scenario[job'.k] /\ DOMAIN r'.levelIDs = Named(job'.k - 1)
      /\ r'.stage \in {"write_level", "apply"} /\ job'.k \in 1 .. Count
  BY <1>2, LevelTurn DEF ReportInv, JobInv, Finding, Naming, Applying
<1> QED BY <1>2, <1>3, NamedNext

LEMMA AgainRaced ==
  ASSUME MadeInv', ReportInv', NEW i \in 1 .. Len(r'.completed), Again(i)'
  PROVE  raced'
<1>1. PICK j \in 1 .. Count : i < j /\ Scenario[j] \in DOMAIN r'.levelIDs /\ Id(j)' = Id(i)'
  BY DEF Again
<1>2. i \in 1 .. Count /\ Scenario[i] \in DOMAIN r'.levelIDs
  <2>1. i \in DOMAIN r'.completed /\ Len(r'.completed) \in Nat
    BY LenProperties DEF ReportInv
  <2>2. Len(r'.completed) <= Count /\ Scenario[i] \in DOMAIN r'.levelIDs
    BY <2>1 DEF ReportInv
  <2> QED BY <2>1, <2>2, KeysOnce
<1>3. Scenario[i] # Scenario[j]
  BY <1>1, <1>2, KeysOnce
<1>4. ~IsInjective(r'.levelIDs)
  BY <1>1, <1>2, <1>3 DEF Id, IsInjective
<1> QED BY <1>4 DEF MadeInv

LEMMA ToldNext ==
  ASSUME ReportInv', MadeInv', ContentInv', job'.at \in Importing \/ Complete',
         job'.at = "verify_flags" => Told(job.k)' 
  PROVE  \A i \in 1 .. Len(r'.completed) : Told(i)'
<1> SUFFICES ASSUME NEW i \in 1 .. Len(r'.completed) PROVE Told(i)'
  OBVIOUS
<1>1. Holds(i, Restored(i))' \/ Again(i)' \/ (i = job'.k /\ job'.at = "verify_flags")
  BY DEF ContentInv
<1>2. CASE Holds(i, Restored(i))'
  BY <1>2 DEF Holds, Told
<1>3. CASE Again(i)'
  BY <1>3, AgainRaced DEF Told
<1>4. CASE i = job'.k /\ job'.at = "verify_flags"
  BY <1>4 DEF Told, Id
<1> QED BY <1>1, <1>2, <1>3, <1>4

LEMMA Going ==
  ASSUME EngineInv', JobInv', ReportInv', MadeInv', ContentInv', OrderInv', GameInv',
         job'.at \in Importing, job'.at = "verify_flags" => Told(job.k)'
  PROVE  IInv'
<1>1. job'.at # "idle"
  BY DEF Importing, Preparing, Naming, Filling, Ordering, Flagging, Closing
<1>2. TruthInv'
  BY <1>1, SpareNext, ToldNext DEF TruthInv
<1> QED BY <1>2 DEF IInv

LEMMA Idle ==
  ASSUME EngineInv', ReportInv', TruthInv', DOMAIN job' = JobFields, job'.at = "idle", job'.k = 1,
         job'.kind \in {"import", "create", "update"}, ~Complete',
         ~raced' => IsInjective(r'.levelIDs)
  PROVE  IInv'
<1>1. JobInv'
  BY DEF JobInv, Turn, Levelless, Places, Importing, Preparing, Naming, Filling, Ordering, Flagging,
         Closing, Applying
<1>2. MadeInv'
  BY DEF MadeInv, Finding
<1>3. ContentInv' /\ OrderInv' /\ GameInv'
  BY DEF ContentInv, OrderInv, GameInv, Importing, Preparing, Naming, Filling, Ordering, Flagging,
         Closing, Listed, Aligned
<1> QED BY <1>1, <1>2, <1>3 DEF IInv

\* The call stops where it is.
LEMMA Stopped ==
  ASSUME IInv, job.at # "idle", Stop, EngineInv', DOMAIN games \subseteq DOMAIN games',
         DOMAIN levels \subseteq DOMAIN levels', made' \subseteq DOMAIN levels', raced' = raced,
         TruthInv'
  PROVE  IInv'
<1>1. /\ DOMAIN job' = JobFields /\ job'.at = "idle" /\ job'.k = 1 /\ job'.kind = job.kind
      /\ r' = r
  BY Returned DEF IInv, JobInv, Stop
<1>2. ~Complete'
  BY <1>1 DEF IInv, ReportInv, Complete
<1>3. ReportInv'
  BY <1>1, <1>2 DEF IInv, ReportInv, Entering, Importing, Preparing, Naming, Filling, Ordering, Flagging,
                    Closing, Applying
<1>4. job'.kind \in {"import", "create", "update"} /\ (~raced' => IsInjective(r'.levelIDs))
  BY <1>1 DEF IInv, JobInv, MadeInv
<1> QED BY <1>1, <1>2, <1>3, <1>4, Idle


-----------------------------------------------------------------------------
(* Steps of an import in general *)

LEMMA GameWith ==
  ASSUME EngineInv, NEW g \in DOMAIN games, NEW n, DOMAIN n = GameFields, n.order = games[g].order,
         games' = [games EXCEPT ![g] = n], levels' = levels
  PROVE  /\ EngineInv' /\ DOMAIN games' = DOMAIN games /\ games'[g] = n
         /\ \A x \in DOMAIN games : x # g => games'[x] = games[x]
<1>1. games \in Seq(Range(games)) /\ g \in DOMAIN games /\ games' = [games EXCEPT ![g] = n]
  BY DEF EngineInv
<1>2. /\ games' \in Seq(Range(games')) /\ DOMAIN games' = DOMAIN games
      /\ games'[g] = n /\ \A x \in DOMAIN games : x # g => games'[x] = games[x]
  BY ONLY <1>1, Replaced
<1>3. EngineInv'
  BY <1>2, EngineKept DEF EngineInv
<1> QED BY <1>2, <1>3

LEMMA LevelWith ==
  ASSUME EngineInv, NEW l \in DOMAIN levels, NEW n, DOMAIN n = LevelFields, n.game = levels[l].game,
         levels' = [levels EXCEPT ![l] = n], games' = games
  PROVE  /\ EngineInv' /\ DOMAIN levels' = DOMAIN levels /\ levels'[l] = n
         /\ \A x \in DOMAIN levels : x # l => levels'[x] = levels[x]
<1>1. levels \in Seq(Range(levels)) /\ l \in DOMAIN levels /\ levels' = [levels EXCEPT ![l] = n]
  BY DEF EngineInv
<1>2. /\ levels' \in Seq(Range(levels')) /\ DOMAIN levels' = DOMAIN levels
      /\ levels'[l] = n /\ \A x \in DOMAIN levels : x # l => levels'[x] = levels[x]
  BY ONLY <1>1, Replaced
<1>3. EngineInv'
  BY <1>2, EngineKept DEF EngineInv
<1> QED BY <1>2, <1>3

\* What Step leaves of the call and its report.
Went(at, k) ==
  /\ DOMAIN job' = JobFields /\ job'.at = at /\ job'.k = k /\ job'.kind = job.kind
  /\ job'.game = job.game /\ job'.ids = job.ids
  /\ DOMAIN r' = ReportFields /\ r'.stage # "complete"
  /\ at \in Naming \cup Filling => r'.stage = "write_level"
  /\ at \in Applying => r'.stage = "apply"
  /\ at \in Naming \cup Filling \cup Applying \cup Flagging => r'.key = Scenario[k]
SameReport == r'.gameID = r.gameID /\ r'.levelIDs = r.levelIDs /\ r'.completed = r.completed

LEMMA WentOn ==
  ASSUME IInv, NEW at \in Places \ {"idle"}, NEW k, Step(at, k, r)
  PROVE  Went(at, k) /\ SameReport
<1>1. DOMAIN job = JobFields /\ DOMAIN r = ReportFields
  BY DEF IInv, JobInv, ReportInv
<1> QED BY <1>1, StepTaken DEF Went, SameReport

LEMMA JobNext ==
  ASSUME IInv, NEW at, NEW k, Turn(at, k), Went(at, k), DOMAIN levels \subseteq DOMAIN levels',
         job.at \in Importing, at \in Importing, at = "find_level" => DOMAIN job.ids = {}
  PROVE  JobInv'
<1>1. at # "idle" /\ job.at # "idle" /\ job.kind = "import" /\ at \notin Applying /\ at # "preflight"
      /\ job.at # "preflight" /\ at # "create_game"
  BY DEF IInv, JobInv, Importing, Preparing, Naming, Filling, Ordering, Flagging, Closing, Applying
<1>2. at \in Places /\ at # "find_applied"
  BY <1>1 DEF Places, Applying
<1> QED BY <1>1, <1>2 DEF IInv, JobInv, Went

LEMMA ReportNext ==
  ASSUME IInv, NEW at, NEW k, Went(at, k), SameReport,
         DOMAIN games \subseteq DOMAIN games', DOMAIN levels \subseteq DOMAIN levels',
         made' \subseteq DOMAIN levels', job.at \in Importing, at \in Importing,
         at \in Preparing => job.at \in Preparing,
         at \in Naming => (job.at \in Preparing /\ k = 1) \/ (job.at \in Naming /\ k = job.k),
         at \in Filling => job.at \in Filling /\ k = job.k,
         at \in Ordering \cup Flagging \cup Closing =>
           job.at \in Ordering \cup Flagging \cup Closing \/ (job.at \in Preparing /\ Count = 0)
  PROVE  ReportInv'
<1>1. /\ r'.gameID \in {0} \cup DOMAIN games' /\ r'.gameID # 0
      /\ DOMAIN r'.levelIDs \subseteq Keys
      /\ \A x \in DOMAIN r'.levelIDs : r'.levelIDs[x] \in DOMAIN levels'
      /\ r'.completed \in Seq(Keys) /\ Len(r'.completed) <= Count
      /\ \A i \in DOMAIN r'.completed : r'.completed[i] = Scenario[i]
                                      /\ Scenario[i] \in DOMAIN r'.levelIDs
  BY DEF IInv, ReportInv, SameReport
<1>2. ~Complete' /\ at \notin Entering /\ at \notin Applying
  BY DEF Went, Complete, Importing, Preparing, Naming, Filling, Ordering, Flagging, Closing,
         Entering, Applying
<1>3. at \in Preparing => r'.completed = <<>> /\ DOMAIN r'.levelIDs = {}
  BY DEF IInv, ReportInv, SameReport
<1>4. ASSUME at \in Naming
      PROVE  Len(r'.completed) = k - 1 /\ DOMAIN r'.levelIDs = Named(k - 1)
  <2>1. CASE job.at \in Preparing /\ k = 1
    <3>1. Len(r.completed) = 0 /\ k - 1 = 0
      BY <2>1, EmptySeq DEF IInv, ReportInv
    <3> QED BY <2>1, <3>1, NamedNext, ZenonT(60) DEF IInv, ReportInv, SameReport
  <2>2. CASE job.at \in Naming /\ k = job.k
    BY <2>2 DEF IInv, ReportInv, SameReport
  <2> QED BY <1>4, <2>1, <2>2
<1>5. at \in Filling => Len(r'.completed) = k - 1 /\ DOMAIN r'.levelIDs = Named(k)
  BY DEF IInv, ReportInv, SameReport
<1>6. ASSUME at \in Ordering \cup Flagging \cup Closing
      PROVE  Len(r'.completed) = Count /\ DOMAIN r'.levelIDs = Keys
  <2>1. CASE job.at \in Preparing /\ Count = 0
    <3>1. Len(<<>>) = 0 /\ Keys = {}
      BY <2>1, EmptySeq, KeysOnce
    <3> QED BY <2>1, <3>1 DEF IInv, ReportInv, SameReport
  <2>2. CASE job.at \in Ordering \cup Flagging \cup Closing
    BY <2>2 DEF IInv, ReportInv, SameReport
  <2> QED BY <1>6, <2>1, <2>2
<1> QED BY <1>1, <1>2, <1>3, <1>4, <1>5, <1>6 DEF Went, ReportInv

-----------------------------------------------------------------------------
(* The game *)

LEMMA Prepared ==
  ASSUME IInv, job.at \in Entering \cup Preparing, NEW at \in Preparing \cup {"write_level", "list"}, NEW k,
         Went(at, k), EngineInv', JobInv', ReportInv',
         r'.levelIDs = r.levelIDs, r'.completed = r.completed, made' = made, raced' = raced,
         at # "upload_asset" => <<"asset", r'.gameID>> \in touched'
                                \/ games'[r'.gameID].asset = "same"
  PROVE  IInv'
<1>1. DOMAIN r.levelIDs = {} /\ r.completed = <<>> /\ job.at # "idle" /\ job.at \notin Finding
  BY DEF IInv, ReportInv, Entering, Preparing, Finding
<1>2. /\ job'.at = at /\ at \in Importing /\ at # "idle" /\ ~Complete' /\ at \notin Finding
      /\ at \notin Flagging \cup Closing /\ at # "move" /\ at # "verify_flags"
  BY DEF Went, Complete, Importing, Preparing, Naming, Filling, Ordering, Flagging, Closing, Finding
<1>3. MadeInv'
  <2>1. ~raced => made \ Range(r.levelIDs) \subseteq {}
    BY <1>1 DEF IInv, MadeInv, Pending
  <2>2. IsInjective(r.levelIDs)
    BY <1>1 DEF IsInjective
  <2> QED BY <1>1, <1>2, <2>1, <2>2 DEF MadeInv, Pending, Finding
<1>4. ContentInv'
  <2>1. Len(r'.completed) = 0
    BY <1>1, EmptySeq
  <2> QED BY <1>2, <2>1 DEF ContentInv
<1>5. OrderInv'
  BY <1>2 DEF OrderInv, Listed, Aligned
<1>6. GameInv'
  BY <1>2 DEF GameInv
<1> QED BY <1>2, <1>3, <1>4, <1>5, <1>6, Going

\* A call stops before it has recorded a level, or after a write that is not to one.
LEMMA StoppedHere ==
  ASSUME IInv, job.at # "idle", Stop, EngineInv', DOMAIN games \subseteq DOMAIN games',
         levels' = levels, made' = made, raced' = raced,
         \A l \in DOMAIN levels : <<"level", l>> \in touched => <<"level", l>> \in touched'
  PROVE  IInv'
<1>1. job'.kind = job.kind /\ r' = r
  BY Returned DEF IInv, JobInv, Stop
<1>2. ASSUME NEW i \in 1 .. Len(r.completed) PROVE Told(i)'
  <2>1. Told(i)
    BY DEF IInv, TruthInv
  <2>2. i \in DOMAIN r.completed
    BY LenProperties DEF IInv, ReportInv
  <2>3. Id(i) \in DOMAIN levels /\ Id(i)' = Id(i)
    BY <1>1, <2>2 DEF IInv, ReportInv, Id
  <2> QED BY <1>1, <2>1, <2>3 DEF Told, InGame
<1>3. Spare'
  BY <1>1 DEF IInv, TruthInv, Spare
<1>4. TruthInv'
  BY <1>1, <1>2, <1>3 DEF TruthInv
<1> QED BY <1>4, Stopped DEF IInv, ReportInv

LEMMA PreflightKeeps == IInv /\ Preflight => IInv'
<1> SUFFICES ASSUME IInv, Preflight PROVE IInv'
  OBVIOUS
<1>1. /\ job.kind = "import" /\ job.at = "preflight" /\ games' = games /\ levels' = levels
      /\ UNCHANGED <<seen, touched, made, raced>>
  BY DEF Preflight, engine
<1>2. EngineInv'
  BY <1>1 DEF IInv, EngineInv
<1>3. DOMAIN r.levelIDs = {} /\ r.completed = <<>> /\ DOMAIN r = ReportFields /\ DOMAIN job = JobFields
  BY <1>1 DEF IInv, ReportInv, JobInv, Entering
<1>4. CASE job.game = 0
  <2>1. job.ids = <<>> /\ Step("create_game", 1, r)
    BY <1>4 DEF Preflight
  <2>2. "create_game" \in Places \ {"idle"}
    BY DEF Places, Entering
  <2>3. Went("create_game", 1) /\ SameReport
    BY <2>1, <2>2, WentOn
  <2>4. JobInv'
    <3>1. job'.at = "create_game" /\ job'.kind = "import" /\ job'.ids = <<>> /\ job'.k = 1
          /\ job'.at \in Entering
      BY <1>1, <2>1, <2>3 DEF Went, Entering
    <3>2. DOMAIN job'.ids = {} /\ IsInjective(job'.ids)
      BY <3>1 DEF IsInjective
    <3> QED BY <2>2, <2>3, <3>1, <3>2 DEF JobInv, Went, Applying, Turn, Levelless
  <2>5. job'.at = "create_game" /\ ~Complete' /\ job'.at \notin Importing \cup Applying
        /\ job'.at # "idle" /\ job'.at \notin Finding
    BY <2>3 DEF Went, Complete, Importing, Preparing, Naming, Filling, Ordering, Flagging, Closing,
                Applying, Finding
  <2>6. ReportInv'
    <3>1. /\ r'.gameID \in {0} \cup DOMAIN games' /\ DOMAIN r'.levelIDs = {} /\ r'.completed = <<>>
          /\ made' \subseteq DOMAIN levels'
      BY <1>1, <1>3, <2>3 DEF SameReport, IInv, ReportInv
    <3>2. <<>> \in Seq(Keys) /\ Len(<<>>) = 0 /\ DOMAIN <<>> = {}
      BY EmptySeq
    <3> QED BY <2>3, <2>5, <3>1, <3>2, KeysOnce DEF ReportInv, Went, Importing, Naming, Filling, Ordering,
                                                    Flagging, Closing
  <2>7. MadeInv'
    <3>1. ~raced => made \ Range(r.levelIDs) \subseteq {}
      BY <1>1 DEF IInv, MadeInv, Pending, Finding
    <3>2. IsInjective(r.levelIDs)
      BY <1>3 DEF IsInjective
    <3> QED BY <1>1, <1>3, <2>3, <2>5, <3>1, <3>2 DEF MadeInv, SameReport, Pending, Finding
  <2>8. ContentInv' /\ OrderInv' /\ GameInv'
    BY <2>5 DEF ContentInv, OrderInv, GameInv, Listed, Aligned, Importing, Ordering, Flagging, Closing
  <2>9. TruthInv'
    <3>1. Len(r'.completed) = 0
      BY <1>3, <2>3, EmptySeq DEF SameReport
    <3>2. Spare'
      BY <2>4, <2>5, <2>6, <2>7, SpareNext
    <3> QED BY <3>1, <3>2 DEF TruthInv
  <2> QED BY <1>2, <2>4, <2>6, <2>7, <2>8, <2>9 DEF IInv
<1>5. CASE job.game # 0
  <2>1. PICK s : s = [r EXCEPT !.gameID = job.game]
    OBVIOUS
  <2>2. /\ job.game \in DOMAIN games /\ MappingValid(games[job.game].order, job.ids)
        /\ Step("upload_asset", 1, s)
    BY <1>5, <2>1 DEF Preflight
  <2>3. /\ DOMAIN s = ReportFields /\ s.gameID = job.game /\ s.levelIDs = r.levelIDs
        /\ s.completed = r.completed
    BY <1>3, <2>1 DEF ReportFields
  <2>4. "upload_asset" \in Places \ {"idle"} /\ "upload_asset" \in Preparing
    BY DEF Places, Importing, Preparing
  <2>5. /\ Went("upload_asset", 1) /\ r'.gameID = job.game /\ r'.levelIDs = r.levelIDs
        /\ r'.completed = r.completed
    BY <1>3, <2>2, <2>3, <2>4, StepTaken DEF Went
  <2>6. IsInjective(job.ids)
    <3>1. CASE games[job.game].order = <<>>
      <4>1. job.ids = <<>>
        BY <2>2, <3>1 DEF MappingValid
      <4>2. DOMAIN job.ids = {}
        BY <4>1
      <4> QED BY <4>2 DEF IsInjective
    <3>2. CASE games[job.game].order # <<>>
      BY <2>2, <3>2 DEF MappingValid
    <3> QED BY <3>1, <3>2
  <2>7. JobInv'
    <3>1. job'.at = "upload_asset" /\ job'.kind = "import" /\ job'.ids = job.ids /\ job'.k = 1
      BY <1>1, <2>5 DEF Went
    <3>2. DOMAIN job.ids \in {{}, Keys} /\ \A x \in DOMAIN job.ids : job.ids[x] \in DOMAIN levels'
      BY <1>1 DEF IInv, JobInv
    <3> QED BY <2>4, <2>5, <2>6, <3>1, <3>2 DEF JobInv, Went, Applying, Turn, Levelless
  <2>8. ReportInv'
    <3>1. /\ r'.gameID \in DOMAIN games' /\ r'.gameID # 0 /\ DOMAIN r'.levelIDs = {}
          /\ r'.completed = <<>> /\ made' \subseteq DOMAIN levels'
      BY <1>1, <1>3, <1>5, <2>2, <2>5 DEF IInv, ReportInv
    <3>2. <<>> \in Seq(Keys) /\ Len(<<>>) = 0 /\ DOMAIN <<>> = {}
      BY EmptySeq
    <3>3. job'.at = "upload_asset" /\ ~Complete'
      BY <2>5 DEF Went, Complete
    <3> QED BY <2>5, <3>1, <3>2, <3>3, KeysOnce DEF ReportInv, Went, Naming, Filling, Ordering,
                                                    Flagging, Closing, Applying
  <2> QED BY <1>1, <1>2, <2>4, <2>5, <2>7, <2>8, Prepared DEF Entering
<1> QED BY <1>4, <1>5

LEMMA CreateGameKeeps == IInv /\ CreateGame => IInv'
<1> SUFFICES ASSUME IInv, CreateGame PROVE IInv'
  OBVIOUS
<1>1. PICK g : g = Len(games) + 1
  OBVIOUS
<1>2. PICK s : s = [[r EXCEPT !.gameID = g] EXCEPT !.createdGame = TRUE]
  OBVIOUS
<1>3. /\ job.at = "create_game" /\ UNCHANGED <<seen, touched, made, raced>>
      /\ Step("upload_asset", 1, s) \/ Stop
  BY <1>1, <1>2 DEF CreateGame, Carry
<1>4. /\ EngineInv' /\ levels' = levels /\ g \in DOMAIN games' /\ g # 0
      /\ DOMAIN games \subseteq DOMAIN games'
  BY <1>1, CreatedGame DEF IInv
<1>5. /\ DOMAIN r.levelIDs = {} /\ r.completed = <<>> /\ DOMAIN r = ReportFields
      /\ DOMAIN job = JobFields
  BY <1>3 DEF IInv, ReportInv, JobInv, Entering
<1>6. CASE Stop
  BY <1>3, <1>4, <1>6, StoppedHere
<1>7. CASE Step("upload_asset", 1, s)
  <2>1. /\ DOMAIN s = ReportFields /\ s.gameID = g /\ s.levelIDs = r.levelIDs
        /\ s.completed = r.completed
    BY <1>2, <1>5 DEF ReportFields
  <2>2. "upload_asset" \in Places \ {"idle"} /\ "upload_asset" \in Preparing
    BY DEF Places, Importing, Preparing
  <2>3. /\ Went("upload_asset", 1) /\ r'.gameID = g /\ r'.levelIDs = r.levelIDs
        /\ r'.completed = r.completed
    BY <1>5, <1>7, <2>1, <2>2, StepTaken DEF Went
  <2>4. JobInv'
    <3>1. job'.at = "upload_asset" /\ job'.kind = "import" /\ job'.ids = job.ids /\ job'.k = 1
      BY <1>3, <2>3 DEF Went, IInv, JobInv
    <3>2. DOMAIN job.ids \in {{}, Keys} /\ IsInjective(job.ids)
          /\ \A x \in DOMAIN job.ids : job.ids[x] \in DOMAIN levels'
      BY <1>3, <1>4 DEF IInv, JobInv
    <3> QED BY <2>2, <2>3, <3>1, <3>2 DEF JobInv, Went, Applying, Turn, Levelless
  <2>5. ReportInv'
    <3>1. /\ r'.gameID \in DOMAIN games' /\ r'.gameID # 0 /\ DOMAIN r'.levelIDs = {}
          /\ r'.completed = <<>> /\ made' \subseteq DOMAIN levels'
      BY <1>3, <1>4, <1>5, <2>3 DEF IInv, ReportInv
    <3>2. <<>> \in Seq(Keys) /\ Len(<<>>) = 0 /\ DOMAIN <<>> = {}
      BY EmptySeq
    <3>3. job'.at = "upload_asset" /\ ~Complete'
      BY <2>3 DEF Went, Complete
    <3> QED BY <2>3, <3>1, <3>2, <3>3, KeysOnce DEF ReportInv, Went, Naming, Filling, Ordering,
                                                    Flagging, Closing, Applying
  <2> QED BY <1>3, <1>4, <2>2, <2>3, <2>4, <2>5, Prepared DEF Entering
<1> QED BY <1>3, <1>6, <1>7

\* A request about the game, from one place of the preparation to the next.
LEMMA PreparingOn ==
  ASSUME IInv, job.at \in Preparing,
         NEW at \in {"write_game", "verify_game", "write_level", "list"},
         at = "write_level" => Count > 0, at = "list" => Count = 0, Carry(at, 1, r), EngineInv', levels' = levels, DOMAIN games' = DOMAIN games,
         UNCHANGED <<made, raced>>,
         \A l \in DOMAIN levels : <<"level", l>> \in touched => <<"level", l>> \in touched',
         <<"asset", r.gameID>> \in touched' \/ games'[r.gameID].asset = "same"
  PROVE  IInv'
<1>1. job.at # "idle" /\ job.at \in Importing
  BY DEF Preparing, Importing
<1>2. CASE Stop
  BY <1>1, <1>2, StoppedHere
<1>3. CASE Step(at, 1, r)
  <2>1. /\ at \in Places \ {"idle"} /\ at \in Importing /\ at \in Preparing \cup {"write_level", "list"}
        /\ at \notin Filling /\ at \notin Flagging \cup Closing /\ at # "find_level"
        /\ at \in Ordering => at = "list"
        /\ "list" \notin Preparing \cup Naming
    BY DEF Places, Importing, Preparing, Naming, Filling, Ordering, Flagging, Closing
  <2>2. Went(at, 1) /\ SameReport
    BY <1>3, <2>1, WentOn
  <2>3. JobInv'
    <3>1. Turn(at, 1)
      BY KeysOnce DEF Turn, Levelless, Preparing
    <3> QED BY <1>1, <2>1, <2>2, <3>1, JobNext
  <2>4. ReportInv'
    BY <1>1, <2>1, <2>2, ReportNext DEF IInv, ReportInv
  <2> QED BY <2>1, <2>2, <2>3, <2>4, Prepared DEF SameReport
<1> QED BY <1>2, <1>3 DEF Carry

LEMMA HasGame ==
  ASSUME IInv, job.at \in Importing \cup Applying
  PROVE  r.gameID \in DOMAIN games /\ r.gameID # 0 /\ job.at # "idle"
BY DEF IInv, ReportInv, Importing, Preparing, Naming, Filling, Ordering, Flagging, Closing, Applying

LEMMA UploadAssetKeeps == IInv /\ UploadAsset => IInv'
<1> SUFFICES ASSUME IInv, UploadAsset PROVE IInv'
  OBVIOUS
<1>1. job.at = "upload_asset" /\ job.at \in Preparing /\ r.gameID \in DOMAIN games
  BY HasGame DEF UploadAsset, Preparing, Importing
<1>2. PICK g, n : g = r.gameID /\ n = [games[g] EXCEPT !.asset = "same"]
  OBVIOUS
<1>3. games' = [games EXCEPT ![g] = n] /\ levels' = levels
  BY <1>2 DEF UploadAsset
<1>4. DOMAIN n = GameFields /\ n.order = games[g].order /\ n.asset = "same" /\ g \in DOMAIN games
  <2>1. DOMAIN games[g] = GameFields
    BY <1>1, <1>2 DEF IInv, EngineInv
  <2> QED BY <1>1, <1>2, <2>1 DEF GameFields
<1>5. EngineInv' /\ DOMAIN games' = DOMAIN games /\ games'[g] = n
  BY <1>3, <1>4, GameWith DEF IInv
<1>6. /\ Carry("write_game", 1, r) /\ UNCHANGED <<made, raced>>
      /\ \A l \in DOMAIN levels : <<"level", l>> \in touched => <<"level", l>> \in touched'
  BY DEF UploadAsset
<1> QED BY <1>1, <1>2, <1>3, <1>4, <1>5, <1>6, PreparingOn

LEMMA WriteGameKeeps == IInv /\ WriteGame => IInv'
<1> SUFFICES ASSUME IInv, WriteGame PROVE IInv'
  OBVIOUS
<1>1. job.at = "write_game" /\ job.at \in Preparing /\ r.gameID \in DOMAIN games
  BY HasGame DEF WriteGame, Preparing, Importing
<1>2. /\ EngineInv' /\ levels' = levels /\ DOMAIN games' = DOMAIN games
      /\ games'[r.gameID].asset = games[r.gameID].asset
  <2>1. ReplaceGame("scenario", FALSE)
    BY DEF WriteGame
  <2> QED BY <1>1, <2>1, ReplacedGame DEF IInv
<1>3. Carry("verify_game", 1, r) /\ UNCHANGED <<touched, made, raced>>
  BY DEF WriteGame
<1>4. <<"asset", r.gameID>> \in touched' \/ games'[r.gameID].asset = "same"
  BY <1>1, <1>2, <1>3 DEF IInv, GameInv, Importing
<1> QED BY <1>1, <1>2, <1>3, <1>4, PreparingOn

LEMMA VerifyGameKeeps == IInv /\ VerifyGame => IInv'
<1> SUFFICES ASSUME IInv, VerifyGame PROVE IInv'
  OBVIOUS
<1>1. /\ job.at = "verify_game" /\ job.at \in Preparing /\ games' = games /\ levels' = levels
      /\ UNCHANGED <<made, raced>> /\ touched' = touched \ {<<"game", r.gameID>>}
      /\ IF Count > 0 THEN Carry("write_level", 1, r) ELSE Carry("list", 1, r)
  BY DEF VerifyGame, Preparing, ReadBackGame, engine, Carry
<1>2. EngineInv'
  BY <1>1 DEF IInv, EngineInv
<1>3. <<"asset", r.gameID>> \in touched' \/ games'[r.gameID].asset = "same"
  BY <1>1 DEF IInv, GameInv, Importing
<1>4. Count > 0 \/ Count = 0
  BY KeysOnce
<1> QED BY <1>1, <1>2, <1>3, <1>4, PreparingOn

-----------------------------------------------------------------------------
(* The levels *)

LEMMA RecordedOn ==
  ASSUME IInv, job.at \in Naming, NEW l \in DOMAIN levels', Step("replace_level", job.k, Recorded(l)),
         EngineInv', DOMAIN games' = DOMAIN games, DOMAIN levels \subseteq DOMAIN levels',
         \A x \in DOMAIN levels : levels'[x] = levels[x],
         \A g \in DOMAIN games : games'[g].asset = games[g].asset,
         UNCHANGED <<touched, raced>>, made' \subseteq DOMAIN levels',
         Key \in DOMAIN job.ids => l = job.ids[Key],
         ~raced => l \notin Range(r.levelIDs) /\ made' \ Range(r.levelIDs) \subseteq {l}
  PROVE  IInv'
<1>1. PICK s, k : s = Recorded(l) /\ k = job.k
  OBVIOUS
<1>2. DOMAIN job = JobFields /\ DOMAIN r = ReportFields /\ job.at \in Importing /\ k \in 1 .. Count
  BY <1>1, AtLevel DEF IInv, JobInv, ReportInv, Importing
<1>3. /\ DOMAIN s = ReportFields /\ s.gameID = r.gameID /\ s.completed = r.completed
      /\ DOMAIN s.levelIDs = DOMAIN r.levelIDs \cup {Key} /\ s.levelIDs[Key] = l
      /\ \A x \in DOMAIN r.levelIDs : x # Key => s.levelIDs[x] = r.levelIDs[x]
  BY <1>1, <1>2, Recording
<1>4. /\ "replace_level" \in Places \ {"idle"} /\ "replace_level" \in Importing
      /\ "replace_level" \in Filling /\ "replace_level" \notin Finding
  BY DEF Places, Importing, Filling, Finding
<1>5. /\ Went("replace_level", k) /\ r'.gameID = r.gameID /\ r'.completed = r.completed
      /\ r'.levelIDs = s.levelIDs
  <2>1. Step("replace_level", k, s)
    BY <1>1
  <2> QED BY <1>2, <1>3, <1>4, <2>1, StepTaken DEF Went
<1>6. /\ job'.at = "replace_level" /\ job'.k = k /\ job'.ids = job.ids /\ ~Complete'
      /\ job'.at \notin Entering \cup Preparing \cup Naming \cup Ordering \cup Flagging \cup Closing \cup Applying
  BY <1>5 DEF Went, Complete, Entering, Preparing, Naming, Ordering, Flagging, Closing, Applying
<1>7. /\ DOMAIN r.levelIDs = Named(k - 1) /\ Len(r.completed) = k - 1 /\ Key = Scenario[k]
      /\ Key \notin DOMAIN r.levelIDs /\ DOMAIN r.levelIDs \cup {Key} = Named(k) /\ ~Complete
  BY <1>1, <1>2, NamedNext DEF IInv, ReportInv, Key, Naming
<1>8. \A x \in DOMAIN r.levelIDs : r'.levelIDs[x] = r.levelIDs[x] /\ r.levelIDs[x] \in DOMAIN levels
  BY <1>3, <1>5, <1>7 DEF IInv, ReportInv
<1>9. JobInv'
  <2>1. "replace_level" # "find_level"
    OBVIOUS
  <2> QED BY <1>2, <1>4, <1>5, <2>1, JobNext DEF Turn
<1>10. ReportInv'
  <2>1. Named(k) \subseteq Keys
    BY <1>2, NamedNext
  <2>2. /\ r'.completed \in Seq(Keys) /\ Len(r'.completed) <= Count
        /\ \A i \in DOMAIN r'.completed : r'.completed[i] = Scenario[i] /\ Scenario[i] \in DOMAIN r.levelIDs
    BY <1>5 DEF IInv, ReportInv
  <2>3. \A x \in DOMAIN r'.levelIDs : r'.levelIDs[x] \in DOMAIN levels'
    BY <1>3, <1>5, <1>7, <1>8
  <2>4. r'.gameID \in DOMAIN games'
    BY <1>2, <1>5, HasGame
  <2>5. r'.gameID # 0
    BY <1>2, <1>5, HasGame
  <2>6. DOMAIN r'.levelIDs = Named(k) /\ DOMAIN r.levelIDs \subseteq Named(k)
    BY <1>3, <1>5, <1>7
  <2> QED BY <1>4, <1>5, <1>6, <1>7, <2>1, <2>2, <2>3, <2>4, <2>5, <2>6 DEF ReportInv, Went
<1>11. MadeInv'
  <2>1. \A x \in DOMAIN r'.levelIDs \cap DOMAIN job'.ids : r'.levelIDs[x] = job'.ids[x]
    <3>1. \A x \in DOMAIN r.levelIDs \cap DOMAIN job.ids : r.levelIDs[x] = job.ids[x]
      BY <1>2, HasGame DEF IInv, MadeInv
    <3> QED BY <1>3, <1>5, <1>6, <1>8, <3>1
  <2>2. ASSUME ~raced PROVE IsInjective(r'.levelIDs)
    <3>1. IsInjective(r.levelIDs) /\ l \notin Range(r.levelIDs)
      BY <2>2 DEF IInv, MadeInv
    <3>2. ASSUME NEW x \in DOMAIN r'.levelIDs, NEW y \in DOMAIN r'.levelIDs,
                 r'.levelIDs[x] = r'.levelIDs[y]
          PROVE  x = y
      <4>1. \A z \in DOMAIN r.levelIDs : r.levelIDs[z] # l
        BY <3>1 DEF Range
      <4>2. CASE x \in DOMAIN r.levelIDs /\ y \in DOMAIN r.levelIDs
        BY <1>8, <3>1, <3>2, <4>2 DEF IsInjective
      <4> QED BY <1>3, <1>5, <1>8, <3>2, <4>1, <4>2
    <3> QED BY <3>2, Zenon DEF IsInjective
  <2>3. ASSUME ~raced PROVE made' \ Range(r'.levelIDs) \subseteq {}
    <3>1. Range(r.levelIDs) \cup {l} \subseteq Range(r'.levelIDs)
      BY <1>3, <1>5, <1>8 DEF Range
    <3> QED BY <2>3, <3>1
  <2> QED BY <1>4, <1>6, <2>1, <2>2, <2>3 DEF MadeInv, Pending, Finding
<1>12. ContentInv'
  <2>1. ASSUME NEW i \in 1 .. Len(r'.completed)
        PROVE  Holds(i, Restored(i))' \/ Again(i)'
    <3>1. /\ i \in 1 .. (k - 1) /\ Scenario[i] \in DOMAIN r.levelIDs
      <4>1. i \in 1 .. (k - 1) /\ i \in DOMAIN r.completed
        BY <1>5, <1>7, <2>1, LenProperties DEF IInv, ReportInv
      <4> QED BY <4>1 DEF IInv, ReportInv
    <3>2. Id(i)' = Id(i) /\ Id(i) \in DOMAIN levels
      BY <1>8, <3>1 DEF Id
    <3>3. ~Restored(i) /\ ~Restored(i)'
      BY <1>2, <1>6, <1>7 DEF Restored, Naming, Closing, Flagging
    <3>4. Holds(i, Restored(i)) \/ Again(i)
      <4>1. job.at # "verify_flags"
        BY DEF Naming
      <4> QED BY <1>2, <1>5, <2>1, <4>1 DEF IInv, ContentInv
    <3>5. CASE Holds(i, Restored(i))
      BY <1>5, <3>2, <3>3, <3>5 DEF Holds, InGame
    <3>6. CASE Again(i)
      <4>1. PICK j \in 1 .. Count : i < j /\ Scenario[j] \in DOMAIN r.levelIDs /\ Id(j) = Id(i)
        BY <3>6 DEF Again
      <4>2. Scenario[j] \in DOMAIN r'.levelIDs /\ Id(j)' = Id(i)'
        BY <1>3, <1>5, <1>8, <3>2, <4>1 DEF Id
      <4> QED BY <4>1, <4>2 DEF Again
    <3> QED BY <3>4, <3>5, <3>6
  <2> QED BY <1>6, <2>1 DEF ContentInv
<1>13. OrderInv'
  BY <1>6 DEF OrderInv, Listed, Aligned, Ordering
<1>14. GameInv'
  <2>1. <<"asset", r.gameID>> \in touched \/ games[r.gameID].asset = "same"
    BY DEF IInv, GameInv, Importing, Naming
  <2>2. r.gameID \in DOMAIN games
    BY <1>2, HasGame
  <2> QED BY <1>5, <1>6, <2>1, <2>2 DEF GameInv
<1>15. job'.at # "verify_flags"
  BY <1>6
<1> QED BY <1>4, <1>6, <1>9, <1>10, <1>11, <1>12, <1>13, <1>14, <1>15, Going

LEMMA UseMappedKeeps == IInv /\ UseMapped => IInv'
<1> SUFFICES ASSUME IInv, UseMapped PROVE IInv'
  OBVIOUS
<1>1. /\ job.at = "write_level" /\ job.at \in Naming /\ Key \in DOMAIN job.ids
      /\ Step("replace_level", job.k, Recorded(job.ids[Key])) /\ games' = games /\ levels' = levels
      /\ UNCHANGED <<touched, made, raced>>
  BY DEF UseMapped, Naming, engine
<1>2. PICK l : l = job.ids[Key]
  OBVIOUS
<1>3. EngineInv'
  BY <1>1 DEF IInv, EngineInv
<1>4. /\ DOMAIN job.ids = Keys /\ IsInjective(job.ids) /\ l \in DOMAIN levels
  BY <1>1, <1>2 DEF IInv, JobInv
<1>5. Key \in Keys /\ Key \notin DOMAIN r.levelIDs /\ DOMAIN r.levelIDs \subseteq Keys
  <2>1. Key = Scenario[job.k] /\ job.k \in 1 .. Count /\ DOMAIN r.levelIDs = Named(job.k - 1)
    BY <1>1, AtLevel DEF IInv, JobInv, ReportInv, Key, Naming
  <2> QED BY <2>1, KeysOnce, NamedNext DEF IInv, ReportInv
<1>6. l \notin Range(r.levelIDs)
  <2>1. ASSUME NEW x \in DOMAIN r.levelIDs, r.levelIDs[x] = l PROVE FALSE
    <3>1. r.levelIDs[x] = job.ids[x]
      BY <1>1, <1>4, <1>5 DEF IInv, MadeInv
    <3>2. x = Key
      BY <1>2, <1>4, <1>5, <2>1, <3>1 DEF IsInjective
    <3> QED BY <1>5, <3>2
  <2> QED BY <2>1 DEF Range
<1>7. ~raced => made' \ Range(r.levelIDs) \subseteq {l}
  BY <1>1 DEF IInv, MadeInv, Pending, Finding
<1>8. made' \subseteq DOMAIN levels'
  BY <1>1 DEF IInv, ReportInv
<1> QED BY <1>1, <1>2, <1>3, <1>4, <1>6, <1>7, <1>8, RecordedOn

\* What a report says of a level stays true when neither the level nor the report changes.
LEMMA ContentSame ==
  ASSUME SameReport, NEW i, levels'[Id(i)] = levels[Id(i)],
         DOMAIN levels \subseteq DOMAIN levels',
         <<"level", Id(i)>> \in touched => <<"level", Id(i)>> \in touched',
         Restored(i)' <=> Restored(i), Holds(i, Restored(i)) \/ Again(i)
  PROVE  Holds(i, Restored(i))' \/ Again(i)'
<1>1. Id(i)' = Id(i)
  BY DEF SameReport, Id
<1>2. CASE Holds(i, Restored(i))
  BY <1>1, <1>2 DEF Holds, InGame, SameReport
<1>3. CASE Again(i)
  BY <1>3 DEF Again, Id, SameReport
<1> QED BY <1>2, <1>3

LEMMA Recorded2 ==
  ASSUME IInv, NEW i \in 1 .. Len(r.completed)
  PROVE  /\ i \in 1 .. Count /\ Scenario[i] \in DOMAIN r.levelIDs /\ Id(i) \in DOMAIN levels
         /\ r.completed[i] = Scenario[i]
<1>1. i \in DOMAIN r.completed /\ Len(r.completed) \in Nat
  BY LenProperties DEF IInv, ReportInv
<1>2. /\ Scenario[i] \in DOMAIN r.levelIDs /\ Len(r.completed) <= Count
      /\ r.completed[i] = Scenario[i]
  BY <1>1 DEF IInv, ReportInv
<1> QED BY <1>1, <1>2, KeysOnce DEF IInv, ReportInv, Id

\* The call stops after a level that its report does not name yet was made.
LEMMA StoppedMade ==
  ASSUME IInv, job.at \in {"write_level", "apply"}, Stop, EngineInv', DOMAIN games' = DOMAIN games,
         NEW l \in DOMAIN levels', DOMAIN levels \subseteq DOMAIN levels', made' = made \cup {l},
         \A x \in DOMAIN levels : levels'[x] = levels[x], UNCHANGED <<touched, raced>>
  PROVE  IInv'
<1>1. job'.kind = job.kind /\ r' = r /\ job.at # "idle" /\ job.at \notin Finding
  BY Returned DEF IInv, JobInv, Stop, Finding
<1>2. ASSUME NEW i \in 1 .. Len(r.completed) PROVE Told(i)'
  BY <1>1, Recorded2 DEF IInv, TruthInv, Told, Id, InGame
<1>3. Spare'
  <2>1. /\ r.key = Scenario[job.k] /\ DOMAIN r.levelIDs = Named(job.k - 1) /\ job.k \in 1 .. Count
        /\ r.stage \in {"write_level", "apply"}
    BY AtLevel DEF IInv, ReportInv, JobInv, Naming, Applying
  <2>2. r.key \notin DOMAIN r.levelIDs
    BY <2>1, NamedNext
  <2>3. ~raced => made \ Range(r.levelIDs) \subseteq {}
    BY <1>1 DEF IInv, MadeInv, Pending
  <2> QED BY <1>1, <2>1, <2>2, <2>3 DEF Spare
<1>4. TruthInv'
  BY <1>1, <1>2, <1>3 DEF TruthInv
<1>5. made' \subseteq DOMAIN levels'
  BY DEF IInv, ReportInv
<1> QED BY <1>1, <1>4, <1>5, Stopped

LEMMA CreateShellKeeps == IInv /\ CreateShell => IInv'
<1> SUFFICES ASSUME IInv, CreateShell PROVE IInv'
  OBVIOUS
<1>1. PICK n : n = NewLevel
  OBVIOUS
<1>2. /\ job.at = "write_level" /\ job.at \in Naming /\ Key \notin DOMAIN job.ids
      /\ AddLevel(r.gameID, "shell", "off") /\ made' = made \cup {n}
      /\ UNCHANGED <<touched, raced>>
      /\ Step("replace_level", job.k, Recorded(n)) \/ Stop \/ Step("find_level", job.k, r)
  BY <1>1 DEF CreateShell, Naming, Carry
<1>3. r.gameID \in DOMAIN games /\ job.at \in Importing
  BY <1>2, HasGame DEF Importing
<1>4. /\ EngineInv' /\ DOMAIN games' = DOMAIN games
      /\ DOMAIN levels' = DOMAIN levels \cup {n} /\ n \notin DOMAIN levels
      /\ \A l \in DOMAIN levels : levels'[l] = levels[l]
      /\ games'[r.gameID].order # <<>> /\ Last(games'[r.gameID].order) = n
      /\ \A x \in DOMAIN games : games'[x].asset = games[x].asset
  BY <1>1, <1>2, <1>3, AddedLevel DEF IInv
<1>5. made \subseteq DOMAIN levels /\ made' \subseteq DOMAIN levels' /\ n \in DOMAIN levels'
  BY <1>2, <1>4 DEF IInv, ReportInv
<1>6. n \notin Range(r.levelIDs)
  BY <1>4 DEF IInv, ReportInv, Range
<1>7. ~raced => made \ Range(r.levelIDs) \subseteq {}
  BY <1>2 DEF IInv, MadeInv, Pending, Finding
<1>8. CASE Step("replace_level", job.k, Recorded(n))
  BY <1>2, <1>4, <1>5, <1>6, <1>7, <1>8, RecordedOn
<1>9. CASE Stop
  BY <1>2, <1>4, <1>5, <1>9, StoppedMade
<1>10. CASE Step("find_level", job.k, r)
  <2>1. /\ "find_level" \in Places \ {"idle"} /\ "find_level" \in Importing /\ "find_level" \in Naming
        /\ "find_level" \in Finding
        /\ "find_level" \notin Entering \cup Preparing \cup Filling \cup Ordering \cup Flagging \cup Closing \cup Applying
    BY DEF Places, Importing, Entering, Preparing, Naming, Filling, Ordering, Flagging, Closing, Applying, Finding
  <2>2. Went("find_level", job.k) /\ SameReport /\ job.k \in 1 .. Count
    <3>1. job.at \in Naming
      BY <1>2 DEF Naming
    <3> QED BY <1>10, <2>1, <3>1, WentOn, AtLevel
  <2>3. job'.at = "find_level" /\ job'.k = job.k /\ job'.ids = job.ids /\ ~Complete' /\ ~Complete
    BY <1>2, <2>2 DEF Went, Complete, IInv, ReportInv
  <2>4. DOMAIN job.ids = {}
    <3>1. Key \in Keys
      BY <2>2, KeysOnce DEF Key
    <3> QED BY <1>2, <3>1 DEF IInv, JobInv
  <2>5. JobInv'
    BY <1>3, <1>4, <2>1, <2>2, <2>4, JobNext DEF Turn
  <2>6. ReportInv'
    BY <1>2, <1>3, <1>4, <1>5, <2>1, <2>2, ReportNext
  <2>7. MadeInv'
    BY <1>2, <1>4, <1>6, <1>7, <2>2, <2>3, <2>4 DEF MadeInv, SameReport, Pending, Finding, IInv
  <2>8. ContentInv'
    <3>1. ASSUME NEW i \in 1 .. Len(r.completed)
          PROVE  Holds(i, Restored(i))' \/ Again(i)'
      <4>1. Holds(i, Restored(i)) \/ Again(i)
        BY <1>2, <1>3 DEF IInv, ContentInv
      <4>2. ~Restored(i) /\ ~Restored(i)'
        BY <1>2, <2>1, <2>3 DEF Restored, Closing, Flagging
      <4> QED BY <1>2, <1>4, <2>2, <4>1, <4>2, Recorded2, ContentSame
    <3> QED BY <2>1, <2>2, <2>3, <3>1 DEF ContentInv, SameReport
  <2>9. OrderInv'
    BY <2>1, <2>3 DEF OrderInv, Listed, Aligned, Ordering
  <2>10. GameInv'
    <3>1. <<"asset", r.gameID>> \in touched \/ games[r.gameID].asset = "same"
      BY <1>2, <1>3 DEF IInv, GameInv
    <3> QED BY <1>2, <1>3, <1>4, <2>2, <2>3, <3>1 DEF GameInv, SameReport
  <2> QED BY <1>4, <2>1, <2>3, <2>5, <2>6, <2>7, <2>8, <2>9, <2>10, Going
<1> QED BY <1>2, <1>8, <1>9, <1>10

LEMMA LastOf ==
  ASSUME EngineInv, NEW g \in DOMAIN games, games[g].order # <<>>
  PROVE  Last(games[g].order) \in DOMAIN levels /\ levels[Last(games[g].order)].game = g
<1>1. PICK o : o = games[g].order
  OBVIOUS
<1>2. o \in Seq(Nat) /\ o # <<>>
  BY <1>1 DEF EngineInv
<1>3. Len(o) \in DOMAIN o
  BY <1>2, LenProperties, EmptySeq
<1>4. Last(o) \in Range(o)
  BY <1>3 DEF Last, Range
<1> QED BY <1>1, <1>4 DEF EngineInv

LEMMA FindShellKeeps == IInv /\ FindShell => IInv'
<1> SUFFICES ASSUME IInv, FindShell PROVE IInv'
  OBVIOUS
<1>1. PICK l : l = Last(games[r.gameID].order)
  OBVIOUS
<1>2. /\ job.at = "find_level" /\ job.at \in Naming /\ games[r.gameID].order # <<>>
      /\ Step("replace_level", job.k, Recorded(l)) /\ games' = games /\ levels' = levels
      /\ UNCHANGED <<touched, made, raced>>
  BY <1>1 DEF FindShell, FindLevel, Naming, engine
<1>3. r.gameID \in DOMAIN games
  BY <1>2, HasGame DEF Importing
<1>4. l \in DOMAIN levels
  BY <1>1, <1>2, <1>3, LastOf DEF IInv
<1>5. EngineInv' /\ made' \subseteq DOMAIN levels'
  BY <1>2 DEF IInv, EngineInv, ReportInv
<1>6. DOMAIN job.ids = {}
  BY <1>2 DEF IInv, JobInv
<1>7. ~raced => l \notin Range(r.levelIDs) /\ made' \ Range(r.levelIDs) \subseteq {l}
  BY <1>1, <1>2 DEF IInv, MadeInv, Pending, Finding
<1> QED BY <1>2, <1>4, <1>5, <1>6, <1>7, RecordedOn

LEMMA MadeKept ==
  ASSUME IInv, SameReport, made' = made, raced' = raced, job'.ids = job.ids,
         job.at # "idle", job.at \notin Finding, job'.at \notin Finding
  PROVE  MadeInv'
<1>1. ~raced => made \ Range(r.levelIDs) \subseteq {}
  BY DEF IInv, MadeInv, Pending
<1> QED BY <1>1 DEF IInv, MadeInv, SameReport, Pending, Finding

LEMMA WriteLevelKeeps == IInv /\ WriteLevel => IInv'
<1> SUFFICES ASSUME IInv, WriteLevel PROVE IInv'
  OBVIOUS
<1>1. PICK k, l : k = job.k /\ l = Target
  OBVIOUS
<1>2. /\ job.at = "replace_level" /\ ReplaceLevel(l, Key, FALSE)
      /\ Step("verify_level", k, r) \/ Stop
      /\ UNCHANGED <<seen, touched, made, raced>>
  BY <1>1 DEF WriteLevel, Carry
<1>3. /\ EngineInv' /\ games' = games /\ DOMAIN levels' = DOMAIN levels
      /\ \A x \in DOMAIN levels : x # l => levels'[x] = levels[x]
  BY <1>2, ReplacedLevel DEF IInv
<1>4. /\ job.at \in Filling /\ job.at \in Importing /\ job.at # "idle" /\ job.at \notin Finding
      /\ job.at \notin Flagging \cup Closing /\ ~Complete
  BY <1>2 DEF Filling, Importing, Finding, Flagging, Closing, IInv, ReportInv
<1>5. k \in 1 .. Count /\ Len(r.completed) = k - 1 /\ DOMAIN r.levelIDs = Named(k)
  BY <1>1, <1>4, AtLevel DEF IInv, JobInv, ReportInv
<1>6. l = Id(k) /\ Scenario[k] \in DOMAIN r.levelIDs
  BY <1>1, <1>5, NamedNext DEF Target, Key, Id
<1>7. \A i \in 1 .. Len(r.completed) : Id(i) = l => Again(i)
  BY <1>5, <1>6 DEF Again
<1>8. CASE Stop
  <2>1. job'.kind = job.kind /\ r' = r
    BY <1>8, Returned DEF IInv, JobInv, Stop
  <2>2. ASSUME NEW i \in 1 .. Len(r.completed) PROVE Told(i)'
    <3>1. i \in 1 .. Count /\ Scenario[i] \in DOMAIN r.levelIDs /\ Id(i) \in DOMAIN levels
      BY Recorded2
    <3>2. CASE Id(i) = l
      <4>1. Scenario[i] # Scenario[k] /\ r.levelIDs[Scenario[i]] = r.levelIDs[Scenario[k]]
        BY <1>5, <1>6, <3>1, <3>2, KeysOnce DEF Id
      <4>2. ~IsInjective(r.levelIDs)
        BY <1>6, <3>1, <4>1 DEF IsInjective
      <4> QED BY <1>2, <4>2 DEF IInv, MadeInv, Told
    <3>3. CASE Id(i) # l
      <4>1. Told(i) /\ levels'[Id(i)] = levels[Id(i)] /\ Id(i)' = Id(i)
        BY <1>3, <2>1, <3>1, <3>3 DEF IInv, TruthInv, Id
      <4> QED BY <1>2, <1>3, <2>1, <4>1 DEF Told, InGame
    <3> QED BY <3>2, <3>3
  <2>3. Spare'
    BY <1>2, <2>1 DEF IInv, TruthInv, Spare
  <2>4. TruthInv'
    BY <2>1, <2>2, <2>3 DEF TruthInv
  <2>5. made' \subseteq DOMAIN levels'
    BY <1>2, <1>3 DEF IInv, ReportInv
  <2> QED BY <1>2, <1>3, <1>4, <1>8, <2>4, <2>5, Stopped
<1>9. CASE Step("verify_level", k, r)
  <2>1. /\ "verify_level" \in Places \ {"idle"} /\ "verify_level" \in Importing /\ "verify_level" \in Filling
        /\ "verify_level" \notin Finding /\ "verify_level" \notin Naming
        /\ "verify_level" \notin Preparing \cup Ordering \cup Flagging \cup Closing
    BY DEF Places, Importing, Filling, Finding, Preparing, Ordering, Flagging, Closing, Naming
  <2>2. Went("verify_level", k) /\ SameReport
    BY <1>9, <2>1, WentOn
  <2>3. job'.at = "verify_level" /\ job'.ids = job.ids /\ ~Complete'
    BY <2>2 DEF Went, Complete
  <2>4. JobInv'
    <3>1. "verify_level" # "find_level"
      OBVIOUS
    <3> QED BY <1>3, <1>4, <1>5, <2>1, <2>2, <3>1, JobNext DEF Turn
  <2>5. ReportInv'
    <3>1. made' \subseteq DOMAIN levels'
      BY <1>2, <1>3 DEF IInv, ReportInv
    <3> QED BY <1>1, <1>3, <1>4, <2>1, <2>2, <3>1, ReportNext
  <2>6. MadeInv'
    BY <1>2, <1>4, <2>1, <2>2, <2>3, MadeKept
  <2>7. ContentInv'
    <3>1. ASSUME NEW i \in 1 .. Len(r.completed)
          PROVE  Holds(i, Restored(i))' \/ Again(i)'
      <4>1. Holds(i, Restored(i)) \/ Again(i)
        BY <1>2, <1>4 DEF IInv, ContentInv
      <4>2. ~Restored(i) /\ ~Restored(i)'
        BY <1>4, <2>1, <2>3 DEF Restored
      <4>3. CASE Id(i) = l
        BY <1>7, <2>2, <4>3 DEF Again, SameReport, Id
      <4>4. CASE Id(i) # l
        BY <1>2, <1>3, <2>2, <4>1, <4>2, <4>4, Recorded2, ContentSame
      <4> QED BY <4>3, <4>4
    <3> QED BY <2>1, <2>2, <2>3, <3>1 DEF ContentInv, SameReport
  <2>8. OrderInv'
    BY <2>1, <2>3 DEF OrderInv, Listed, Aligned, Ordering
  <2>9. GameInv'
    BY <1>2, <1>3, <1>4, <2>2, <2>3 DEF IInv, GameInv, SameReport
  <2> QED BY <1>3, <2>1, <2>3, <2>4, <2>5, <2>6, <2>7, <2>8, <2>9, Going
<1> QED BY <1>2, <1>8, <1>9

LEMMA VerifyLevelKeeps == IInv /\ VerifyLevel => IInv'
<1> SUFFICES ASSUME IInv, VerifyLevel PROVE IInv'
  OBVIOUS
<1>1. PICK k, l, c, s : /\ k = job.k /\ l = Target /\ c = Append(r.completed, Key)
                        /\ s = [r EXCEPT !.completed = c]
  OBVIOUS
<1>2. /\ job.at = "verify_level" /\ ReadBackLevel(FALSE)
      /\ \/ k < Count /\ Step("write_level", k + 1, s)
         \/ ~(k < Count) /\ Step("list", 1, s)
  BY <1>1 DEF VerifyLevel
<1>3. /\ InGame(l) /\ levels[l].content = Key /\ ~On(levels[l].pub)
      /\ touched' = touched \ {<<"level", l>>} /\ games' = games /\ levels' = levels
      /\ UNCHANGED <<seen, made, raced>>
  BY <1>1, <1>2 DEF ReadBackLevel, LevelIs, engine, On
<1>4. /\ job.at \in Filling /\ job.at \in Importing /\ job.at # "idle" /\ job.at \notin Finding
      /\ job.at \notin Flagging \cup Closing /\ ~Complete /\ DOMAIN r = ReportFields
      /\ DOMAIN job = JobFields /\ job.kind = "import"
  BY <1>2 DEF Filling, Importing, Finding, Flagging, Closing, IInv, ReportInv, JobInv
<1>5. /\ k \in 1 .. Count /\ Len(r.completed) = k - 1 /\ DOMAIN r.levelIDs = Named(k)
      /\ Key = Scenario[k]
  BY <1>1, <1>4, AtLevel DEF IInv, JobInv, ReportInv, Key
<1>6. l = Id(k) /\ Scenario[k] \in DOMAIN r.levelIDs
  BY <1>1, <1>5, NamedNext DEF Target, Id
<1>7. /\ DOMAIN s = ReportFields /\ s.gameID = r.gameID /\ s.completed = c
      /\ s.levelIDs = r.levelIDs
  BY <1>1, <1>4, Doing
<1>8. c \in Seq(Keys) /\ Len(c) = k /\ \A i \in DOMAIN c : i \in 1 .. Count /\ c[i] = Scenario[i]
  BY <1>1, <1>5, DoneKey DEF IInv
<1>9. \A i \in 1 .. (k - 1) : Id(i) = l => Again(i)
  BY <1>5, <1>6 DEF Again
<1>10. \A i \in 1 .. k : Scenario[i] \in DOMAIN r.levelIDs
  BY <1>5, NamedNext
<1>11. PICK at, n : \/ at = "write_level" /\ n = k + 1 /\ k < Count
                    \/ at = "list" /\ n = 1 /\ ~(k < Count)
  OBVIOUS
<1>12. /\ at \in Places \ {"idle"} /\ at \in Importing /\ at # "find_level" /\ at # "verify_flags"
       /\ at \notin Finding /\ at \notin Entering \cup Preparing \cup Filling \cup Flagging \cup Closing \cup Applying
       /\ at # "move" /\ n \in 1 .. Count
  BY <1>5, <1>11, KeysOnce DEF Places, Importing, Entering, Naming, Filling, Finding, Preparing, Ordering, Flagging, Closing, Applying
<1>13. /\ Went(at, n) /\ r'.gameID = r.gameID /\ r'.completed = c /\ r'.levelIDs = r.levelIDs
  <2>1. Step(at, n, s)
    BY <1>2, <1>11
  <2> QED BY <1>4, <1>7, <1>12, <2>1, StepTaken DEF Went
<1>14. job'.at = at /\ job'.k = n /\ job'.ids = job.ids /\ ~Complete'
  BY <1>13 DEF Went, Complete
<1>15. EngineInv'
  BY <1>3 DEF IInv, EngineInv
<1>16. JobInv'
  <2>1. Turn(at, n)
    BY <1>5, <1>11, KeysOnce DEF Turn
  <2> QED BY <1>3, <1>4, <1>12, <1>13, <2>1, JobNext
<1>17. ReportInv'
  <2>1. /\ r'.gameID \in DOMAIN games' /\ r'.gameID # 0 /\ DOMAIN r'.levelIDs \subseteq Keys
        /\ \A x \in DOMAIN r'.levelIDs : r'.levelIDs[x] \in DOMAIN levels'
        /\ made' \subseteq DOMAIN levels'
    BY <1>3, <1>4, <1>13, HasGame DEF IInv, ReportInv
  <2>2. /\ r'.completed \in Seq(Keys) /\ Len(r'.completed) <= Count
        /\ \A i \in DOMAIN r'.completed : r'.completed[i] = Scenario[i]
                                        /\ Scenario[i] \in DOMAIN r'.levelIDs
    <3>1. DOMAIN c = 1 .. k
      BY <1>8, LenProperties
    <3> QED BY <1>5, <1>8, <1>10, <1>13, <3>1, KeysOnce
  <2>3. at \in Naming => Len(r'.completed) = n - 1 /\ DOMAIN r'.levelIDs = Named(n - 1)
    <3>1. at \in Naming => at = "write_level" /\ n = k + 1
      BY <1>11 DEF Naming
    <3>2. (k + 1) - 1 = k
      BY <1>5, KeysOnce
    <3> QED BY <1>5, <1>8, <1>13, <3>1, <3>2
  <2>4. at \in Ordering => Len(r'.completed) = Count /\ DOMAIN r'.levelIDs = Keys
    <3>1. at \in Ordering => k = Count
      BY <1>5, <1>11, KeysOnce DEF Ordering
    <3> QED BY <1>5, <1>8, <1>13, <3>1, NamedNext
  <2> QED BY <1>12, <1>13, <1>14, <2>1, <2>2, <2>3, <2>4 DEF ReportInv, Went
<1>18. MadeInv'
  <2>1. ~raced => made \ Range(r.levelIDs) \subseteq {}
    BY <1>4 DEF IInv, MadeInv, Pending
  <2> QED BY <1>3, <1>4, <1>12, <1>13, <1>14, <2>1 DEF IInv, MadeInv, Pending, Finding
<1>19. ContentInv'
  <2>1. ASSUME NEW i \in 1 .. Len(r'.completed)
        PROVE  Holds(i, Restored(i))' \/ Again(i)'
    <3>1. ~Restored(i) /\ ~Restored(i)' /\ Id(i)' = Id(i)
      BY <1>4, <1>12, <1>13, <1>14 DEF Restored, Id
    <3>2. CASE i = k
      BY <1>3, <1>5, <1>6, <1>13, <3>1, <3>2 DEF Holds, InGame
    <3>3. CASE i # k
      <4>1. i \in 1 .. (k - 1) /\ i \in 1 .. Len(r.completed)
        BY <1>5, <1>8, <1>13, <3>3
      <4>2. Holds(i, Restored(i)) \/ Again(i)
        BY <1>2, <1>4, <4>1 DEF IInv, ContentInv
      <4>3. CASE Again(i)
        BY <1>13, <4>3 DEF Again, Id
      <4>4. CASE Id(i) # l /\ Holds(i, Restored(i))
        BY <1>3, <1>13, <3>1, <4>4 DEF Holds, InGame
      <4> QED BY <1>9, <4>1, <4>2, <4>3, <4>4
    <3> QED BY <3>2, <3>3
  <2> QED BY <1>12, <1>14, <2>1 DEF ContentInv
<1>20. OrderInv'
  BY <1>12, <1>14 DEF OrderInv, Listed, Aligned
<1>21. GameInv'
  BY <1>2, <1>3, <1>4, <1>13, <1>14 DEF IInv, GameInv
<1> QED BY <1>12, <1>14, <1>15, <1>16, <1>17, <1>18, <1>19, <1>20, <1>21, Going

-----------------------------------------------------------------------------
(* The order, and the flags *)

LEMMA Least ==
  ASSUME NEW S, S \subseteq Nat, S # {}
  PROVE  \E m \in S : \A n \in S : m <= n
<1> SUFFICES ASSUME \A m \in S : ~\A n \in S : m <= n PROVE FALSE
  OBVIOUS
<1>1. IsWellFoundedOn(OpToRel(<, Nat), Nat)
  BY NatLessThanWellFounded
<1>2. PICK x \in S : \A y \in S : ~(<<y, x>> \in OpToRel(<, Nat))
  BY <1>1, WFMin
<1>3. \A y \in S : ~(y < x)
  BY <1>2 DEF OpToRel
<1> QED BY <1>3

LEMMA FlagsNext ==
  ASSUME NEW k \in Nat, k >= 1, FlagsFrom(k)
  PROVE  \/ Step("game_flags", 1, r) /\ \A j \in k .. Count : ~Marked(j)
         \/ \E m \in k .. Count : /\ Step("flags", m, r) /\ Marked(m)
                                  /\ \A j \in k .. Count : j < m => ~Marked(j)
<1>1. PICK rest : rest = {j \in k .. Count : Scenario[j] \in Published}
  OBVIOUS
<1>2. IF rest = {} THEN Step("game_flags", 1, r) ELSE Step("flags", Min(rest), r)
  BY <1>1 DEF FlagsFrom
<1>3. CASE rest = {}
  BY <1>1, <1>2, <1>3 DEF Marked
<1>4. CASE rest # {}
  <2>1. rest \subseteq Nat
    BY <1>1, KeysOnce
  <2>2. \E m \in rest : \A n \in rest : m <= n
    BY <1>4, <2>1, Least
  <2>3. PICK m : m = Min(rest)
    OBVIOUS
  <2>4. m \in rest /\ \A n \in rest : m <= n
    BY <2>2, <2>3 DEF Min
  <2>5. \A j \in k .. Count : j < m => j \notin rest
    BY <1>1, <2>1, <2>4, KeysOnce
  <2>6. Step("flags", m, r)
    BY <1>2, <1>4, <2>3
  <2> QED BY <1>1, <2>4, <2>5, <2>6 DEF Marked
<1> QED BY <1>3, <1>4

LEMMA OrderedOn ==
  ASSUME IInv, job.at \in Ordering \cup Flagging \cup Closing,
         NEW at \in Ordering \cup Flagging \cup Closing, NEW k, Turn(at, k), Step(at, k, r),
         EngineInv', DOMAIN games' = DOMAIN games, DOMAIN levels' = DOMAIN levels,
         UNCHANGED <<made, raced>>,
         <<"asset", r.gameID>> \in touched => <<"asset", r.gameID>> \in touched',
         games'[r.gameID].asset = games[r.gameID].asset,
         ContentInv', OrderInv', at = "verify_flags" => Told(k)'
  PROVE  IInv'
<1>1. /\ at \in Places \ {"idle"} /\ at \in Importing /\ at \notin Finding /\ at # "find_level"
      /\ at \notin Preparing \cup Naming \cup Filling /\ job.at # "idle" /\ job.at \notin Finding
      /\ job.at \in Importing /\ job.at # "upload_asset"
  BY DEF Places, Importing, Preparing, Naming, Filling, Ordering, Flagging, Closing, Finding
<1>2. Went(at, k) /\ SameReport
  BY <1>1, WentOn
<1>3. job'.at = at /\ job'.k = k /\ job'.ids = job.ids /\ ~Complete'
  BY <1>2 DEF Went, Complete
<1>4. JobInv'
  BY <1>1, <1>2, JobNext
<1>5. ReportInv'
  <2>1. made' \subseteq DOMAIN levels'
    BY DEF IInv, ReportInv
  <2> QED BY <1>1, <1>2, <2>1, ReportNext
<1>6. MadeInv'
  BY <1>1, <1>2, <1>3, MadeKept
<1>7. GameInv'
  BY <1>1, <1>2, <1>3 DEF IInv, GameInv, SameReport
<1> QED BY <1>1, <1>3, <1>4, <1>5, <1>6, <1>7, Going

\* A step that touches no level, and switches no flag on.
LEMMA ContentOn ==
  ASSUME IInv, job.at \in Ordering \cup Flagging \cup Closing, job.at # "verify_flags",
         NEW at \in Ordering \cup Flagging \cup Closing, NEW k, Step(at, k, r), levels' = levels,
         \A l \in DOMAIN levels : <<"level", l>> \in touched => <<"level", l>> \in touched',
         at \in Flagging => Marked(k),
         \A i \in 1 .. Count : Restored(i)' <=> Restored(i)
  PROVE  ContentInv'
<1>1. at \in Places \ {"idle"} /\ job.at \in Importing
  BY DEF Places, Importing, Ordering, Flagging, Closing
<1>2. Went(at, k) /\ SameReport /\ job'.at = at /\ job'.k = k
  BY <1>1, WentOn DEF Went
<1>3. ASSUME NEW i \in 1 .. Len(r.completed) PROVE Holds(i, Restored(i))' \/ Again(i)'
  <2>1. Holds(i, Restored(i)) \/ Again(i)
    BY <1>1 DEF IInv, ContentInv
  <2> QED BY <1>2, <2>1, Recorded2, ContentSame
<1> QED BY <1>2, <1>3 DEF ContentInv, SameReport

LEMMA ReadListKeeps ==
  ASSUME IInv, job.at \in {"list", "relist"}, ReadList, NEW at, NEW k, Step(at, k, r),
         \/ at = "move" /\ k \in 1 .. Count
         \/ at = "game_flags" /\ k = 1 /\ Count = 0
  PROVE  IInv'
<1>1. /\ seen' = games[r.gameID].order /\ Len(seen') = Count /\ games' = games /\ levels' = levels
      /\ touched' = touched \ {<<"order", r.gameID>>} /\ UNCHANGED <<made, raced>>
  BY DEF ReadList, engine
<1>2. /\ job.at \in Ordering /\ at \in Ordering \cup Closing /\ at \notin Flagging /\ at # "verify_flags"
      /\ at \in Closing => at = "game_flags" /\ Count = 0
      /\ job.at \notin Flagging \cup Closing /\ job.at \in Importing /\ at \in Places \ {"idle"}
  BY DEF Ordering, Flagging, Closing, Importing, Places
<1>3. EngineInv' /\ r.gameID \in DOMAIN games
  BY <1>1, <1>2, HasGame DEF IInv, EngineInv
<1>4. Went(at, k) /\ SameReport
  BY <1>2, WentOn
<1>5. job'.at = at /\ ~Complete' /\ ~Complete
  BY <1>2, <1>4 DEF Went, Complete, IInv, ReportInv
<1>6. ContentInv'
  <2>1. ASSUME NEW i \in 1 .. Count PROVE Restored(i)' <=> Restored(i)
    <3>1. Count # 0
      BY KeysOnce
    <3> QED BY <1>2, <1>5, <3>1 DEF Restored
  <2> QED BY <1>1, <1>2, <2>1, ContentOn
<1>7. OrderInv'
  <2>1. seen' \in Seq(Nat) /\ IsInjective(seen') /\ seen' = games'[r'.gameID].order
    BY <1>1, <1>3, <1>4 DEF IInv, EngineInv, SameReport
  <2>2. at \in Closing => \A i \in 1 .. Count : FALSE
    BY <1>2
  <2> QED BY <1>1, <1>2, <1>5, <2>1, <2>2 DEF OrderInv, Listed, Aligned
<1>8. Turn(at, k)
  BY DEF Turn, Levelless, Closing
<1> QED BY <1>1, <1>2, <1>3, <1>6, <1>7, <1>8, OrderedOn

LEMMA ListLevelsKeeps == IInv /\ ListLevels => IInv'
<1> SUFFICES ASSUME IInv, ListLevels PROVE IInv'
  OBVIOUS
<1>1. job.at = "list" /\ ReadList
  BY DEF ListLevels
<1>2. CASE Count > 0
  <2>1. Step("move", 1, r) /\ 1 \in 1 .. Count
    BY <1>2, KeysOnce DEF ListLevels
  <2> QED BY <1>1, <2>1, ReadListKeeps
<1>3. CASE ~(Count > 0)
  <2>1. FlagsFrom(1) /\ Count = 0
    BY <1>3, KeysOnce DEF ListLevels
  <2>2. Step("game_flags", 1, r)
    BY <2>1, FlagsNext
  <2> QED BY <1>1, <2>1, <2>2, ReadListKeeps
<1> QED BY <1>2, <1>3

LEMMA RelistKeeps == IInv /\ Relist => IInv'
<1> SUFFICES ASSUME IInv, Relist PROVE IInv'
  OBVIOUS
<1>1. job.at = "relist" /\ ReadList /\ Step("move", job.k, r)
  BY DEF Relist
<1> QED BY <1>1, AtLevel, ReadListKeeps

LEMMA MoveLevelKeeps == IInv /\ MoveLevel => IInv'
<1> SUFFICES ASSUME IInv, MoveLevel PROVE IInv'
  OBVIOUS
<1>1. PICK k, l : k = job.k /\ l = Target
  OBVIOUS
<1>2. /\ job.at = "move"
      /\ MoveUp(r.gameID, l) \/ UNCHANGED games
      /\ levels' = levels /\ UNCHANGED <<seen, touched, made, raced>>
      /\ Step("relist", k, r) \/ Stop
  BY <1>1 DEF MoveLevel, Carry
<1>3. /\ job.at \in Ordering /\ "relist" \in Ordering /\ "relist" \notin Flagging \cup Closing
      /\ job.at \notin Flagging \cup Closing /\ job.at \in Importing /\ "relist" \in Places \ {"idle"}
      /\ k \in 1 .. Count
  BY <1>1, <1>2, AtLevel DEF Ordering, Flagging, Closing, Importing, Places
<1>4. r.gameID \in DOMAIN games /\ job.at # "idle"
  BY <1>3, HasGame
<1>5. /\ EngineInv' /\ DOMAIN games' = DOMAIN games
      /\ \A x \in DOMAIN games : games'[x].asset = games[x].asset
  <2>1. MoveUp(r.gameID, l) \/ UNCHANGED games
    BY <1>2
  <2>2. EngineInv /\ levels' = levels
    BY <1>2 DEF IInv
  <2> QED BY <1>4, <2>1, <2>2, MovedUp
<1>6. CASE Stop
  BY <1>2, <1>4, <1>5, <1>6, StoppedHere
<1>7. CASE Step("relist", k, r)
  <2>1. Went("relist", k) /\ SameReport
    BY <1>3, <1>7, WentOn
  <2>2. job'.at = "relist" /\ ~Complete' /\ ~Complete
    BY <1>3, <1>4, <2>1 DEF Went, Complete, IInv, ReportInv
  <2>3. ContentInv'
    <3>1. \A i \in 1 .. Count : Restored(i)' <=> Restored(i)
      BY <1>3, <2>2 DEF Restored
    <3> QED BY <1>2, <1>3, <1>7, <3>1, ContentOn DEF Flagging
  <2>4. OrderInv'
    BY <1>3, <2>2 DEF OrderInv, Listed, Aligned
  <2> QED BY <1>2, <1>3, <1>4, <1>5, <1>7, <2>3, <2>4, OrderedOn DEF Turn
<1> QED BY <1>2, <1>6, <1>7

\* Once the levels are in place, no two keys share one.
LEMMA AlignedIds ==
  ASSUME IInv, Aligned
  PROVE  /\ \A i, j \in 1 .. Count : Id(i) = Id(j) => i = j
         /\ \A i \in 1 .. Count : ~Again(i)
         /\ Len(r.completed) = Count
<1>1. seen \in Seq(Nat) /\ Len(seen) = Count /\ IsInjective(seen) /\ \A i \in 1 .. Count : seen[i] = Id(i)
  BY DEF IInv, OrderInv, Listed, Aligned
<1>2. DOMAIN seen = 1 .. Count
  BY <1>1, LenProperties
<1>3. \A i, j \in 1 .. Count : Id(i) = Id(j) => i = j
  BY <1>1, <1>2 DEF IsInjective
<1>4. \A i \in 1 .. Count : ~Again(i)
  BY <1>3, KeysOnce DEF Again
<1>5. Len(r.completed) = Count
  BY DEF IInv, ReportInv, Aligned
<1> QED BY <1>3, <1>4, <1>5

\* The list that was read, and the place of its levels, stay as they are.
LEMMA OrderOn ==
  ASSUME IInv, NEW at \in {"move"} \cup Flagging \cup Closing, NEW k, Step(at, k, r), Listed,
         seen' = seen,
         <<"order", r.gameID>> \in touched => <<"order", r.gameID>> \in touched',
         games'[r.gameID].order = games[r.gameID].order,
         at # "move" => \A i \in 1 .. Count : seen[i] = Id(i)
  PROVE  OrderInv'
<1>1. at \in Places \ {"idle"} /\ "move" \notin Flagging \cup Closing
  BY DEF Places, Importing, Ordering, Flagging, Closing
<1>2. Went(at, k) /\ SameReport /\ job'.at = at /\ ~Complete'
  BY <1>1, WentOn DEF Went, Complete
<1>3. \A i \in 1 .. Count : Id(i)' = Id(i)
  BY <1>2 DEF Id, SameReport
<1> QED BY <1>1, <1>2, <1>3 DEF IInv, OrderInv, Aligned, SameReport

LEMMA InPlaceKeeps == IInv /\ InPlace => IInv'
<1> SUFFICES ASSUME IInv, InPlace PROVE IInv'
  OBVIOUS
<1>1. PICK k : k = job.k
  OBVIOUS
<1>2. /\ job.at = "move" /\ games' = games /\ levels' = levels
      /\ UNCHANGED <<seen, touched, made, raced>>
  BY DEF InPlace, engine
<1>3. IF k < Count THEN Step("move", k + 1, r)
      ELSE (\A i \in 1 .. Count : seen[i] = r.levelIDs[Scenario[i]]) /\ FlagsFrom(1)
  BY <1>1 DEF InPlace
<1>4. /\ job.at \in Ordering /\ job.at # "verify_flags" /\ job.at \notin Flagging \cup Closing /\ ~Complete
      /\ Listed /\ k \in 1 .. Count
  BY <1>1, <1>2, AtLevel DEF Ordering, Flagging, Closing, IInv, ReportInv, Importing, Listed
<1>5. EngineInv' /\ \A i \in 1 .. Count : ~Restored(i)
  BY <1>2, <1>4 DEF IInv, EngineInv, Restored
<1>6. ASSUME NEW at \in {"move"} \cup Flagging \cup Closing, NEW n \in 1 .. Count, Step(at, n, r),
             at \in Flagging => Marked(n),
             at # "move" => \A i \in 1 .. Count : seen[i] = Id(i),
             \A i \in 1 .. Count : (at \in Closing \/ (at \in Flagging /\ i < n)) => ~Marked(i),
             at # "verify_flags"
      PROVE  IInv'
  <2>1. at \in Ordering \cup Flagging \cup Closing /\ at \in Places \ {"idle"}
    BY DEF Ordering, Flagging, Closing, Importing, Places
  <2>2. job'.at = at /\ job'.k = n /\ ~Complete'
    BY <1>6, <2>1, WentOn DEF Went, Complete
  <2>3. \A i \in 1 .. Count : Restored(i)' <=> Restored(i)
    BY <1>5, <1>6, <2>2 DEF Restored
  <2>4. ContentInv'
    BY <1>2, <1>4, <1>6, <2>1, <2>3, ContentOn
  <2>5. OrderInv'
    BY <1>2, <1>4, <1>6, OrderOn
  <2> QED BY <1>2, <1>4, <1>5, <1>6, <2>1, <2>4, <2>5, OrderedOn DEF Turn
<1>7. CASE k < Count
  <2>1. Step("move", k + 1, r) /\ k + 1 \in 1 .. Count /\ "move" \notin Flagging \cup Closing
    BY <1>3, <1>4, <1>7, KeysOnce DEF Flagging, Closing
  <2> QED BY <1>6, <2>1
<1>8. CASE ~(k < Count)
  <2>1. (\A i \in 1 .. Count : seen[i] = Id(i)) /\ FlagsFrom(1)
    BY <1>3, <1>8 DEF Id
  <2>2. CASE Step("game_flags", 1, r) /\ \A j \in 1 .. Count : ~Marked(j)
    <3>1. "game_flags" \in Closing /\ "game_flags" \notin Flagging /\ 1 \in 1 .. Count
      BY <1>4, KeysOnce DEF Closing, Flagging
    <3> QED BY <1>6, <2>1, <2>2, <3>1
  <2>3. CASE \E m \in 1 .. Count : /\ Step("flags", m, r) /\ Marked(m)
                                   /\ \A j \in 1 .. Count : j < m => ~Marked(j)
    <3>1. "flags" \in Flagging /\ "flags" \notin Closing
      BY DEF Flagging, Closing
    <3> QED BY <1>6, <2>1, <2>3, <3>1
  <2> QED BY <2>1, <2>2, <2>3, FlagsNext
<1> QED BY <1>7, <1>8

LEMMA RestoreLevelKeeps == IInv /\ RestoreLevel => IInv'
<1> SUFFICES ASSUME IInv, RestoreLevel PROVE IInv'
  OBVIOUS
<1>1. PICK k, l : k = job.k /\ l = Target
  OBVIOUS
<1>2. /\ job.at = "flags" /\ ReplaceLevel(l, Key, TRUE)
      /\ Step("verify_flags", k, r) \/ Stop
      /\ UNCHANGED <<seen, touched, made, raced>>
  BY <1>1 DEF RestoreLevel, Carry
<1>3. /\ EngineInv' /\ games' = games /\ DOMAIN levels' = DOMAIN levels
      /\ l \in DOMAIN levels /\ levels'[l].game = r.gameID /\ levels'[l].content \in {Key, "altered"}
      /\ \A x \in DOMAIN levels : x # l => levels'[x] = levels[x]
  BY <1>2, ReplacedLevel DEF IInv
<1>4. /\ job.at \in Flagging /\ job.at \in Importing /\ job.at # "idle" /\ job.at # "verify_flags" /\ Aligned
      /\ Listed /\ "verify_flags" \in Flagging /\ "verify_flags" \in Places \ {"idle"} /\ ~Complete
  BY <1>2 DEF Flagging, Importing, Aligned, Listed, Places, IInv, ReportInv
<1>5. /\ k \in 1 .. Count /\ Key = Scenario[k] /\ l = Id(k) /\ r.key = Scenario[k]
      /\ job.kind = "import"
  BY <1>1, <1>4, AtLevel DEF IInv, JobInv, ReportInv, Key, Target, Id
<1>6. ASSUME r'.gameID = r.gameID, r'.levelIDs = r.levelIDs, r'.key = r.key, job'.kind = job.kind,
             NEW i \in 1 .. Len(r.completed)
      PROVE  Told(i)'
  <2>1. Id(i)' = Id(i)
    BY <1>6 DEF Id
  <2>2. CASE i = k
    BY <1>3, <1>5, <1>6, <2>1, <2>2 DEF Told, InGame
  <2>3. CASE i # k
    <3>1. Id(i) # l /\ Id(i) \in DOMAIN levels /\ Told(i)
      BY <1>4, <1>5, <2>3, AlignedIds, Recorded2 DEF IInv, TruthInv
    <3> QED BY <1>2, <1>3, <1>6, <2>1, <3>1 DEF Told, InGame
  <2> QED BY <2>2, <2>3
<1>7. CASE Stop
  <2>1. job'.kind = job.kind /\ r' = r
    BY <1>7, Returned DEF IInv, JobInv, Stop
  <2>2. Spare'
    BY <1>2, <2>1 DEF IInv, TruthInv, Spare
  <2>3. TruthInv'
    BY <1>6, <2>1, <2>2 DEF TruthInv
  <2>4. made' \subseteq DOMAIN levels'
    BY <1>2, <1>3 DEF IInv, ReportInv
  <2> QED BY <1>2, <1>3, <1>4, <1>7, <2>3, <2>4, Stopped
<1>8. CASE Step("verify_flags", k, r)
  <2>1. Went("verify_flags", k) /\ SameReport
    BY <1>4, <1>8, WentOn
  <2>2. job'.at = "verify_flags" /\ job'.k = k /\ ~Complete' /\ r'.key = r.key /\ job'.kind = job.kind
    BY <1>4, <1>5, <2>1 DEF Went, Complete
  <2>3. ContentInv'
    <3>1. ASSUME NEW i \in 1 .. Len(r.completed), i # k PROVE Holds(i, Restored(i))' \/ Again(i)'
      <4>1. Holds(i, Restored(i)) \/ Again(i)
        BY <1>4, <3>1 DEF IInv, ContentInv
      <4>2. Restored(i)' <=> Restored(i)
        BY <1>1, <1>4, <2>2 DEF Restored, Flagging, Closing
      <4>3. Id(i) # l /\ Id(i) \in DOMAIN levels
        BY <1>4, <1>5, <3>1, AlignedIds, Recorded2
      <4> QED BY <1>2, <1>3, <2>1, <4>1, <4>2, <4>3, ContentSame
    <3>2. Marked(k)
      BY <1>1, <1>4 DEF IInv, ContentInv
    <3> QED BY <2>1, <2>2, <3>1, <3>2 DEF ContentInv, SameReport
  <2>4. OrderInv'
    <3>1. \A i \in 1 .. Count : seen[i] = Id(i)
      BY <1>4 DEF IInv, OrderInv
    <3> QED BY <1>2, <1>3, <1>4, <1>8, <3>1, OrderOn
  <2>5. Told(k)'
    BY <1>4, <1>5, <1>6, <2>1, <2>2, AlignedIds DEF SameReport
  <2> QED BY <1>2, <1>3, <1>4, <1>5, <1>8, <2>3, <2>4, <2>5, OrderedOn DEF Turn
<1> QED BY <1>2, <1>7, <1>8

LEMMA VerifyFlagsKeeps == IInv /\ VerifyFlags => IInv'
<1> SUFFICES ASSUME IInv, VerifyFlags PROVE IInv'
  OBVIOUS
<1>1. PICK k, l : k = job.k /\ l = Target
  OBVIOUS
<1>2. /\ job.at = "verify_flags" /\ InGame(l) /\ levels[l].content = Key /\ On(levels[l].pub)
      /\ touched' = touched \ {<<"level", l>>} /\ games' = games /\ levels' = levels
      /\ UNCHANGED <<seen, made, raced>> /\ FlagsFrom(k + 1)
  BY <1>1 DEF VerifyFlags, ReadBackLevel, LevelIs, On, engine
<1>3. /\ job.at \in Flagging /\ job.at \in Importing /\ job.at # "idle" /\ Aligned /\ Listed
      /\ job.at \notin Closing /\ ~Complete
  BY <1>2 DEF Flagging, Closing, Importing, Aligned, Listed, IInv, ReportInv
<1>4. k \in 1 .. Count /\ Key = Scenario[k] /\ l = Id(k) /\ Marked(k) /\ Len(r.completed) = Count
  BY <1>1, <1>3, AtLevel, AlignedIds DEF IInv, ContentInv, Key, Target, Id
<1>5. EngineInv'
  BY <1>2 DEF IInv, EngineInv
<1>6. ASSUME NEW at \in {"flags"} \cup {"game_flags"}, NEW m \in 1 .. Count, Step(at, m, r),
             at = "flags" => m > k /\ Marked(m),
             \A j \in 1 .. Count : (j > k /\ (at = "game_flags" \/ j < m)) => ~Marked(j)
      PROVE  IInv'
  <2>1. /\ at \in Flagging \cup Closing /\ at \in Places \ {"idle"} /\ at # "move" /\ at # "verify_flags"
        /\ at \in Closing => at = "game_flags"
        /\ at \in Flagging => at = "flags"
    BY DEF Flagging, Closing, Importing, Places
  <2>2. Went(at, m) /\ SameReport /\ job'.at = at /\ job'.k = m /\ ~Complete'
    BY <1>6, <2>1, WentOn DEF Went, Complete
  <2>3. ASSUME NEW i \in 1 .. Count PROVE Holds(i, Restored(i))' \/ Again(i)'
    <3>1. Id(i)' = Id(i)
      BY <2>2 DEF Id, SameReport
    <3>2. CASE i = k
      <4>1. Restored(k)'
        BY <1>4, <1>6, <2>1, <2>2 DEF Restored
      <4> QED BY <1>2, <1>4, <2>2, <3>1, <3>2, <4>1 DEF Holds, InGame, SameReport
    <3>3. CASE i # k
      <4>1. Holds(i, Restored(i)) \/ Again(i)
        BY <1>1, <1>3, <1>4, <3>3 DEF IInv, ContentInv
      <4>2. Restored(i)' <=> Restored(i)
        <5>1. Restored(i) <=> Marked(i) /\ i < k
          BY <1>1, <1>3 DEF Restored
        <5>2. Restored(i)' <=> Marked(i) /\ (at = "game_flags" \/ i < m)
          BY <2>1, <2>2 DEF Restored
        <5> QED BY <1>4, <1>6, <3>3, <5>1, <5>2
      <4>3. Id(i) # l
        BY <1>3, <1>4, <3>3, AlignedIds
      <4> QED BY <1>2, <2>2, <4>1, <4>2, <4>3, ContentSame
    <3> QED BY <3>2, <3>3
  <2>4. ContentInv'
    BY <1>4, <1>6, <2>1, <2>2, <2>3 DEF ContentInv, SameReport
  <2>5. OrderInv'
    <3>1. \A i \in 1 .. Count : seen[i] = Id(i)
      BY <1>3 DEF IInv, OrderInv
    <3> QED BY <1>2, <1>3, <1>6, <2>1, <3>1, OrderOn
  <2> QED BY <1>2, <1>3, <1>5, <1>6, <2>1, <2>4, <2>5, OrderedOn DEF Turn
<1>7. k + 1 \in Nat /\ k + 1 >= 1 /\ 1 \in 1 .. Count
  BY <1>4, KeysOnce
<1>8. CASE Step("game_flags", 1, r) /\ \A j \in (k + 1) .. Count : ~Marked(j)
  <2>1. \A j \in 1 .. Count : j > k => ~Marked(j)
    BY <1>4, <1>8, KeysOnce
  <2> QED BY <1>6, <1>7, <1>8, <2>1
<1>9. CASE \E m \in (k + 1) .. Count : /\ Step("flags", m, r) /\ Marked(m)
                                       /\ \A j \in (k + 1) .. Count : j < m => ~Marked(j)
  <2>1. PICK m \in (k + 1) .. Count : /\ Step("flags", m, r) /\ Marked(m)
                                      /\ \A j \in (k + 1) .. Count : j < m => ~Marked(j)
    BY <1>9
  <2>2. m \in 1 .. Count /\ m > k /\ \A j \in 1 .. Count : j > k /\ j < m => ~Marked(j)
    BY <1>4, <2>1, KeysOnce
  <2> QED BY <1>6, <2>1, <2>2
<1> QED BY <1>2, <1>7, <1>8, <1>9, FlagsNext

LEMMA RestoreGameKeeps == IInv /\ RestoreGame => IInv'
<1> SUFFICES ASSUME IInv, RestoreGame PROVE IInv'
  OBVIOUS
<1>1. /\ job.at = "game_flags" /\ ReplaceGame("scenario", GamePublished)
      /\ Step("verify_game_flags", 1, r) \/ Stop
      /\ UNCHANGED <<seen, touched, made, raced>>
  BY DEF RestoreGame, Carry
<1>2. /\ job.at \in Closing /\ job.at \in Importing /\ job.at # "idle" /\ job.at # "verify_flags"
      /\ Aligned /\ Listed /\ "verify_game_flags" \in Closing /\ "verify_game_flags" \in Places \ {"idle"}
      /\ "verify_game_flags" \notin Flagging /\ "verify_game_flags" # "verify_flags"
  BY <1>1 DEF Flagging, Closing, Importing, Aligned, Listed, Places
<1>3. r.gameID \in DOMAIN games
  BY <1>2, HasGame
<1>4. /\ EngineInv' /\ levels' = levels /\ DOMAIN games' = DOMAIN games
      /\ games'[r.gameID].order = games[r.gameID].order
      /\ games'[r.gameID].asset = games[r.gameID].asset
  BY <1>1, <1>3, ReplacedGame DEF IInv
<1>5. CASE Stop
  BY <1>1, <1>2, <1>4, <1>5, StoppedHere
<1>6. CASE Step("verify_game_flags", 1, r)
  <2>1. job'.at = "verify_game_flags" /\ ~Complete'
    BY <1>2, <1>6, WentOn DEF Went, Complete
  <2>2. ContentInv'
    <3>1. \A i \in 1 .. Count : Restored(i)' <=> Restored(i)
      BY <1>2, <2>1 DEF Restored
    <3> QED BY <1>1, <1>2, <1>4, <1>6, <3>1, ContentOn
  <2>3. OrderInv'
    <3>1. \A i \in 1 .. Count : seen[i] = Id(i)
      BY <1>2 DEF IInv, OrderInv
    <3> QED BY <1>1, <1>2, <1>4, <1>6, <3>1, OrderOn
  <2> QED BY <1>1, <1>2, <1>4, <1>6, <2>2, <2>3, OrderedOn DEF Turn, Levelless
<1> QED BY <1>1, <1>5, <1>6

LEMMA VerifyGameFlagsKeeps == IInv /\ VerifyGameFlags => IInv'
<1> SUFFICES ASSUME IInv, VerifyGameFlags PROVE IInv'
  OBVIOUS
<1>1. PICK s, t : s = [r EXCEPT !.stage = "complete"] /\ t = [s EXCEPT !.complete = TRUE]
  OBVIOUS
<1>2. /\ job.at = "verify_game_flags" /\ games[r.gameID].content = "scenario"
      /\ On(games[r.gameID].pub) = GamePublished /\ touched' = touched \ {<<"game", r.gameID>>}
      /\ games' = games /\ levels' = levels /\ UNCHANGED <<seen, made, raced>> /\ Return(t)
  BY <1>1 DEF VerifyGameFlags, ReadBackGame, Finished, engine
<1>3. /\ DOMAIN job = JobFields /\ DOMAIN r = ReportFields /\ job.at \in Closing /\ job.at \in Importing
      /\ job.at # "idle" /\ job.at # "verify_flags" /\ job.at \notin Finding /\ Aligned /\ Listed
  BY <1>2 DEF IInv, JobInv, ReportInv, Closing, Importing, Finding, Aligned, Listed
<1>4. /\ DOMAIN t = ReportFields /\ t.gameID = r.gameID /\ t.completed = r.completed
      /\ t.levelIDs = r.levelIDs /\ t.stage = "complete" /\ t.key = r.key
  <2>1. /\ DOMAIN s = ReportFields /\ s.gameID = r.gameID /\ s.completed = r.completed
        /\ s.levelIDs = r.levelIDs /\ s.stage = "complete" /\ s.key = r.key
    BY <1>1, <1>3 DEF ReportFields
  <2> QED BY <1>1, <2>1, Completing
<1>5. /\ DOMAIN job' = JobFields /\ job'.at = "idle" /\ job'.k = 1 /\ job'.kind = job.kind /\ r' = t
  BY <1>2, <1>3, Returned
<1>6. /\ Complete' /\ SameReport /\ EngineInv'
      /\ job'.at \notin Entering \cup Importing \cup Applying \cup Finding /\ job'.at # "preflight"
  BY <1>2, <1>4, <1>5 DEF Complete, SameReport, IInv, EngineInv, Entering, Importing, Preparing, Naming,
         Filling, Ordering, Flagging, Closing, Applying, Finding
<1>7. JobInv'
  BY <1>5, <1>6 DEF IInv, JobInv, Places, Turn, Levelless
<1>8. ReportInv'
  <2>1. r.gameID # 0 /\ Len(r.completed) = Count /\ DOMAIN r.levelIDs = Keys
    BY <1>3, HasGame DEF IInv, ReportInv
  <2>2. DOMAIN r' = ReportFields
    BY <1>4, <1>5
  <2>3. made' \subseteq DOMAIN levels'
    BY <1>2 DEF IInv, ReportInv
  <2> QED BY <1>2, <1>5, <1>6, <2>1, <2>2, <2>3 DEF IInv, ReportInv, SameReport, Importing
<1>9. MadeInv'
  BY <1>2, <1>5, <1>6 DEF IInv, MadeInv, SameReport, Finding
<1>10. ContentInv'
  <2>1. ASSUME NEW i \in 1 .. Len(r.completed) PROVE Holds(i, Restored(i))' \/ Again(i)'
    <3>1. Holds(i, Restored(i)) \/ Again(i)
      BY <1>3, <2>1 DEF IInv, ContentInv
    <3>2. Restored(i)' <=> Restored(i)
      BY <1>3, <1>6 DEF Restored
    <3> QED BY <1>2, <1>6, <3>1, <3>2, ContentSame
  <2> QED BY <1>5, <1>6, <2>1 DEF ContentInv, SameReport, Importing
<1>11. OrderInv'
  <2>1. \A i \in 1 .. Count : Id(i)' = Id(i)
    BY <1>6 DEF Id, SameReport
  <2> QED BY <1>2, <1>3, <1>6, <2>1 DEF IInv, OrderInv, SameReport
<1>12. GameInv'
  <2>1. job.at # "upload_asset"
    BY <1>2
  <2> QED BY <1>2, <1>3, <1>6, <2>1 DEF IInv, GameInv, SameReport
<1>13. TruthInv'
  <2>1. \A i \in 1 .. Len(r'.completed) : Told(i)'
    BY <1>5, <1>6, <1>8, <1>9, <1>10, ToldNext
  <2>2. Spare'
    <3>1. ~raced => made \ Range(r.levelIDs) \subseteq {}
      BY <1>3 DEF IInv, MadeInv, Pending
    <3> QED BY <1>2, <1>6, <3>1 DEF Spare, SameReport
  <2> QED BY <2>1, <2>2 DEF TruthInv
<1> QED BY <1>6, <1>7, <1>8, <1>9, <1>10, <1>11, <1>12, <1>13 DEF IInv

-----------------------------------------------------------------------------
(* Plan.Apply *)

LEMMA BeginApplyKeeps == IInv /\ BeginApply => IInv'
<1> SUFFICES ASSUME IInv, BeginApply PROVE IInv'
  OBVIOUS
<1>1. /\ job.at = "preflight" /\ job.kind \in {"create", "update"} /\ Step("apply", 1, r)
      /\ games' = games /\ levels' = levels /\ UNCHANGED <<seen, touched, made, raced>>
  BY DEF BeginApply, engine
<1>2. /\ "apply" \in Places \ {"idle"} /\ "apply" \in Applying
      /\ "apply" \notin Importing \cup Entering \cup Finding
  BY DEF Places, Applying, Importing, Entering, Preparing, Naming, Filling, Ordering, Flagging, Closing, Finding
<1>3. Went("apply", 1) /\ SameReport
  BY <1>1, <1>2, WentOn
<1>4. /\ job'.at = "apply" /\ job'.k = 1 /\ job'.kind = job.kind /\ job'.ids = job.ids /\ ~Complete'
  BY <1>3 DEF Went, Complete
<1>5. /\ DOMAIN r.levelIDs = {} /\ r.completed = <<>> /\ r.gameID # 0 /\ Len(r.completed) = 0
  <2>1. DOMAIN r.levelIDs = {} /\ r.completed = <<>>
    BY <1>1 DEF IInv, ReportInv, Entering
  <2>2. r.gameID # 0
    BY <1>1 DEF IInv, ReportInv
  <2> QED BY <2>1, <2>2, EmptySeq
<1>6. EngineInv'
  BY <1>1 DEF IInv, EngineInv
<1>7. JobInv'
  <2>1. IsInjective(job.ids)
    <3>1. CASE job.kind = "create"
      <4>1. DOMAIN job.ids = {}
        BY <1>1, <3>1 DEF IInv, JobInv
      <4> QED BY <4>1 DEF IsInjective
    <3>2. CASE job.kind = "update"
      BY <1>1, <3>2 DEF IInv, JobInv
    <3> QED BY <1>1, <3>1, <3>2
  <2>2. "apply" # "create_game" /\ "apply" # "find_level" /\ "apply" # "find_applied"
    OBVIOUS
  <2>3. Turn("apply", 1) /\ Count # 0
    <3>1. Count # 0
      BY <1>1 DEF IInv, JobInv
    <3> QED BY <3>1, KeysOnce DEF Turn
  <2> QED BY <1>1, <1>2, <1>3, <1>4, <2>1, <2>2, <2>3 DEF IInv, JobInv, Went
<1>8. ReportInv'
  <2>1. /\ r'.gameID \in {0} \cup DOMAIN games' /\ DOMAIN r'.levelIDs = Named(0) /\ Named(0) = {}
        /\ r'.completed = <<>> /\ Len(r'.completed) = 0 /\ r'.gameID # 0 /\ made' \subseteq DOMAIN levels'
    BY <1>1, <1>3, <1>5, NamedNext DEF IInv, ReportInv, SameReport
  <2>2. <<>> \in Seq(Keys) /\ DOMAIN <<>> = {}
    BY EmptySeq
  <2> QED BY <1>2, <1>3, <1>4, <2>1, <2>2, KeysOnce
          DEF ReportInv, Went, Importing, Preparing, Naming, Filling, Ordering, Flagging, Closing
<1>9. MadeInv'
  <2>1. ~raced => made \ Range(r.levelIDs) \subseteq {}
    BY <1>1 DEF IInv, MadeInv, Pending, Finding
  <2>2. IsInjective(r.levelIDs)
    BY <1>5 DEF IsInjective
  <2> QED BY <1>1, <1>2, <1>3, <1>4, <1>5, <2>1, <2>2 DEF MadeInv, SameReport, Pending, Finding
<1>10. ContentInv' /\ OrderInv' /\ GameInv'
  BY <1>2, <1>4 DEF ContentInv, OrderInv, GameInv, Listed, Aligned, Importing, Ordering
<1>11. TruthInv'
  BY <1>3, <1>4, <1>5, <1>7, <1>8, <1>9, SpareNext DEF TruthInv, SameReport
<1> QED BY <1>6, <1>7, <1>8, <1>9, <1>10, <1>11 DEF IInv

\* A level is put into the report as done, and the next one is taken up.
LEMMA AppliedOn ==
  ASSUME IInv, job.at \in Applying, NEW l \in DOMAIN levels', NextApply(l), EngineInv',
         DOMAIN games' = DOMAIN games, DOMAIN levels \subseteq DOMAIN levels',
         \A x \in DOMAIN levels : x # l =>
           /\ levels'[x] = levels[x]
           /\ <<"level", x>> \in touched => <<"level", x>> \in touched',
         raced' = raced, made' \subseteq DOMAIN levels',
         Key \in DOMAIN job.ids => l = job.ids[Key],
         ~raced => l \notin Range(r.levelIDs) /\ made' \ Range(r.levelIDs) \subseteq {l},
         \/ <<"level", l>> \in touched' \/ raced
         \/ levels'[l].game = r.gameID /\ levels'[l].content \in {Key, "altered"}
  PROVE  IInv'
<1>1. PICK k, c, s, t : /\ k = job.k /\ c = Append(r.completed, Key) /\ s = Recorded(l)
                        /\ t = [s EXCEPT !.completed = c]
  OBVIOUS
<1>2. /\ DOMAIN job = JobFields /\ DOMAIN r = ReportFields /\ k \in 1 .. Count
      /\ job.kind \in {"create", "update"} /\ job.at # "idle" /\ r.stage = "apply"
      /\ job.at \notin Importing \cup Entering
  BY <1>1, AtLevel DEF IInv, JobInv, ReportInv, Applying, Importing, Entering, Preparing, Naming, Filling,
                       Ordering, Flagging, Closing
<1>3. /\ DOMAIN s = ReportFields /\ s.gameID = r.gameID /\ s.completed = r.completed
      /\ s.stage = r.stage
      /\ DOMAIN s.levelIDs = DOMAIN r.levelIDs \cup {Key} /\ s.levelIDs[Key] = l
      /\ \A x \in DOMAIN r.levelIDs : x # Key => s.levelIDs[x] = r.levelIDs[x]
  BY <1>1, <1>2, Recording
<1>4. /\ DOMAIN t = ReportFields /\ t.gameID = r.gameID /\ t.completed = c
      /\ t.levelIDs = s.levelIDs /\ t.stage = "apply"
  BY <1>1, <1>2, <1>3, Doing
<1>5. /\ DOMAIN r.levelIDs = Named(k - 1) /\ Len(r.completed) = k - 1 /\ Key = Scenario[k]
      /\ Key \notin DOMAIN r.levelIDs /\ DOMAIN r.levelIDs \cup {Key} = Named(k)
  BY <1>1, <1>2, NamedNext DEF IInv, ReportInv, Key
<1>6. \A x \in DOMAIN r.levelIDs : t.levelIDs[x] = r.levelIDs[x] /\ r.levelIDs[x] \in DOMAIN levels
  BY <1>3, <1>4, <1>5 DEF IInv, ReportInv
<1>7. c \in Seq(Keys) /\ Len(c) = k /\ \A i \in DOMAIN c : i \in 1 .. Count /\ c[i] = Scenario[i]
  <2>1. ReportInv /\ job.k \in 1 .. Count /\ Len(r.completed) = job.k - 1 /\ c = Append(r.completed, Key)
    BY <1>1, <1>2, <1>5 DEF IInv
  <2>2. c \in Seq(Keys) /\ Len(c) = job.k
    BY ONLY <2>1, DoneKey
  <2>3. \A i \in DOMAIN c : i \in 1 .. Count /\ c[i] = Scenario[i]
    BY ONLY <2>1, DoneKey
  <2> QED BY <1>1, <2>2, <2>3
<1>8. DOMAIN t.levelIDs = Named(k) /\ t.levelIDs[Key] = l
  BY <1>3, <1>4, <1>5
<1>9. \/ k < Count /\ Step("apply", k + 1, t)
      \/ Finished(t)
  <2>1. Applied(l) = [s EXCEPT !.completed = Append(s.completed, Key)]
    BY <1>1 DEF Applied
  <2>2. Applied(l) = t
    BY <1>1, <1>3, <2>1
  <2> QED BY <1>1, <2>2 DEF NextApply
<1>10. PICK at : \/ at = "apply" /\ k < Count /\ Step("apply", k + 1, t)
                 \/ at = "idle" /\ Finished(t)
  BY <1>9
<1>11. /\ DOMAIN job' = JobFields /\ job'.at = at /\ job'.kind = job.kind
       /\ DOMAIN r' = ReportFields /\ r'.gameID = r.gameID /\ r'.completed = c
       /\ r'.levelIDs = t.levelIDs /\ ~Complete'
       /\ at = "apply" => /\ job'.k = k + 1 /\ k < Count /\ job'.ids = job.ids /\ r'.stage = "apply"
                          /\ r'.key = Scenario[k + 1]
       /\ at = "idle" => job'.k = 1
  <2>1. CASE at = "apply"
    <3>1. "apply" \in Places \ {"idle"} /\ "apply" \in Applying
      BY DEF Places, Applying
    <3> QED BY <1>2, <1>4, <1>10, <2>1, <3>1, StepTaken DEF Complete
  <2>2. CASE at = "idle"
    <3>1. PICK u : u = [t EXCEPT !.complete = TRUE]
      OBVIOUS
    <3>2. Return(u)
      BY <1>10, <2>2, <3>1 DEF Finished
    <3>3. /\ DOMAIN u = ReportFields /\ u.gameID = t.gameID /\ u.completed = t.completed
          /\ u.levelIDs = t.levelIDs /\ u.stage = t.stage
      BY <1>4, <3>1, Completing
    <3>4. /\ DOMAIN job' = JobFields /\ job'.at = "idle" /\ job'.k = 1 /\ job'.kind = job.kind /\ r' = u
      BY <1>2, <3>2, Returned
    <3> QED BY <1>4, <2>2, <3>3, <3>4 DEF Complete
  <2> QED BY <1>10, <2>1, <2>2
<1>12. /\ at \in {"apply", "idle"} /\ at \notin Entering \cup Importing \cup Finding
       /\ at # "preflight" /\ "apply" \in Applying /\ "idle" \notin Applying /\ at \in Places
       /\ at \notin Preparing \cup Naming \cup Filling \cup Ordering \cup Flagging \cup Closing
  BY <1>10 DEF Entering, Importing, Preparing, Naming, Filling, Ordering, Flagging, Closing, Finding,
               Applying, Places
<1>13. ReportInv'
  <2>1. /\ r'.gameID \in {0} \cup DOMAIN games' /\ r'.gameID # 0 /\ DOMAIN r'.levelIDs \subseteq Keys
        /\ \A x \in DOMAIN r'.levelIDs : r'.levelIDs[x] \in DOMAIN levels'
    <3>1. r.gameID \in DOMAIN games /\ r.gameID # 0
      BY HasGame
    <3>2. Named(k) \subseteq Keys
      BY <1>2, NamedNext
    <3> QED BY <1>5, <1>6, <1>8, <1>11, <3>1, <3>2
  <2>2. /\ r'.completed \in Seq(Keys) /\ Len(r'.completed) <= Count
        /\ \A i \in DOMAIN r'.completed : r'.completed[i] = Scenario[i]
                                        /\ Scenario[i] \in DOMAIN r'.levelIDs
    <3>1. DOMAIN c = 1 .. k
      BY <1>7, LenProperties
    <3>2. k <= Count /\ \A i \in 1 .. k : Scenario[i] \in Named(k)
      BY <1>2, KeysOnce, NamedNext
    <3>3. r'.completed = c /\ DOMAIN r'.levelIDs = Named(k)
      BY <1>8, <1>11
    <3>4. \A i \in DOMAIN c : c[i] = Scenario[i] /\ Scenario[i] \in Named(k)
      BY ONLY <1>7, <3>1, <3>2
    <3> QED BY ONLY <1>7, <3>2, <3>3, <3>4
  <2>3. at = "apply" => Len(r'.completed) = job'.k - 1 /\ DOMAIN r'.levelIDs = Named(job'.k - 1)
                        /\ r'.key = Scenario[job'.k]
    <3>1. (k + 1) - 1 = k
      BY <1>2, KeysOnce
    <3> QED BY <1>7, <1>8, <1>11, <3>1
  <2> QED BY <1>11, <1>12, <2>1, <2>2, <2>3 DEF ReportInv
<1>14. ~raced => IsInjective(r'.levelIDs) /\ made' \ Range(r'.levelIDs) \subseteq {}
  <2>1. ASSUME ~raced PROVE IsInjective(r'.levelIDs)
    <3>1. IsInjective(r.levelIDs) /\ l \notin Range(r.levelIDs)
      BY <2>1 DEF IInv, MadeInv
    <3>2. ASSUME NEW x \in DOMAIN r'.levelIDs, NEW y \in DOMAIN r'.levelIDs,
                 r'.levelIDs[x] = r'.levelIDs[y]
          PROVE  x = y
      <4>1. \A z \in DOMAIN r.levelIDs : r.levelIDs[z] # l
        BY <3>1 DEF Range
      <4>2. CASE x \in DOMAIN r.levelIDs /\ y \in DOMAIN r.levelIDs
        BY <1>6, <1>11, <3>1, <3>2, <4>2 DEF IsInjective
      <4> QED BY <1>5, <1>6, <1>8, <1>11, <3>2, <4>1, <4>2
    <3> QED BY <3>2, Zenon DEF IsInjective
  <2>2. ASSUME ~raced PROVE made' \ Range(r'.levelIDs) \subseteq {}
    <3>1. Range(r.levelIDs) \cup {l} \subseteq Range(r'.levelIDs)
      BY <1>5, <1>6, <1>8, <1>11 DEF Range
    <3> QED BY <2>2, <3>1
  <2> QED BY <2>1, <2>2
<1>15. ASSUME NEW i \in 1 .. Len(r'.completed) PROVE Told(i)'
  <2>1. CASE i = k
    <3>1. Id(i)' = l
      BY <1>5, <1>8, <1>11, <2>1 DEF Id
    <3> QED BY <1>2, <1>5, <1>11, <2>1, <3>1 DEF Told, InGame
  <2>2. CASE i # k
    <3>1. i \in 1 .. (k - 1) /\ i \in 1 .. Len(r.completed)
      BY <1>5, <1>7, <1>11, <2>2
    <3>2. /\ Scenario[i] \in DOMAIN r.levelIDs /\ Id(i) \in DOMAIN levels /\ Id(i)' = Id(i) /\ Told(i)
      BY <1>6, <1>11, <3>1, Recorded2 DEF IInv, TruthInv, Id
    <3>3. ~raced => Id(i) # l
      BY <3>2 DEF Range, Id
    <3> QED BY <1>2, <1>11, <3>2, <3>3 DEF Told, InGame
  <2> QED BY <2>1, <2>2
<1>16. CASE at = "idle"
  <2>1. TruthInv'
    BY <1>14, <1>15 DEF TruthInv, Spare
  <2> QED BY <1>2, <1>11, <1>13, <1>14, <1>16, <2>1, Idle
<1>17. CASE at = "apply"
  <2>1. JobInv'
    <3>1. k + 1 \in 1 .. Count
      BY <1>2, <1>11, <1>17, KeysOnce
    <3>2. /\ DOMAIN job.ids \in {{}, Keys} /\ IsInjective(job.ids)
          /\ \A x \in DOMAIN job.ids : job.ids[x] \in DOMAIN levels'
          /\ job.kind = "update" => DOMAIN job.ids = Keys
          /\ job.kind = "create" => DOMAIN job.ids = {}
      <4>1. job.at # "preflight"
        BY <1>2 DEF Entering
      <4> QED BY <1>2, <4>1 DEF IInv, JobInv
    <3>3. "apply" # "create_game" /\ "apply" # "find_level" /\ "apply" # "find_applied"
      OBVIOUS
    <3>4. Turn("apply", k + 1) /\ Count # 0
      BY <1>2, <3>1, KeysOnce DEF Turn
    <3> QED BY <1>2, <1>11, <1>12, <1>17, <3>2, <3>3, <3>4 DEF JobInv
  <2>2. MadeInv'
    <3>1. \A x \in DOMAIN r'.levelIDs \cap DOMAIN job'.ids : r'.levelIDs[x] = job'.ids[x]
      <4>1. \A x \in DOMAIN r.levelIDs \cap DOMAIN job.ids : r.levelIDs[x] = job.ids[x]
        BY <1>2 DEF IInv, MadeInv
      <4> QED BY <1>5, <1>6, <1>8, <1>11, <1>17, <4>1
    <3> QED BY <1>11, <1>12, <1>14, <1>17, <3>1 DEF MadeInv, Pending, Finding
  <2>3. ContentInv' /\ OrderInv' /\ GameInv'
    BY <1>11, <1>12, <1>17 DEF ContentInv, OrderInv, GameInv, Listed, Aligned
  <2>4. TruthInv'
    BY <1>11, <1>13, <1>15, <1>17, <2>1, <2>2, SpareNext DEF TruthInv
  <2> QED BY <1>13, <2>1, <2>2, <2>3, <2>4 DEF IInv
<1> QED BY <1>12, <1>16, <1>17

LEMMA ApplyCreateKeeps == IInv /\ ApplyCreate => IInv'
<1> SUFFICES ASSUME IInv, ApplyCreate PROVE IInv'
  OBVIOUS
<1>1. PICK n, pub : n = NewLevel /\ pub = Ours(Key \in Published)
  OBVIOUS
<1>2. /\ job.at = "apply" /\ job.kind = "create" /\ made' = made \cup {n}
      /\ NextApply(n) \/ Stop \/ Step("find_applied", job.k, r)
      /\ UNCHANGED <<seen, touched, raced>>
  BY <1>1 DEF ApplyCreate
<1>3. PICK c \in {Key, "altered"} : AddLevel(r.gameID, c, pub)
  BY <1>1 DEF ApplyCreate
<1>4. /\ job.at \in Applying /\ r.gameID \in DOMAIN games /\ r.gameID # 0 /\ job.at \notin Finding
      /\ job.at # "idle"
  BY <1>2, HasGame DEF Applying, Finding
<1>5. /\ EngineInv' /\ DOMAIN games' = DOMAIN games
      /\ DOMAIN levels' = DOMAIN levels \cup {n} /\ n \notin DOMAIN levels
      /\ levels'[n].game = r.gameID /\ levels'[n].content = c
      /\ \A l \in DOMAIN levels : levels'[l] = levels[l]
      /\ games'[r.gameID].order # <<>> /\ Last(games'[r.gameID].order) = n
  <2>1. EngineInv /\ r.gameID \in DOMAIN games /\ AddLevel(r.gameID, c, pub)
    BY <1>3, <1>4 DEF IInv
  <2>2. /\ EngineInv' /\ DOMAIN games' = DOMAIN games
        /\ DOMAIN levels' = DOMAIN levels \cup {NewLevel} /\ NewLevel \notin DOMAIN levels
        /\ levels'[NewLevel].game = r.gameID /\ levels'[NewLevel].content = c
    BY ONLY <2>1, AddedLevel
  <2>3. /\ \A l \in DOMAIN levels : levels'[l] = levels[l]
        /\ games'[r.gameID].order # <<>> /\ Last(games'[r.gameID].order) = NewLevel
    BY ONLY <2>1, AddedLevel
  <2> QED BY <1>1, <2>2, <2>3
<1>6. levels'[n].game = r.gameID /\ levels'[n].content \in {Key, "altered"}
  BY <1>3, <1>5
<1>7. made \subseteq DOMAIN levels /\ made' \subseteq DOMAIN levels' /\ n \in DOMAIN levels'
  BY <1>2, <1>5 DEF IInv, ReportInv
<1>8. n \notin Range(r.levelIDs)
  BY <1>5 DEF IInv, ReportInv, Range
<1>9. ~raced => made \ Range(r.levelIDs) \subseteq {}
  BY <1>4 DEF IInv, MadeInv, Pending
<1>10. DOMAIN job.ids = {}
  BY <1>2, <1>4 DEF IInv, JobInv
<1>11. CASE NextApply(n)
  BY <1>2, <1>4, <1>5, <1>6, <1>7, <1>8, <1>9, <1>10, <1>11, AppliedOn
<1>12. CASE Stop
  BY <1>2, <1>5, <1>7, <1>12, StoppedMade
<1>13. CASE Step("find_applied", job.k, r)
  <2>1. /\ "find_applied" \in Places \ {"idle"} /\ "find_applied" \in Applying /\ "find_applied" \in Finding
        /\ "find_applied" \notin Importing \cup Entering /\ "find_applied" # "move"
        /\ "find_applied" \notin Preparing \cup Naming \cup Filling \cup Ordering \cup Flagging \cup Closing
    BY DEF Places, Applying, Importing, Entering, Preparing, Naming, Filling, Ordering, Flagging, Closing, Finding
  <2>2. Went("find_applied", job.k) /\ SameReport
    BY <1>13, <2>1, WentOn
  <2>3. /\ job'.at = "find_applied" /\ job'.k = job.k /\ job'.kind = "create" /\ job'.ids = job.ids
        /\ ~Complete'
    BY <1>2, <2>2 DEF Went, Complete
  <2>4. JobInv'
    <3>1. IsInjective(job.ids)
      BY <1>10 DEF IsInjective
    <3>2. Turn("find_applied", job.k) /\ Count # 0
      <4>1. job.at \in Applying
        BY <1>2 DEF Applying
      <4> QED BY <4>1, AtLevel, KeysOnce DEF Turn
    <3> QED BY <1>10, <2>1, <2>2, <2>3, <3>1, <3>2 DEF IInv, JobInv, Went
  <2>5. ReportInv'
    <3>1. Len(r.completed) = job.k - 1 /\ DOMAIN r.levelIDs = Named(job.k - 1)
      BY <1>4 DEF IInv, ReportInv
    <3> QED BY <1>4, <1>5, <1>7, <2>1, <2>2, <2>3, <3>1 DEF IInv, ReportInv, SameReport, Went
  <2>6. MadeInv'
    <3>1. \A x \in DOMAIN r'.levelIDs \cap DOMAIN job'.ids : r'.levelIDs[x] = job'.ids[x]
      BY <1>10, <2>3
    <3>2. Scenario[job.k] = Key
      BY DEF Key
    <3>3. ~raced => IsInjective(r'.levelIDs)
      BY <2>2 DEF IInv, MadeInv, SameReport
    <3>4. /\ games'[r'.gameID].order # <<>> /\ Last(games'[r'.gameID].order) = n
          /\ Range(r'.levelIDs) = Range(r.levelIDs)
      BY <1>5, <2>2 DEF SameReport
    <3> QED BY <1>2, <1>6, <1>8, <1>9, <2>1, <2>3, <3>1, <3>2, <3>3, <3>4 DEF MadeInv, Pending, Finding
  <2>7. ContentInv' /\ OrderInv' /\ GameInv'
    BY <2>1, <2>3 DEF ContentInv, OrderInv, GameInv, Listed, Aligned
  <2>8. TruthInv'
    <3>1. ASSUME NEW i \in 1 .. Len(r.completed) PROVE Told(i)'
      <4>1. Told(i) /\ Id(i) \in DOMAIN levels
        BY <3>1, Recorded2 DEF IInv, TruthInv
      <4>2. Id(i)' = Id(i) /\ levels'[Id(i)] = levels[Id(i)] /\ Id(i) \in DOMAIN levels'
        BY <1>5, <2>2, <4>1 DEF Id, SameReport
      <4>3. job.kind # "import" /\ job'.kind # "import" /\ r'.gameID = r.gameID
        BY <1>2, <2>2, <2>3 DEF SameReport
      <4> QED BY <1>2, <4>1, <4>2, <4>3 DEF Told, InGame
    <3>2. Spare'
      BY <2>1, <2>3, <2>4, <2>5, <2>6, SpareNext
    <3> QED BY <2>2, <3>1, <3>2 DEF TruthInv, SameReport
  <2> QED BY <1>5, <2>4, <2>5, <2>6, <2>7, <2>8 DEF IInv
<1> QED BY <1>2, <1>11, <1>12, <1>13

LEMMA FindAppliedKeeps == IInv /\ FindApplied => IInv'
<1> SUFFICES ASSUME IInv, FindApplied PROVE IInv'
  OBVIOUS
<1>1. PICK l : l = Last(games[r.gameID].order)
  OBVIOUS
<1>2. /\ job.at = "find_applied" /\ games[r.gameID].order # <<>> /\ NextApply(l)
      /\ games' = games /\ levels' = levels /\ UNCHANGED <<touched, made, raced>>
  BY <1>1 DEF FindApplied, engine
<1>3. job.at \in Applying /\ r.gameID \in DOMAIN games /\ job.at \in Finding
  BY <1>2, HasGame DEF Applying, Finding
<1>4. l \in DOMAIN levels /\ levels[l].game = r.gameID
  BY <1>1, <1>2, <1>3, LastOf DEF IInv
<1>5. EngineInv' /\ made' \subseteq DOMAIN levels' /\ DOMAIN job.ids = {}
  BY <1>2 DEF IInv, EngineInv, ReportInv, JobInv
<1>6. ~raced => l \notin Range(r.levelIDs) /\ made' \ Range(r.levelIDs) \subseteq {l}
  BY <1>1, <1>2, <1>3 DEF IInv, MadeInv, Pending
<1>7. raced \/ <<"level", l>> \in touched' \/ levels'[l].content \in {Key, "altered"}
  BY <1>1, <1>2 DEF IInv, MadeInv, Key
<1> QED BY <1>2, <1>3, <1>4, <1>5, <1>6, <1>7, AppliedOn

LEMMA ApplyUpdateKeeps == IInv /\ ApplyUpdate => IInv'
<1> SUFFICES ASSUME IInv, ApplyUpdate PROVE IInv'
  OBVIOUS
<1>1. PICK l, on : l = job.ids[Key] /\ on = (Key \in Published)
  OBVIOUS
<1>2. /\ job.at = "apply" /\ job.kind = "update" /\ ReplaceLevel(l, Key, on)
      /\ NextApply(l) \/ Stop
      /\ touched' = touched \ {<<"level", l>>} /\ UNCHANGED <<seen, made, raced>>
  BY <1>1 DEF ApplyUpdate
<1>3. /\ EngineInv' /\ games' = games /\ DOMAIN levels' = DOMAIN levels
      /\ l \in DOMAIN levels /\ levels'[l].game = r.gameID /\ levels'[l].content \in {Key, "altered"}
      /\ \A x \in DOMAIN levels : x # l => levels'[x] = levels[x]
  BY <1>2, ReplacedLevel DEF IInv
<1>4. job.at \in Applying /\ job.at # "idle" /\ job.at \notin Finding /\ r.gameID \in DOMAIN games
  BY <1>2, HasGame DEF Applying, Finding
<1>5. DOMAIN job.ids = Keys /\ IsInjective(job.ids)
  BY <1>2, <1>4 DEF IInv, JobInv
<1>6. Key \in Keys /\ Key \notin DOMAIN r.levelIDs /\ DOMAIN r.levelIDs \subseteq Keys
  <2>1. Key = Scenario[job.k] /\ job.k \in 1 .. Count /\ DOMAIN r.levelIDs = Named(job.k - 1)
    BY <1>4, AtLevel DEF IInv, JobInv, ReportInv, Key
  <2> QED BY <2>1, KeysOnce, NamedNext DEF IInv, ReportInv
<1>7. \A x \in DOMAIN r.levelIDs : r.levelIDs[x] # l
  <2>1. ASSUME NEW x \in DOMAIN r.levelIDs, r.levelIDs[x] = l PROVE FALSE
    <3>1. r.levelIDs[x] = job.ids[x]
      BY <1>4, <1>5, <1>6 DEF IInv, MadeInv
    <3>2. x = Key
      BY <1>1, <1>5, <1>6, <2>1, <3>1 DEF IsInjective
    <3> QED BY <1>6, <3>2
  <2> QED BY <2>1
<1>8. ~raced => made' \ Range(r.levelIDs) \subseteq {l}
  BY <1>2, <1>4 DEF IInv, MadeInv, Pending
<1>9. made' \subseteq DOMAIN levels'
  BY <1>2, <1>3 DEF IInv, ReportInv
<1>10. CASE NextApply(l)
  <2>1. l \notin Range(r.levelIDs)
    BY <1>7 DEF Range
  <2> QED BY <1>1, <1>2, <1>3, <1>4, <1>8, <1>9, <1>10, <2>1, AppliedOn
<1>11. CASE Stop
  <2>1. job'.kind = job.kind /\ r' = r
    BY <1>11, Returned DEF IInv, JobInv, Stop
  <2>2. ASSUME NEW i \in 1 .. Len(r.completed) PROVE Told(i)'
    <3>1. Id(i) # l /\ Id(i) \in DOMAIN levels /\ Told(i) /\ Id(i)' = Id(i)
      BY <1>7, <2>1, Recorded2 DEF IInv, TruthInv, Id
    <3> QED BY <1>2, <1>3, <2>1, <3>1 DEF Told, InGame
  <2>3. Spare'
    BY <1>2, <2>1 DEF IInv, TruthInv, Spare
  <2>4. TruthInv'
    BY <2>1, <2>2, <2>3 DEF TruthInv
  <2> QED BY <1>2, <1>3, <1>4, <1>9, <1>11, <2>4, Stopped
<1> QED BY <1>2, <1>10, <1>11

-----------------------------------------------------------------------------
(* Calls that start and fail, and the other organizer *)

LEMMA RequestFailsKeeps == IInv /\ RequestFails => IInv'
<1> SUFFICES ASSUME IInv, RequestFails PROVE IInv'
  OBVIOUS
<1>1. /\ job.at # "idle" /\ Stop /\ games' = games /\ levels' = levels
      /\ UNCHANGED <<touched, made, raced>>
  BY DEF RequestFails, engine
<1>2. EngineInv'
  BY <1>1 DEF IInv, EngineInv
<1> QED BY <1>1, <1>2, StoppedHere

LEMMA Started ==
  ASSUME IInv, NEW kind \in {"import", "create", "update"}, NEW g \in {0} \cup DOMAIN games,
         NEW ids, Start(kind, g, ids), g = 0 => kind = "import",
         DOMAIN ids \in {{}, Keys}, \A x \in DOMAIN ids : ids[x] \in DOMAIN levels,
         kind = "update" => IsInjective(ids) /\ DOMAIN ids = Keys,
         kind = "create" => DOMAIN ids = {}, Count = 0 => kind = "import"
  PROVE  IInv'
<1>1. PICK n : n = IF kind = "import" THEN 0 ELSE g
  OBVIOUS
<1>2. /\ job' = [kind |-> kind, at |-> "preflight", k |-> 1, game |-> g, ids |-> ids]
      /\ r' = Report(n) /\ made' = {} /\ raced' = FALSE /\ games' = games /\ levels' = levels
  BY <1>1 DEF Start, engine
<1>3. /\ DOMAIN job' = JobFields /\ job'.at = "preflight" /\ job'.k = 1 /\ job'.kind = kind
      /\ job'.ids = ids
  BY <1>2 DEF JobFields
<1>4. /\ DOMAIN r' = ReportFields /\ r'.gameID = n /\ r'.levelIDs = <<>> /\ r'.completed = <<>>
      /\ r'.stage = "preflight"
  BY <1>2 DEF ReportFields, Report
<1>5. /\ "preflight" \in Places /\ "preflight" \notin Importing \cup Applying \cup Finding /\ ~Complete'
      /\ "preflight" \in Entering
      /\ "preflight" \notin Preparing \cup Naming \cup Filling \cup Ordering \cup Flagging \cup Closing
  BY <1>4 DEF Places, Entering, Importing, Applying, Preparing, Naming, Filling, Ordering, Flagging,
              Closing, Finding, Complete
<1>6. EngineInv'
  BY <1>2 DEF IInv, EngineInv
<1>7. JobInv'
  <2>1. "preflight" # "create_game" /\ "preflight" # "find_level" /\ "preflight" # "find_applied"
    OBVIOUS
  <2> QED BY <1>2, <1>3, <1>5, <2>1 DEF JobInv, Turn, Levelless
<1>8. n \in {0} \cup DOMAIN games /\ (kind # "import" => n # 0)
  BY <1>1
<1>9. <<>> \in Seq(Keys) /\ Len(<<>>) = 0 /\ DOMAIN <<>> = {}
  BY EmptySeq
<1>10. ReportInv'
  BY <1>2, <1>3, <1>4, <1>5, <1>8, <1>9, KeysOnce DEF ReportInv
<1>11. MadeInv'
  <2>1. DOMAIN r'.levelIDs = {}
    BY <1>4, <1>9
  <2>2. IsInjective(r'.levelIDs)
    BY <2>1 DEF IsInjective
  <2> QED BY <1>2, <1>3, <1>5, <2>1, <2>2 DEF MadeInv, Pending, Finding
<1>12. ContentInv' /\ OrderInv' /\ GameInv'
  BY <1>3, <1>5 DEF ContentInv, OrderInv, GameInv, Listed, Aligned, Ordering
<1>13. TruthInv'
  BY <1>2, <1>4, <1>9 DEF TruthInv, Spare
<1> QED BY <1>6, <1>7, <1>10, <1>11, <1>12, <1>13 DEF IInv

LEMMA MappingsExist ==
  ASSUME EngineInv, NEW g \in DOMAIN games, NEW f \in Mappings(g)
  PROVE  DOMAIN f = Keys /\ \A x \in DOMAIN f : f[x] \in DOMAIN levels
<1>1. Range(games[g].order) = {l \in DOMAIN levels : levels[l].game = g}
  BY DEF EngineInv
<1> QED BY <1>1 DEF Mappings

LEMMA StartKeeps == IInv /\ (StartImport \/ StartPlan) => IInv'
<1> SUFFICES ASSUME IInv, StartImport \/ StartPlan PROVE IInv'
  OBVIOUS
<1>1. DOMAIN <<>> = {} /\ EngineInv
  BY DEF IInv
<1>2. CASE Start("import", 0, <<>>)
  BY <1>1, <1>2, Started
<1>3. CASE \E g \in DOMAIN games : \E f \in {<<>>} \cup Mappings(g) : Start("import", g, f)
  <2>1. PICK g \in DOMAIN games : \E f \in {<<>>} \cup Mappings(g) : Start("import", g, f)
    BY <1>3
  <2>2. PICK f \in {<<>>} \cup Mappings(g) : Start("import", g, f)
    BY <2>1
  <2>3. DOMAIN f \in {{}, Keys} /\ \A x \in DOMAIN f : f[x] \in DOMAIN levels
    BY <1>1, MappingsExist
  <2> QED BY <2>2, <2>3, Started
<1>4. CASE StartPlan
  <2>1. PICK g \in DOMAIN games :
          \/ Start("create", g, <<>>)
          \/ \E f \in Mappings(g) : IsInjective(f) /\ Start("update", g, f)
    BY <1>4 DEF StartPlan
  <2> Count # 0
    BY <1>4, KeysOnce DEF StartPlan
  <2>2. 0 \notin DOMAIN games
    BY <1>1, LenProperties DEF EngineInv
  <2>3. CASE Start("create", g, <<>>)
    BY <1>1, <2>2, <2>3, Started
  <2>4. CASE \E f \in Mappings(g) : IsInjective(f) /\ Start("update", g, f)
    <3>1. PICK f \in Mappings(g) : IsInjective(f) /\ Start("update", g, f)
      BY <2>4
    <3>2. DOMAIN f = Keys /\ \A x \in DOMAIN f : f[x] \in DOMAIN levels
      BY <1>1, MappingsExist
    <3> QED BY <2>2, <3>1, <3>2, Started
  <2> QED BY <2>1, <2>3, <2>4
<1> QED BY <1>2, <1>3, <1>4 DEF StartImport

\* What the other organizer changes is marked, and a list that changes under a call that
\* reads it for a new id is too.
LEMMA Meanwhile ==
  ASSUME IInv, UNCHANGED <<job, r, seen, made>>, EngineInv', DOMAIN games' = DOMAIN games,
         DOMAIN levels \subseteq DOMAIN levels', touched \subseteq touched',
         \A l \in DOMAIN levels : <<"level", l>> \in touched' \/ levels'[l] = levels[l],
         \A g \in DOMAIN games :
           /\ \/ <<"game", g>> \in touched'
              \/ games'[g].content = games[g].content /\ games'[g].pub = games[g].pub
           /\ <<"asset", g>> \in touched' \/ games'[g].asset = games[g].asset
           /\ <<"order", g>> \in touched' \/ games'[g].order = games[g].order,
         ~raced' => /\ ~raced
                    /\ \/ job.at \notin Finding
                       \/ \A g \in DOMAIN games : games'[g].order = games[g].order
  PROVE  IInv'
<1>1. SameReport /\ (Complete' <=> Complete) /\ \A i : Id(i)' = Id(i)
  BY DEF SameReport, Complete, Id
<1>2. JobInv'
  BY DEF IInv, JobInv
<1>3. ReportInv'
  BY <1>1 DEF IInv, ReportInv
<1>4. MadeInv'
  <2>1. job'.at # "idle" => \A x \in DOMAIN r'.levelIDs \cap DOMAIN job'.ids : r'.levelIDs[x] = job'.ids[x]
    BY DEF IInv, MadeInv
  <2>2. ~raced' => IsInjective(r'.levelIDs)
    BY DEF IInv, MadeInv
  <2>3. ASSUME ~raced', job'.at \in Finding
        PROVE  /\ games'[r'.gameID].order # <<>> /\ Last(games'[r'.gameID].order) \notin Range(r'.levelIDs)
               /\ Pending' = Pending
               /\ job'.at = "find_applied" =>
                    LET l == Last(games'[r'.gameID].order)
                    IN <<"level", l>> \in touched' \/ levels'[l].content \in {Scenario[job'.k], "altered"}
    <3>1. r.gameID \in DOMAIN games
      BY <2>3, HasGame DEF Finding, Applying, Importing, Naming
    <3>2. games'[r.gameID].order = games[r.gameID].order
      BY <2>3, <3>1
    <3>3. games[r.gameID].order # <<>> /\ Last(games[r.gameID].order) \notin Range(r.levelIDs)
      BY <2>3 DEF IInv, MadeInv
    <3>4. PICK l : l = Last(games[r.gameID].order)
      OBVIOUS
    <3>5. l \in DOMAIN levels
      BY <3>1, <3>3, <3>4, LastOf DEF IInv
    <3>6. job.at = "find_applied" =>
            <<"level", l>> \in touched \/ levels[l].content \in {Scenario[job.k], "altered"}
      BY <2>3, <3>4 DEF IInv, MadeInv
    <3>7. job.at = "find_applied" =>
            <<"level", l>> \in touched' \/ levels'[l].content \in {Scenario[job.k], "altered"}
      BY <3>5, <3>6
    <3> QED BY <3>2, <3>3, <3>4, <3>7 DEF Pending
  <2>4. ~raced' /\ job'.at # "idle" => made' \ Range(r'.levelIDs) \subseteq Pending'
    <3>1. ~raced /\ job.at # "idle" => made \ Range(r.levelIDs) \subseteq Pending
      BY DEF IInv, MadeInv
    <3>2. CASE job.at \in Finding
      BY <2>3, <3>1, <3>2
    <3>3. CASE job.at \notin Finding
      BY <3>1, <3>3 DEF Pending
    <3> QED BY <3>2, <3>3
  <2>5. job'.at = "find_applied" => job'.at \in Finding
    BY DEF Finding
  <2> QED BY <2>1, <2>2, <2>3, <2>4, <2>5 DEF MadeInv
<1>5. ContentInv'
  <2>1. ASSUME NEW i \in 1 .. Len(r.completed), Holds(i, Restored(i)) \/ Again(i)
        PROVE  Holds(i, Restored(i))' \/ Again(i)'
    <3>1. Id(i) \in DOMAIN levels
      BY Recorded2
    <3>2. CASE <<"level", Id(i)>> \in touched'
      BY <1>1, <3>2 DEF Holds
    <3>3. CASE levels'[Id(i)] = levels[Id(i)]
      <4>1. Restored(i)' <=> Restored(i)
        BY <1>1 DEF Restored
      <4> QED BY <1>1, <2>1, <3>3, <4>1, ContentSame
    <3> QED BY <3>1, <3>2, <3>3
  <2> QED BY <1>1, <2>1 DEF IInv, ContentInv
<1>6. OrderInv'
  <2>1. Listed => r.gameID \in DOMAIN games
    BY <1>1 DEF IInv, ReportInv, Listed, Importing, Ordering
  <2> QED BY <1>1, <2>1 DEF IInv, OrderInv, Listed, Aligned
<1>7. GameInv'
  <2>1. job.at \in Importing \ {"upload_asset"} \/ Complete => r.gameID \in DOMAIN games
    BY <1>1 DEF IInv, ReportInv
  <2>2. Complete => r.gameID \in DOMAIN games
    BY <2>1
  <2>3. Complete' => \/ <<"game", r'.gameID>> \in touched'
                     \/ games'[r'.gameID].content = "scenario" /\ On(games'[r'.gameID].pub) = GamePublished
    <3>1. Complete => \/ <<"game", r.gameID>> \in touched
                      \/ games[r.gameID].content = "scenario" /\ On(games[r.gameID].pub) = GamePublished
      BY DEF IInv, GameInv
    <3> QED BY <1>1, <2>2, <3>1 DEF On
  <2> QED BY <1>1, <2>1, <2>3 DEF IInv, GameInv
<1>8. TruthInv'
  <2>1. ASSUME NEW i \in 1 .. Len(r.completed) PROVE Told(i)'
    <3>1. Told(i) /\ Id(i) \in DOMAIN levels
      BY Recorded2 DEF IInv, TruthInv
    <3> QED BY <1>1, <3>1 DEF Told, InGame
  <2>2. Spare'
    BY DEF IInv, TruthInv, Spare
  <2> QED BY <1>1, <2>1, <2>2 DEF TruthInv, SameReport
<1> QED BY <1>2, <1>3, <1>4, <1>5, <1>6, <1>7, <1>8 DEF IInv

LEMMA OthersKeep == IInv /\ Others => IInv'
<1> SUFFICES ASSUME IInv, Others PROVE IInv'
  OBVIOUS
<1> USE DEF IInv
<1>1. ASSUME NEW g, NEW items, OtherListChange(g, items)
      PROVE  /\ UNCHANGED <<job, r, seen, made>> /\ touched \subseteq touched'
             /\ <<"order", g>> \in touched' /\ items \subseteq touched'
             /\ ~raced' => ~raced /\ job.at \notin Finding
  BY <1>1 DEF OtherListChange, Touch, Finding
<1>2. ASSUME NEW item, Touch({item})
      PROVE  UNCHANGED <<job, r, seen, made>> /\ touched \subseteq touched' /\ item \in touched'
  BY <1>2 DEF Touch
<1>3. ASSUME NEW g \in DOMAIN games, OtherAdds(g) PROVE IInv'
  <2>1. PICK n : n = NewLevel
    OBVIOUS
  <2>2. AddLevel(g, "foreign", "off") /\ OtherListChange(g, {<<"level", n>>})
    BY <1>3, <2>1 DEF OtherAdds
  <2>3. EngineInv /\ AddLevel(g, "foreign", "off")
    BY <2>2
  <2>4. /\ EngineInv' /\ DOMAIN games' = DOMAIN games
        /\ DOMAIN levels' = DOMAIN levels \cup {NewLevel}
        /\ \A l \in DOMAIN levels : levels'[l] = levels[l]
    BY <2>3, AddedLevel
  <2>5. \A x \in DOMAIN games :
          /\ x # g => games'[x] = games[x]
          /\ games'[x].content = games[x].content
          /\ games'[x].pub = games[x].pub /\ games'[x].asset = games[x].asset
    BY <2>3, AddedLevel
  <2>6. \A x \in DOMAIN games : <<"order", x>> \in touched' \/ games'[x].order = games[x].order
    BY <1>1, <2>2, <2>5
  <2> QED BY <1>1, <2>2, <2>4, <2>5, <2>6, Meanwhile
<1>4. ASSUME NEW l \in DOMAIN levels, OtherDeletes(l) PROVE IInv'
  <2>1. PICK g : g = levels[l].game
    OBVIOUS
  <2>2. OtherListChange(g, {<<"level", l>>})
    BY <1>4, <2>1 DEF OtherDeletes
  <2>3. /\ EngineInv' /\ DOMAIN games' = DOMAIN games /\ DOMAIN levels' = DOMAIN levels
        /\ \A x \in DOMAIN levels : x # l => levels'[x] = levels[x]
        /\ \A x \in DOMAIN games :
             /\ x # g => games'[x] = games[x]
             /\ games'[x].content = games[x].content
             /\ games'[x].pub = games[x].pub /\ games'[x].asset = games[x].asset
    BY <1>4, <2>1, DeletedLevel
  <2>4. \A x \in DOMAIN levels : <<"level", x>> \in touched' \/ levels'[x] = levels[x]
    BY <1>1, <2>2, <2>3
  <2>5. \A x \in DOMAIN games : <<"order", x>> \in touched' \/ games'[x].order = games[x].order
    BY <1>1, <2>2, <2>3
  <2> QED BY <1>1, <2>2, <2>3, <2>4, <2>5, Meanwhile
<1>5. ASSUME NEW l \in DOMAIN levels, OtherMovesUp(l) PROVE IInv'
  <2>1. PICK g : g = levels[l].game
    OBVIOUS
  <2>2. g # 0 /\ MoveUp(g, l) /\ levels' = levels /\ OtherListChange(g, {})
    BY <1>5, <2>1 DEF OtherMovesUp
  <2>3. g \in DOMAIN games
    BY <2>1, <2>2 DEF EngineInv
  <2>4. /\ EngineInv' /\ DOMAIN games' = DOMAIN games
        /\ \A x \in DOMAIN games :
             /\ x # g => games'[x] = games[x]
             /\ games'[x].content = games[x].content
             /\ games'[x].pub = games[x].pub /\ games'[x].asset = games[x].asset
    BY <2>2, <2>3, MovedUp
  <2>5. \A x \in DOMAIN games : <<"order", x>> \in touched' \/ games'[x].order = games[x].order
    BY <1>1, <2>2, <2>4
  <2> QED BY <1>1, <2>2, <2>4, <2>5, Meanwhile
<1>6. ASSUME NEW l \in DOMAIN levels, OtherEdits(l) PROVE IInv'
  <2>1. PICK p : p = IF On(levels[l].pub) THEN "off" ELSE "theirs"
    OBVIOUS
  <2>2. /\ games' = games /\ raced' = raced /\ Touch({<<"level", l>>})
        /\ \/ levels' = [levels EXCEPT ![l].content = "foreign"]
           \/ levels' = [levels EXCEPT ![l].pub = p]
    BY <1>6, <2>1 DEF OtherEdits
  <2>3. DOMAIN levels[l] = LevelFields
    BY DEF EngineInv
  <2>4. PICK n : /\ DOMAIN n = LevelFields /\ n.game = levels[l].game
                 /\ levels' = [levels EXCEPT ![l] = n]
    <3>1. CASE levels' = [levels EXCEPT ![l].content = "foreign"]
      <4>1. PICK m : m = [levels[l] EXCEPT !.content = "foreign"]
        OBVIOUS
      <4>2. DOMAIN m = LevelFields /\ m.game = levels[l].game
        BY <2>3, <4>1 DEF LevelFields
      <4> QED BY <3>1, <4>1, <4>2
    <3>2. CASE levels' = [levels EXCEPT ![l].pub = p]
      <4>1. PICK m : m = [levels[l] EXCEPT !.pub = p]
        OBVIOUS
      <4>2. DOMAIN m = LevelFields /\ m.game = levels[l].game
        BY <2>3, <4>1 DEF LevelFields
      <4> QED BY <3>2, <4>1, <4>2
    <3> QED BY <2>2, <3>1, <3>2
  <2>5. /\ EngineInv' /\ DOMAIN levels' = DOMAIN levels
        /\ \A x \in DOMAIN levels : x # l => levels'[x] = levels[x]
    BY <2>2, <2>4, LevelWith
  <2>6. \A x \in DOMAIN levels : <<"level", x>> \in touched' \/ levels'[x] = levels[x]
    BY <1>2, <2>2, <2>5
  <2> QED BY <1>2, <2>2, <2>5, <2>6, Meanwhile
<1>7. ASSUME NEW g \in DOMAIN games, NEW n, DOMAIN n = GameFields, n.order = games[g].order,
             games' = [games EXCEPT ![g] = n], levels' = levels, raced' = raced,
             UNCHANGED <<job, r, seen, made>>, touched \subseteq touched',
             <<"game", g>> \in touched' \/ (n.content = games[g].content /\ n.pub = games[g].pub),
             <<"asset", g>> \in touched' \/ n.asset = games[g].asset
      PROVE  IInv'
  <2>1. /\ EngineInv' /\ DOMAIN games' = DOMAIN games /\ games'[g] = n
        /\ \A x \in DOMAIN games : x # g => games'[x] = games[x]
    BY <1>7, GameWith
  <2> QED BY <1>7, <2>1, Meanwhile
<1>8. ASSUME NEW g \in DOMAIN games, OtherEditsGame(g) PROVE IInv'
  <2>1. PICK p : p = IF On(games[g].pub) THEN "off" ELSE "theirs"
    OBVIOUS
  <2>2. /\ levels' = levels /\ raced' = raced /\ Touch({<<"game", g>>})
        /\ \/ games' = [games EXCEPT ![g].content = "foreign"]
           \/ games' = [games EXCEPT ![g].pub = p]
    BY <1>8, <2>1 DEF OtherEditsGame
  <2>3. DOMAIN games[g] = GameFields
    BY DEF EngineInv
  <2>4. PICK n : /\ DOMAIN n = GameFields /\ n.order = games[g].order /\ n.asset = games[g].asset
                 /\ games' = [games EXCEPT ![g] = n]
    <3>1. CASE games' = [games EXCEPT ![g].content = "foreign"]
      <4>1. PICK m : m = [games[g] EXCEPT !.content = "foreign"]
        OBVIOUS
      <4>2. DOMAIN m = GameFields /\ m.order = games[g].order /\ m.asset = games[g].asset
        BY <2>3, <4>1 DEF GameFields
      <4> QED BY <3>1, <4>1, <4>2
    <3>2. CASE games' = [games EXCEPT ![g].pub = p]
      <4>1. PICK m : m = [games[g] EXCEPT !.pub = p]
        OBVIOUS
      <4>2. DOMAIN m = GameFields /\ m.order = games[g].order /\ m.asset = games[g].asset
        BY <2>3, <4>1 DEF GameFields
      <4> QED BY <3>2, <4>1, <4>2
    <3> QED BY <2>2, <3>1, <3>2
  <2> QED BY <1>2, <1>7, <2>2, <2>4
<1>9. ASSUME NEW g \in DOMAIN games, OtherUploads(g) PROVE IInv'
  <2>1. DOMAIN games[g] = GameFields
    BY DEF EngineInv
  <2>2. PICK n : n = [games[g] EXCEPT !.asset = "other"]
    OBVIOUS
  <2>3. /\ DOMAIN n = GameFields /\ n.order = games[g].order /\ n.content = games[g].content
        /\ n.pub = games[g].pub
    BY <2>1, <2>2 DEF GameFields
  <2>4. /\ levels' = levels /\ raced' = raced /\ Touch({<<"asset", g>>})
        /\ games' = [games EXCEPT ![g] = n]
    BY <1>9, <2>2 DEF OtherUploads
  <2> QED BY <1>2, <1>7, <2>3, <2>4
<1> QED BY <1>3, <1>4, <1>5, <1>6, <1>8, <1>9 DEF Others

-----------------------------------------------------------------------------
(* The beginning, and every step *)

LEMMA InitHolds == Init => IInv
<1> SUFFICES ASSUME Init PROVE IInv
  OBVIOUS
<1>1. PICK p \in {"off", "theirs"} : \E n \in {0, Count} :
        /\ games = <<[content |-> "foreign", pub |-> p, asset |-> "none", order |-> [i \in 1 .. n |-> i]]>>
        /\ levels = [i \in 1 .. n |-> [game |-> 1, content |-> "foreign", pub |-> p]]
  BY DEF Init
<1>2. PICK n \in {0, Count} :
        /\ games = <<[content |-> "foreign", pub |-> p, asset |-> "none", order |-> [i \in 1 .. n |-> i]]>>
        /\ levels = [i \in 1 .. n |-> [game |-> 1, content |-> "foreign", pub |-> p]]
  BY <1>1
<1>3. PICK o, e, m : /\ o = [i \in 1 .. n |-> i]
                     /\ e = [content |-> "foreign", pub |-> p, asset |-> "none", order |-> o]
                     /\ m = [game |-> 1, content |-> "foreign", pub |-> p]
  OBVIOUS
<1>4. games = <<e>> /\ levels = [i \in 1 .. n |-> m] /\ n \in Nat
  BY <1>2, <1>3, KeysOnce
<1>5. /\ DOMAIN e = GameFields /\ e.order = o /\ DOMAIN m = LevelFields /\ m.game = 1
  BY <1>3 DEF GameFields, LevelFields
<1>6. DOMAIN games = {1} /\ games[1] = e /\ games \in Seq(Range(games))
  <2>1. games \in Seq({e}) /\ Len(games) = 1 /\ games[1] = e
    BY <1>4
  <2>2. DOMAIN games = {1}
    BY <2>1, LenProperties
  <2> QED BY <2>1, <2>2, OwnRange
<1>7. DOMAIN levels = 1 .. n /\ (\A l \in 1 .. n : levels[l] = m) /\ levels \in Seq(Range(levels))
  <2>1. levels \in [1 .. n -> {m}]
    BY <1>4
  <2>2. levels \in Seq({m})
    BY <1>4, <2>1, SeqDef
  <2> QED BY <2>1, <2>2, OwnRange
<1>8. o \in Seq(Nat) /\ IsInjective(o) /\ Range(o) = 1 .. n
  <2>1. o \in [1 .. n -> Nat] /\ \A i \in 1 .. n : o[i] = i
    BY <1>3, <1>4
  <2>2. o \in Seq(Nat) /\ DOMAIN o = 1 .. n
    BY <1>4, <2>1, SeqDef
  <2> QED BY <2>1, <2>2 DEF IsInjective, Range
<1>9. EngineInv
  <2>1. {l \in DOMAIN levels : levels[l].game = 1} = 1 .. n
    BY <1>5, <1>7
  <2> QED BY <1>5, <1>6, <1>7, <1>8, <2>1 DEF EngineInv
<1>10. /\ DOMAIN job = JobFields /\ job.kind = "import" /\ job.at = "idle" /\ job.k = 1
  BY DEF Init, JobFields
<1>11. /\ DOMAIN r = ReportFields /\ r.gameID = 0 /\ r.levelIDs = <<>> /\ r.completed = <<>>
       /\ r.stage = "preflight" /\ made = {} /\ raced = FALSE
  BY DEF Init, Report, ReportFields
<1>12. /\ "idle" \in Places /\ "idle" \notin Importing \cup Applying \cup Entering \cup Finding
       /\ "idle" \notin Preparing \cup Naming \cup Filling \cup Ordering \cup Flagging \cup Closing
       /\ ~Complete
  BY <1>11 DEF Places, Entering, Importing, Applying, Preparing, Naming, Filling, Ordering, Flagging,
               Closing, Finding, Complete
<1>13. <<>> \in Seq(Keys) /\ Len(<<>>) = 0 /\ DOMAIN <<>> = {}
  BY EmptySeq
<1>14. JobInv
  BY <1>10, <1>12 DEF JobInv, Turn, Levelless
<1>15. ReportInv
  BY <1>10, <1>11, <1>12, <1>13, KeysOnce DEF ReportInv
<1>16. MadeInv
  <2>1. IsInjective(r.levelIDs)
    BY <1>11, <1>13 DEF IsInjective
  <2> QED BY <1>10, <1>11, <1>12, <2>1 DEF MadeInv, Finding
<1>17. ContentInv /\ OrderInv /\ GameInv
  BY <1>10, <1>12 DEF ContentInv, OrderInv, GameInv, Listed, Aligned
<1>18. TruthInv
  BY <1>11, <1>13 DEF TruthInv, Spare
<1> QED BY <1>9, <1>14, <1>15, <1>16, <1>17, <1>18 DEF IInv

LEMMA NextKeeps == IInv /\ [Next]_vars => IInv'
<1> SUFFICES ASSUME IInv, [Next]_vars PROVE IInv'
  OBVIOUS
<1>1. CASE StartImport \/ StartPlan
  BY <1>1, StartKeeps
<1>2. CASE Writes
  BY <1>2, CreateGameKeeps, UploadAssetKeeps, WriteGameKeeps, CreateShellKeeps, WriteLevelKeeps,
     MoveLevelKeeps, RestoreLevelKeeps, RestoreGameKeeps, ApplyCreateKeeps, ApplyUpdateKeeps DEF Writes
<1>3. CASE Reads
  BY <1>3, PreflightKeeps, VerifyGameKeeps, UseMappedKeeps, FindShellKeeps, VerifyLevelKeeps,
     ListLevelsKeeps, InPlaceKeeps, RelistKeeps, VerifyFlagsKeeps, VerifyGameFlagsKeeps,
     BeginApplyKeeps, FindAppliedKeeps DEF Reads
<1>4. CASE RequestFails
  BY <1>4, RequestFailsKeeps
<1>5. CASE Others
  BY <1>5, OthersKeep
<1>6. CASE UNCHANGED vars
  <2>1. games' = games /\ levels' = levels /\ UNCHANGED <<job, r, seen, touched, made, raced>>
    BY <1>6 DEF vars
  <2>2. EngineInv'
    BY <2>1 DEF IInv, EngineInv
  <2> QED BY <2>1, <2>2, Meanwhile
<1> QED BY <1>1, <1>2, <1>3, <1>4, <1>5, <1>6 DEF Next

\* The inductive invariant holds in every state of every behaviour.
THEOREM Invariance == Spec => []IInv
<1>1. Init => IInv
  BY InitHolds
<1>2. IInv /\ [Next]_vars => IInv'
  BY NextKeeps
<1> QED BY <1>1, <1>2, PTL DEF Spec

-----------------------------------------------------------------------------
(* The properties *)

\* The report is true wherever the call stopped (gamesource/scenario_import.go and
\* archive.go, whose reports are what the organizer decides by after a failure).
THEOREM ReportIsTrue == Spec => []ReportTellsTruth
<1>1. IInv => ReportTellsTruth
  BY TruthOfReport DEF IInv
<1> QED BY <1>1, Invariance, PTL

\* Where the list that was read back still stands, its levels are the scenario's.
LEMMA LevelsInPlace ==
  ASSUME IInv, Aligned, <<"order", r.gameID>> \notin touched
  PROVE  /\ Len(games[r.gameID].order) = Count
         /\ \A i \in 1 .. Count :
              /\ games[r.gameID].order[i] = Id(i)
              /\ \/ i = job.k /\ job.at = "verify_flags"
                 \/ Written(r.gameID, i, Id(i)) /\ Holds(i, Restored(i))
<1>1. /\ seen = games[r.gameID].order /\ Len(seen) = Count /\ \A i \in 1 .. Count : seen[i] = Id(i)
  BY DEF IInv, OrderInv, Listed, Aligned
<1>2. ASSUME NEW i \in 1 .. Count, ~(i = job.k /\ job.at = "verify_flags")
      PROVE  Written(r.gameID, i, Id(i)) /\ Holds(i, Restored(i))
  <2>1. job.at \in Importing \/ Complete
    BY DEF Aligned, Importing
  <2>2. Holds(i, Restored(i))
    BY <1>2, <2>1, AlignedIds DEF IInv, ContentInv
  <2> QED BY <2>2 DEF Holds, InGame, Written
<1> QED BY <1>1, <1>2

LEMMA HeldFlag ==
  ASSUME NEW i, Holds(i, Restored(i)), Restored(i) <=> Marked(i)
  PROVE  Flagged(i, Id(i))
<1>1. <<"level", Id(i)>> \in touched \/ (On(levels[Id(i)].pub) <=> Marked(i))
  BY DEF Holds
<1>2. (On(levels[Id(i)].pub) <=> Marked(i)) => On(levels[Id(i)].pub) = (Scenario[i] \in Published)
  BY DEF On, Marked
<1> QED BY <1>1, <1>2 DEF Flagged

\* A report of a complete import means that the game is the scenario, but for what the
\* other organizer changed after it was read back.
THEOREM CompleteIsEqual == Spec => []CompleteMeansEqual
<1>1. ASSUME IInv, Complete PROVE CompleteMeansEqual
  <2>1. Aligned /\ job.at # "verify_flags"
    <3>1. job.at = "idle"
      BY <1>1 DEF IInv, ReportInv
    <3> QED BY <1>1, <3>1 DEF Aligned
  <2>2. WholeBut(r.gameID, {})
    BY <1>1, <2>1, LevelsInPlace DEF WholeBut
  <2>3. AllFlagged(r.gameID)
    <3>1. \A i \in 1 .. Count : Restored(i) <=> Marked(i)
      BY <1>1 DEF Restored
    <3> QED BY <1>1, <2>1, <3>1, LevelsInPlace, HeldFlag DEF AllFlagged
  <2> QED BY <1>1, <2>2, <2>3 DEF IInv, GameInv, CompleteMeansEqual
<1>2. IInv => CompleteMeansEqual
  BY <1>1 DEF CompleteMeansEqual, Complete
<1> QED BY <1>2, Invariance, PTL

-----------------------------------------------------------------------------
(* Publication *)

LEMMA ReadsOnly == Reads \/ RequestFails \/ StartImport \/ StartPlan => UNCHANGED engine
<1>1. ASSUME NEW kind, NEW g, NEW ids, Start(kind, g, ids) PROVE UNCHANGED engine
  BY <1>1 DEF Start, engine
<1>2. StartImport \/ StartPlan => UNCHANGED engine
  BY <1>1 DEF StartImport, StartPlan
<1>3. Preflight \/ VerifyGame \/ UseMapped \/ FindShell => UNCHANGED engine
  BY DEF Preflight, VerifyGame, ReadBackGame, UseMapped, FindShell, FindLevel, engine
<1>4. VerifyLevel \/ ListLevels \/ InPlace \/ Relist => UNCHANGED engine
  BY DEF VerifyLevel, ReadBackLevel, ListLevels, ReadList, InPlace, Relist, engine
<1>5. VerifyFlags \/ VerifyGameFlags \/ BeginApply \/ FindApplied \/ RequestFails => UNCHANGED engine
  BY DEF VerifyFlags, ReadBackLevel, VerifyGameFlags, ReadBackGame, BeginApply, FindApplied,
         RequestFails, engine
<1> QED BY <1>2, <1>3, <1>4, <1>5 DEF Reads

\* Only RestoreLevel switches a level's flag on.
LEMMA LevelSwitched ==
  ASSUME IInv, [Next]_vars, job.kind = "import", NEW l \in DOMAIN levels,
         levels'[l].pub = "ours", levels[l].pub # "ours"
  PROVE  RestoreLevel /\ l = Target
<1>1. levels' # levels
  OBVIOUS
<1>2. ~(Reads \/ RequestFails \/ StartImport \/ StartPlan) /\ ~UNCHANGED vars
  BY <1>1, ReadsOnly DEF engine, vars
<1>3. Writes \/ Others
  BY <1>2 DEF Next
<1>4. ~Others
  <2>1. ASSUME NEW g \in DOMAIN games, OtherAdds(g) PROVE FALSE
    <3>1. EngineInv /\ AddLevel(g, "foreign", "off")
      BY <2>1 DEF OtherAdds, IInv
    <3>2. \A x \in DOMAIN levels : levels'[x] = levels[x]
      BY <3>1, AddedLevel
    <3> QED BY <3>2
  <2>2. ASSUME NEW g \in DOMAIN games, OtherEditsGame(g) \/ OtherUploads(g) PROVE FALSE
    BY <1>1, <2>2 DEF OtherEditsGame, OtherUploads
  <2>3. ASSUME NEW x \in DOMAIN levels, OtherDeletes(x) PROVE FALSE
    <3>1. /\ \A y \in DOMAIN levels : y # x => levels'[y] = levels[y]
          /\ levels'[x].pub = levels[x].pub
      BY <2>3, DeletedLevel DEF IInv
    <3> QED BY <3>1
  <2>4. ASSUME NEW x \in DOMAIN levels, OtherMovesUp(x) PROVE FALSE
    BY <1>1, <2>4 DEF OtherMovesUp
  <2>5. ASSUME NEW x \in DOMAIN levels, OtherEdits(x) PROVE FALSE
    <3>1. PICK p : p = (IF On(levels[x].pub) THEN "off" ELSE "theirs")
      OBVIOUS
    <3>2. \/ levels' = [levels EXCEPT ![x].content = "foreign"]
          \/ levels' = [levels EXCEPT ![x].pub = p]
      BY <2>5, <3>1 DEF OtherEdits
    <3>3. p # "ours" /\ DOMAIN levels[x] = LevelFields
      BY <3>1 DEF IInv, EngineInv
    <3>4. levels'[x].pub \in {levels[x].pub, p} /\ \A y \in DOMAIN levels : y # x => levels'[y] = levels[y]
      BY <3>2, <3>3 DEF LevelFields
    <3> QED BY <3>3, <3>4
  <2> QED BY <2>1, <2>2, <2>3, <2>4, <2>5 DEF Others
<1>5. ~CreateGame /\ ~UploadAsset /\ ~MoveLevel
  BY <1>1 DEF CreateGame, UploadAsset, MoveLevel
<1>6. ~WriteGame /\ ~RestoreGame
  BY <1>1 DEF WriteGame, RestoreGame, ReplaceGame
<1>7. ~CreateShell
  <2> SUFFICES ASSUME CreateShell PROVE FALSE
    OBVIOUS
  <2>1. EngineInv /\ AddLevel(r.gameID, "shell", "off") /\ r.gameID \in DOMAIN games
    BY HasGame DEF CreateShell, IInv, Importing, Naming
  <2>2. \A x \in DOMAIN levels : levels'[x] = levels[x]
    BY <2>1, AddedLevel
  <2> QED BY <2>2
<1>8. ~ApplyCreate /\ ~ApplyUpdate
  BY DEF ApplyCreate, ApplyUpdate
<1>9. ~WriteLevel
  <2> SUFFICES ASSUME WriteLevel PROVE FALSE
    OBVIOUS
  <2>1. PICK x : x = Target
    OBVIOUS
  <2>2. EngineInv /\ ReplaceLevel(x, Key, FALSE)
    BY <2>1 DEF WriteLevel, IInv
  <2>3. levels'[x].pub \in {levels[x].pub, Ours(FALSE)} /\ \A y \in DOMAIN levels : y # x => levels'[y] = levels[y]
    BY <2>2, ReplacedLevel
  <2> QED BY <2>3 DEF Ours
<1>10. RestoreLevel
  BY <1>3, <1>4, <1>5, <1>6, <1>7, <1>8, <1>9 DEF Writes
<1>11. l = Target
  <2>1. PICK x : x = Target
    OBVIOUS
  <2>2. EngineInv /\ ReplaceLevel(x, Key, TRUE)
    BY <1>10, <2>1 DEF RestoreLevel, IInv
  <2>3. \A y \in DOMAIN levels : y # x => levels'[y] = levels[y]
    BY <2>2, ReplacedLevel
  <2> QED BY <2>1, <2>3
<1> QED BY <1>10, <1>11

\* Only RestoreGame switches the game's flag on.
LEMMA GameSwitched ==
  ASSUME IInv, [Next]_vars, job.kind = "import", NEW g \in DOMAIN games,
         games'[g].pub = "ours", games[g].pub # "ours"
  PROVE  RestoreGame /\ g = r.gameID
<1>1. games' # games
  OBVIOUS
<1>2. ~(Reads \/ RequestFails \/ StartImport \/ StartPlan) /\ ~UNCHANGED vars
  BY <1>1, ReadsOnly DEF engine, vars
<1>3. Writes \/ Others
  BY <1>2 DEF Next
<1>4. ~Others
  <2>1. ASSUME NEW x \in DOMAIN games, OtherAdds(x) PROVE FALSE
    <3>1. EngineInv /\ AddLevel(x, "foreign", "off")
      BY <2>1 DEF OtherAdds, IInv
    <3>2. \A y \in DOMAIN games : games'[y].pub = games[y].pub
      BY <3>1, AddedLevel
    <3> QED BY <3>2
  <2>2. ASSUME NEW x \in DOMAIN games, OtherEditsGame(x) PROVE FALSE
    <3>1. PICK p : p = (IF On(games[x].pub) THEN "off" ELSE "theirs")
      OBVIOUS
    <3>2. \/ games' = [games EXCEPT ![x].content = "foreign"]
          \/ games' = [games EXCEPT ![x].pub = p]
      BY <2>2, <3>1 DEF OtherEditsGame
    <3>3. p # "ours" /\ DOMAIN games[x] = GameFields
      BY <3>1 DEF IInv, EngineInv
    <3>4. games'[x].pub \in {games[x].pub, p} /\ \A y \in DOMAIN games : y # x => games'[y] = games[y]
      BY <3>2, <3>3 DEF GameFields
    <3> QED BY <3>3, <3>4
  <2>3. ASSUME NEW x \in DOMAIN games, OtherUploads(x) PROVE FALSE
    <3>1. games' = [games EXCEPT ![x].asset = "other"]
      BY <2>3 DEF OtherUploads
    <3>2. DOMAIN games[x] = GameFields
      BY DEF IInv, EngineInv
    <3>3. \A y \in DOMAIN games : games'[y].pub = games[y].pub
      BY <3>1, <3>2 DEF GameFields
    <3> QED BY <3>3
  <2>4. ASSUME NEW x \in DOMAIN levels, OtherDeletes(x) PROVE FALSE
    <3>1. \A y \in DOMAIN games : games'[y].pub = games[y].pub
      BY <2>4, DeletedLevel DEF IInv
    <3> QED BY <3>1
  <2>5. ASSUME NEW x \in DOMAIN levels, OtherMovesUp(x) PROVE FALSE
    <3>1. PICK y : y = levels[x].game
      OBVIOUS
    <3>2. /\ EngineInv /\ y \in DOMAIN games /\ levels' = levels
          /\ MoveUp(y, x) \/ UNCHANGED games
      BY <2>5, <3>1 DEF OtherMovesUp, IInv, EngineInv
    <3>3. \A z \in DOMAIN games : games'[z].pub = games[z].pub
      BY <3>2, MovedUp
    <3> QED BY <3>3
  <2>6. ASSUME NEW x \in DOMAIN levels, OtherEdits(x) PROVE FALSE
    BY <1>1, <2>6 DEF OtherEdits
  <2> QED BY <2>1, <2>2, <2>3, <2>4, <2>5, <2>6 DEF Others
<1>5. ~CreateGame
  <2> SUFFICES ASSUME CreateGame PROVE FALSE
    OBVIOUS
  <2>1. EngineInv /\ CreateGame
    BY DEF IInv
  <2>2. \A x \in DOMAIN games : games'[x] = games[x]
    BY <2>1, CreatedGame
  <2> QED BY <2>2
<1>6. ~UploadAsset
  <2> SUFFICES ASSUME UploadAsset PROVE FALSE
    OBVIOUS
  <2>1. games' = [games EXCEPT ![r.gameID].asset = "same"] /\ r.gameID \in DOMAIN games
    BY HasGame DEF UploadAsset, Importing, Preparing
  <2>2. DOMAIN games[r.gameID] = GameFields
    BY <2>1 DEF IInv, EngineInv
  <2>3. \A y \in DOMAIN games : games'[y].pub = games[y].pub
    BY <2>1, <2>2 DEF GameFields
  <2> QED BY <2>3
<1>7. ~WriteGame
  <2> SUFFICES ASSUME WriteGame PROVE FALSE
    OBVIOUS
  <2>1. EngineInv /\ ReplaceGame("scenario", FALSE) /\ r.gameID \in DOMAIN games
    BY HasGame DEF WriteGame, Importing, Preparing, IInv
  <2>2. games'[g].pub = games[g].pub \/ games'[g].pub = Ours(FALSE)
    BY <2>1, ReplacedGame
  <2> QED BY <2>2 DEF Ours
<1>8. ~CreateShell
  <2> SUFFICES ASSUME CreateShell PROVE FALSE
    OBVIOUS
  <2>1. EngineInv /\ AddLevel(r.gameID, "shell", "off") /\ r.gameID \in DOMAIN games
    BY HasGame DEF CreateShell, IInv, Importing, Naming
  <2>2. \A x \in DOMAIN games : games'[x].pub = games[x].pub
    BY <2>1, AddedLevel
  <2> QED BY <2>2
<1>9. ~WriteLevel /\ ~RestoreLevel
  BY <1>1 DEF WriteLevel, RestoreLevel, ReplaceLevel
<1>10. ~MoveLevel
  <2> SUFFICES ASSUME MoveLevel PROVE FALSE
    OBVIOUS
  <2>1. PICK x : x = Target
    OBVIOUS
  <2>2. /\ EngineInv /\ r.gameID \in DOMAIN games /\ levels' = levels
        /\ MoveUp(r.gameID, x) \/ UNCHANGED games
    BY <2>1, HasGame DEF MoveLevel, IInv, Importing, Ordering
  <2>3. \A z \in DOMAIN games : games'[z].pub = games[z].pub
    BY <2>2, MovedUp
  <2> QED BY <2>3
<1>11. ~ApplyCreate /\ ~ApplyUpdate
  BY DEF ApplyCreate, ApplyUpdate
<1>12. RestoreGame
  BY <1>3, <1>4, <1>5, <1>6, <1>7, <1>8, <1>9, <1>10, <1>11 DEF Writes
<1>13. g = r.gameID
  <2>1. PICK on : on = GamePublished
    OBVIOUS
  <2>2. EngineInv /\ ReplaceGame("scenario", on) /\ r.gameID \in DOMAIN games
    BY <1>12, <2>1, HasGame DEF RestoreGame, Importing, Closing, IInv
  <2>3. games'[g].pub = games[g].pub \/ g = r.gameID
    BY <2>2, ReplacedGame
  <2> QED BY <2>3
<1> QED BY <1>12, <1>13


\* A level's flag is switched on when every other level has its content and its place.
LEMMA PublishesLevel ==
  ASSUME IInv, RestoreLevel, NEW l, l = Target
  PROVE  WholeBut(levels[l].game, {i \in 1 .. Count : Scenario[i] = r.key})'
<1>1. PICK k, g : k = job.k /\ g = r.gameID
  OBVIOUS
<1>2. /\ job.at = "flags" /\ ReplaceLevel(l, Key, TRUE) /\ touched' = touched
      /\ Step("verify_flags", k, r) \/ Stop
  BY <1>1 DEF RestoreLevel, Carry
<1>3. /\ games' = games /\ l \in DOMAIN levels /\ levels'[l].game = g
      /\ \A x \in DOMAIN levels : x # l => levels'[x] = levels[x]
  <2>1. EngineInv /\ ReplaceLevel(l, Key, TRUE)
    BY <1>2 DEF IInv
  <2> QED BY <1>1, <2>1, ReplacedLevel
<1>4. /\ job.at \in Flagging /\ job.at # "verify_flags" /\ Aligned /\ k \in 1 .. Count
      /\ r.key = Scenario[k] /\ l = Id(k) /\ Len(r.completed) = Count
  <2>1. job.at \in Flagging /\ job.at # "verify_flags" /\ Aligned
    BY <1>2 DEF Flagging, Aligned
  <2>2. k \in 1 .. Count /\ r.key = Scenario[k] /\ l = Id(k)
    BY <1>1, <2>1, AtLevel DEF IInv, JobInv, ReportInv, Target, Key, Id
  <2> QED BY <2>1, <2>2, AlignedIds
<1>5. r'.key = Scenario[k]
  <2>1. CASE Stop
    <3>1. r' = r
      BY <2>1, Returned DEF IInv, JobInv, Stop
    <3> QED BY <1>4, <3>1
  <2>2. CASE Step("verify_flags", k, r)
    <3>1. "verify_flags" \in Places \ {"idle"} /\ "verify_flags" \in Flagging
      BY DEF Places, Importing, Flagging
    <3> QED BY <2>2, <3>1, WentOn DEF Went
  <2> QED BY <1>2, <2>1, <2>2
<1>6. ASSUME <<"order", g>> \notin touched'
      PROVE  /\ Len(games'[g].order) = Count
             /\ \A i \in 1 .. Count : Scenario[i] # r'.key => Written(g, i, games[g].order[i])'
  <2>1. /\ Len(games[g].order) = Count
        /\ \A i \in 1 .. Count : games[g].order[i] = Id(i) /\ Written(g, i, Id(i))
    BY <1>1, <1>2, <1>4, <1>6, LevelsInPlace
  <2>2. ASSUME NEW i \in 1 .. Count, Scenario[i] # r'.key
        PROVE  Written(g, i, games[g].order[i])'
    <3>1. i # k
      BY <1>5, <2>2
    <3>2. Id(i) # l /\ Id(i) \in DOMAIN levels
      BY <1>4, <3>1, AlignedIds, Recorded2
    <3>3. levels'[Id(i)] = levels[Id(i)] /\ games'[g].order[i] = Id(i)
      BY <1>3, <2>1, <3>2
    <3> QED BY <1>2, <2>1, <3>3 DEF Written
  <2> QED BY <1>3, <2>1, <2>2
<1>7. levels'[l].game = g
  BY <1>3
<1>8. \A i \in (1 .. Count) \ {j \in 1 .. Count : Scenario[j] = r'.key} :
        i \in 1 .. Count /\ Scenario[i] # r'.key
  OBVIOUS
<1> QED BY <1>6, <1>7, <1>8 DEF WholeBut

\* The game's flag is switched on when every level has its content, place and flag.
LEMMA PublishesGame ==
  ASSUME IInv, RestoreGame, NEW g, g = r.gameID
  PROVE  WholeBut(g, {})' /\ AllFlagged(g)'
<1>1. job.at = "game_flags" /\ ReplaceGame("scenario", GamePublished) /\ touched' = touched
  BY DEF RestoreGame
<1>2. job.at \in Closing /\ job.at # "verify_flags" /\ Aligned /\ g \in DOMAIN games
  <2>1. job.at \in Closing
    BY <1>1 DEF Closing
  <2> QED BY <1>1, <2>1, HasGame DEF Aligned, Importing
<1>3. levels' = levels /\ games'[g].order = games[g].order
  <2>1. PICK on : on = GamePublished
    OBVIOUS
  <2>2. EngineInv /\ ReplaceGame("scenario", on) /\ r.gameID \in DOMAIN games
    BY <1>1, <1>2, <2>1 DEF IInv
  <2> QED BY <2>2, ReplacedGame
<1>4. ASSUME <<"order", g>> \notin touched
      PROVE  /\ Len(games[g].order) = Count
             /\ \A i \in 1 .. Count : /\ Written(g, i, games[g].order[i])
                                      /\ Flagged(i, games[g].order[i])
  <2>1. /\ Len(games[g].order) = Count
        /\ \A i \in 1 .. Count : games[g].order[i] = Id(i) /\ Written(g, i, Id(i)) /\ Holds(i, Restored(i))
    BY <1>2, <1>4, LevelsInPlace
  <2>2. \A i \in 1 .. Count : Restored(i) <=> Marked(i)
    BY <1>2 DEF Restored
  <2> QED BY <2>1, <2>2, HeldFlag
<1>5. ASSUME NEW i, NEW l
      PROVE  /\ Written(g, i, l)' <=> Written(g, i, l)
             /\ Flagged(i, l)' <=> Flagged(i, l)
  BY <1>1, <1>3 DEF Written, Flagged
<1> QED BY <1>1, <1>3, <1>4, <1>5 DEF WholeBut, AllFlagged

\* An import publishes nothing before the whole scenario was read back in the destination:
\* restoreScenarioFlags (gamesource/scenario_import.go) runs last, the game's flag after
\* the levels'.
THEOREM WholeBeforePublished == Spec => PublishedOnlyWhole
<1> DEFINE Whole ==
      job.kind = "import" =>
        /\ \A l \in DOMAIN levels : levels'[l].pub = "ours" /\ levels[l].pub # "ours" =>
             WholeBut(levels[l].game, {i \in 1 .. Count : Scenario[i] = r.key})'
        /\ \A g \in DOMAIN games : games'[g].pub = "ours" /\ games[g].pub # "ours" =>
             WholeBut(g, {})' /\ AllFlagged(g)'
<1>1. ASSUME IInv, [Next]_vars PROVE Whole
  <2> SUFFICES ASSUME job.kind = "import" PROVE Whole
    OBVIOUS
  <2>1. ASSUME NEW l \in DOMAIN levels, levels'[l].pub = "ours", levels[l].pub # "ours"
        PROVE  WholeBut(levels[l].game, {i \in 1 .. Count : Scenario[i] = r.key})'
    <3>1. RestoreLevel /\ l = Target
      BY <1>1, <2>1, LevelSwitched
    <3> QED BY <1>1, <3>1, PublishesLevel
  <2>2. ASSUME NEW g \in DOMAIN games, games'[g].pub = "ours", games[g].pub # "ours"
        PROVE  WholeBut(g, {})' /\ AllFlagged(g)'
    <3>1. RestoreGame /\ g = r.gameID
      BY <1>1, <2>2, GameSwitched
    <3> QED BY <1>1, <3>1, PublishesGame
  <2> QED BY <2>1, <2>2
<1> QED BY <1>1, Invariance, PTL DEF Spec, PublishedOnlyWhole

==============================================================================
