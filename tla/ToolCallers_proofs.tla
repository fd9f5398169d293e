--------------------- MODULE ToolCallers_proofs ---------------------
(* Proofs about ToolCallers, for any sets of tools, arguments and calls and  *)
(* however often the game changes: what a read answers is not older than the *)
(* last change, and nothing is changed that was not allowed.                 *)
EXTENDS ToolCallers, TLAPS

Stages == {"free", "gate", "run", "renew", "again", "served", "clear", "over"}
Records == [at : Stages, tool : Read \cup Local \cup Write \cup {NoArgs}, args : Args \cup {NoArgs},
            ok : BOOLEAN, value : Nat, late : BOOLEAN, sent : Nat, since : Nat]
Entries == [value : Nat, late : BOOLEAN]

CallsTyped ==
  /\ policy \in {"readonly", "approve", "full"}
  /\ version \in Nat /\ floor \in Nat /\ floor <= version /\ panicked \in BOOLEAN
  /\ cache \in [DOMAIN cache -> Entries]
  /\ calls \in [Slot -> Records]
  /\ answers \subseteq [args : Args, yes : BOOLEAN]
  /\ \A b \in answers : b.args \in asked

(* What is cached is from after the last change; so is an answer on its way, *)
(* unless the change came in between, and what is returned.                  *)
CacheInv == \A t \in DOMAIN cache : cache[t].value >= floor \/ cache[t].late \/ panicked
FreshCall(c) ==
  /\ c.since <= floor
  /\ c.at = "served" => c.value >= c.since /\ (c.value >= floor \/ c.late)
  /\ c.at = "over" /\ c.tool \in Read /\ c.ok => c.value >= c.since \/ c.late \/ panicked

(* A changing call is sent when it has passed the gate, and once.            *)
Allowed(args) == policy # "readonly" /\ (caller = "mcp" /\ policy = "approve" => Accepted(args))
WriteCall(c) ==
  /\ c.at = "clear" => c.tool \in Write
  /\ c.at = "free" => c.sent = 0
  /\ c.tool \in Write =>
       /\ c.at \in {"free", "gate", "run", "clear", "over"}
       /\ c.at \in {"gate", "run"} => c.sent = 0
       /\ c.at = "gate" /\ policy # "readonly" => Allowed(c.args)
       /\ c.at = "run" => Allowed(c.args)
       /\ c.sent > 0 => c.sent = 1 /\ Allowed(c.args)

(* The loop has one call at a time, and only there a panic is survived.      *)
AloneInv ==
  /\ caller \in {"loop", "mcp"}
  /\ caller = "loop" => \A s \in Slot : calls[s].at # "free" => s = LoopSlot /\ loop.at = "calling"
  /\ caller = "mcp" => ~panicked

CallInv == \A s \in Slot : FreshCall(calls[s]) /\ WriteCall(calls[s])
ToolInv == CallsTyped /\ CacheInv /\ CallInv /\ AloneInv
LoopShape == "at" \in DOMAIN loop

-----------------------------------------------------------------------------
(* A step that only changes the call in slot s, and perhaps the game and the *)
(* cache, keeps the invariant when the call it makes is a good one.          *)
LEMMA OneCall ==
  ASSUME ToolInv, NEW s \in Slot, NEW g \in Records, calls' = [calls EXCEPT ![s] = g],
         UNCHANGED <<policy, floor, panicked, asked, answers, caller>>,
         version' \in Nat, version <= version',
         cache' \in [DOMAIN cache' -> Entries], CacheInv',
         FreshCall(g), WriteCall(g),
         caller = "loop" => s = LoopSlot /\ (g.at # "free" => loop'.at = "calling")
  PROVE  ToolInv'
<1>1. calls' \in [Slot -> Records] /\ calls'[s] = g /\ \A x \in Slot : x # s => calls'[x] = calls[x]
  BY DEF ToolInv, CallsTyped
<1>2. CallsTyped'
  BY <1>1 DEF ToolInv, CallsTyped
<1>3. ASSUME NEW c, FreshCall(c), WriteCall(c)
      PROVE  FreshCall(c)' /\ WriteCall(c)'
  BY <1>3 DEF FreshCall, WriteCall, Allowed, Accepted
<1>4. CallInv'
  <2> SUFFICES ASSUME NEW x \in Slot PROVE FreshCall(calls[x])' /\ WriteCall(calls[x])'
    BY DEF CallInv
  <2>1. PICK c : c = calls'[x]
    OBVIOUS
  <2>2. FreshCall(c) /\ WriteCall(c)
    BY <1>1, <2>1 DEF ToolInv, CallInv
  <2>3. FreshCall(c)' /\ WriteCall(c)'
    BY <1>3, <2>2
  <2> QED BY <2>1, <2>3 DEF FreshCall, WriteCall, Allowed, Accepted
<1>5. AloneInv'
  BY <1>1 DEF ToolInv, AloneInv
<1> QED BY <1>2, <1>4, <1>5 DEF ToolInv

(* What is known of the call in a slot. *)
LEMMA SlotFacts ==
  ASSUME ToolInv, NEW s \in Slot
  PROVE  /\ calls[s] \in Records /\ FreshCall(calls[s]) /\ WriteCall(calls[s])
         /\ caller = "loop" /\ calls[s].at # "free" => s = LoopSlot /\ loop.at = "calling"
BY DEF ToolInv, CallsTyped, CallInv, AloneInv

LEMMA BeginKeeps ==
  ASSUME ToolInv, NEW s \in Slot, NEW tool \in Visible, NEW args \in Args \cup {NoArgs},
         Begin(s, tool, args), UNCHANGED <<asked, answers, caller>>,
         tool \in Write /\ policy # "readonly" => Allowed(args),
         caller = "loop" => s = LoopSlot /\ loop'.at = "calling"
  PROVE  ToolInv'
<1>0. tool \in Read \cup Local \cup Write /\ floor \in Nat /\ Read \cap Write = {}
  BY ToolsAssumption DEF Visible, ToolInv, CallsTyped
<1>1. PICK call : call = [Free EXCEPT !.tool = tool, !.args = args, !.since = floor]
  OBVIOUS
<1>2. /\ call \in Records /\ call.tool = tool /\ call.args = args /\ call.since = floor
      /\ call.sent = 0 /\ call.at = "free" /\ call.ok /\ call.value = 0
  BY <1>0, <1>1 DEF Free, NoArgs, Records, Stages
<1>3. PICK g : g = IF tool \in Write THEN [call EXCEPT !.at = "gate"]
                   ELSE IF tool \in DOMAIN cache
                     THEN [call EXCEPT !.at = "over", !.value = cache[tool].value, !.late = cache[tool].late]
                   ELSE [call EXCEPT !.at = "run"]
  OBVIOUS
<1>4. /\ calls' = [calls EXCEPT ![s] = g]
      /\ UNCHANGED <<policy, version, cache, floor, panicked>>
  BY <1>1, <1>3 DEF Begin
<1>5. /\ g \in Records /\ g.tool = tool /\ g.args = args /\ g.since = floor /\ g.sent = 0
      /\ FreshCall(g) /\ WriteCall(g)
  <2>1. CASE tool \in Write
    <3>1. g = [call EXCEPT !.at = "gate"]
      BY <1>3, <2>1
    <3>2. /\ g \in Records /\ g.tool = tool /\ g.args = args /\ g.since = floor /\ g.sent = 0
          /\ g.at = "gate"
      BY <1>2, <3>1 DEF Records, Stages
    <3> QED BY <1>0, <2>1, <3>2 DEF FreshCall, WriteCall
  <2>2. CASE tool \notin Write /\ tool \in DOMAIN cache
    <3>1. PICK v \in Nat : v = cache[tool].value
      BY <2>2 DEF ToolInv, CallsTyped, Entries
    <3>2. PICK l \in BOOLEAN : l = cache[tool].late
      BY <2>2 DEF ToolInv, CallsTyped, Entries
    <3>3. g = [call EXCEPT !.at = "over", !.value = v, !.late = l]
      BY <1>3, <2>2, <3>1, <3>2
    <3>4. /\ g \in Records /\ g.tool = tool /\ g.args = args /\ g.since = floor /\ g.sent = 0
          /\ g.at = "over" /\ g.value = v /\ g.late = l
      BY <1>2, <3>3 DEF Records, Stages
    <3>5. v >= floor \/ l \/ panicked
      BY <2>2, <3>1, <3>2 DEF ToolInv, CacheInv
    <3> QED BY <1>0, <2>2, <3>4, <3>5 DEF FreshCall, WriteCall
  <2>3. CASE tool \notin Write /\ tool \notin DOMAIN cache
    <3>1. g = [call EXCEPT !.at = "run"]
      BY <1>3, <2>3
    <3>2. /\ g \in Records /\ g.tool = tool /\ g.args = args /\ g.since = floor /\ g.sent = 0
          /\ g.at = "run"
      BY <1>2, <3>1 DEF Records, Stages
    <3> QED BY <1>0, <2>3, <3>2 DEF FreshCall, WriteCall
  <2> QED BY <2>1, <2>2, <2>3
<1>6. version' \in Nat /\ version <= version' /\ cache' \in [DOMAIN cache' -> Entries] /\ CacheInv'
  BY <1>4 DEF ToolInv, CallsTyped, CacheInv
<1> QED BY <1>4, <1>5, <1>6, OneCall

(* The steps of a call that is under way. *)
LEMMA AuthorizeKeeps ==
  ASSUME ToolInv, NEW s \in Slot, NEW yes \in BOOLEAN, Authorize(s, yes),
         UNCHANGED <<asked, answers, caller, loop>>
  PROVE  ToolInv'
<1>1. /\ calls[s] \in Records /\ FreshCall(calls[s]) /\ WriteCall(calls[s]) /\ calls[s].at = "gate"
      /\ caller = "loop" => s = LoopSlot /\ loop.at = "calling"
  BY SlotFacts DEF Authorize
<1>2. version' \in Nat /\ version <= version' /\ cache' \in [DOMAIN cache' -> Entries] /\ CacheInv'
  BY DEF Authorize, ToolInv, CallsTyped, CacheInv
<1>3. CASE policy # "readonly" /\ Goes(s, "run")
  <2>1. PICK g : g = [calls[s] EXCEPT !.at = "run"]
    OBVIOUS
  <2>2. calls' = [calls EXCEPT ![s] = g]
    BY <1>3, <2>1 DEF Goes
  <2>3. /\ g \in Records /\ g.at = "run" /\ g.tool = calls[s].tool /\ g.args = calls[s].args
        /\ g.sent = calls[s].sent /\ g.since = calls[s].since
    BY <1>1, <2>1 DEF Records, Stages
  <2>4. FreshCall(g) /\ WriteCall(g)
    BY <1>1, <1>3, <2>3 DEF FreshCall, WriteCall
  <2> QED BY <1>1, <1>2, <2>2, <2>3, <2>4, OneCall DEF Authorize
<1>4. CASE Fails(s)
  <2>1. PICK g : g = [calls[s] EXCEPT !.at = "over", !.ok = FALSE]
    OBVIOUS
  <2>2. calls' = [calls EXCEPT ![s] = g]
    BY <1>4, <2>1 DEF Fails
  <2>3. /\ g \in Records /\ g.at = "over" /\ ~g.ok /\ g.tool = calls[s].tool /\ g.args = calls[s].args
        /\ g.sent = calls[s].sent /\ g.since = calls[s].since
    BY <1>1, <2>1 DEF Records, Stages
  <2>4. FreshCall(g) /\ WriteCall(g)
    BY <1>1, <2>3 DEF FreshCall, WriteCall
  <2> QED BY <1>1, <1>2, <2>2, <2>3, <2>4, OneCall DEF Authorize
<1>5. (policy # "readonly" /\ Goes(s, "run")) \/ Fails(s)
  BY DEF Authorize
<1> QED BY <1>3, <1>4, <1>5

LEMMA NothingCached == <<>> \in [DOMAIN <<>> -> Entries] /\ DOMAIN <<>> = {}
OBVIOUS

LEMMA RunReadKeeps ==
  ASSUME ToolInv, NEW s \in Slot, RunRead(s), UNCHANGED <<asked, answers, caller, loop>>
  PROVE  ToolInv'
<1>1. /\ calls[s] \in Records /\ FreshCall(calls[s]) /\ WriteCall(calls[s])
      /\ calls[s].at \in {"run", "again"} /\ calls[s].tool \notin Write
      /\ caller = "loop" => s = LoopSlot /\ loop.at = "calling"
  BY SlotFacts DEF RunRead
<1>2. /\ version' = version /\ version \in Nat /\ floor \in Nat /\ floor <= version
      /\ UNCHANGED <<policy, floor, panicked>>
  BY DEF RunRead, ToolInv, CallsTyped
<1>3. cache' \in [DOMAIN cache' -> Entries] /\ CacheInv'
  <2>1. CASE cache' = cache
    BY <1>2, <2>1 DEF ToolInv, CallsTyped, CacheInv
  <2>2. CASE cache' = <<>>
    BY <2>2, NothingCached DEF CacheInv
  <2> QED BY <2>1, <2>2 DEF RunRead
<1>4. PICK n \in Nat : n = calls[s].sent + 1
  BY <1>1 DEF Records
<1>5. PICK g \in Records :
        /\ calls' = [calls EXCEPT ![s] = g]
        /\ g.tool = calls[s].tool /\ g.since = calls[s].since
        /\ \/ g.at = "served" /\ g.value = version
           \/ g.at = "over" /\ ~g.ok
           \/ g.at = "renew"
  <2>1. CASE calls' = [calls EXCEPT ![s].at = "served", ![s].value = version, ![s].sent = @ + 1]
    <3>1. PICK g : g = [calls[s] EXCEPT !.at = "served", !.value = version, !.sent = n]
      OBVIOUS
    <3>2. calls' = [calls EXCEPT ![s] = g]
      BY <1>4, <2>1, <3>1
    <3>3. g \in Records /\ g.at = "served" /\ g.value = version /\ g.tool = calls[s].tool
          /\ g.since = calls[s].since
      BY <1>1, <1>2, <3>1 DEF Records, Stages
    <3> QED BY <3>2, <3>3
  <2>2. CASE Sent(s, "over", FALSE)
    <3>1. PICK g : g = [calls[s] EXCEPT !.at = "over", !.ok = FALSE, !.sent = n]
      OBVIOUS
    <3>2. calls' = [calls EXCEPT ![s] = g]
      BY <1>4, <2>2, <3>1 DEF Sent
    <3>3. g \in Records /\ g.at = "over" /\ ~g.ok /\ g.tool = calls[s].tool /\ g.since = calls[s].since
      BY <1>1, <3>1 DEF Records, Stages
    <3> QED BY <3>2, <3>3
  <2>3. CASE calls' = [calls EXCEPT ![s].at = "renew", ![s].sent = @ + 1]
    <3>1. PICK g : g = [calls[s] EXCEPT !.at = "renew", !.sent = n]
      OBVIOUS
    <3>2. calls' = [calls EXCEPT ![s] = g]
      BY <1>4, <2>3, <3>1
    <3>3. g \in Records /\ g.at = "renew" /\ g.tool = calls[s].tool /\ g.since = calls[s].since
      BY <1>1, <3>1 DEF Records, Stages
    <3> QED BY <3>2, <3>3
  <2>4. CASE Refuses(s, "over")
    <3>1. PICK g : g = [calls[s] EXCEPT !.at = "over", !.ok = FALSE]
      OBVIOUS
    <3>2. calls' = [calls EXCEPT ![s] = g]
      BY <2>4, <3>1 DEF Refuses
    <3>3. g \in Records /\ g.at = "over" /\ ~g.ok /\ g.tool = calls[s].tool /\ g.since = calls[s].since
      BY <1>1, <3>1 DEF Records, Stages
    <3> QED BY <3>2, <3>3
  <2> QED BY <2>1, <2>2, <2>3, <2>4 DEF RunRead, ReadTool
<1>6. FreshCall(g) /\ WriteCall(g)
  <2>1. calls[s].since <= floor /\ calls[s].since \in Nat
    BY <1>1 DEF FreshCall, Records
  <2>2. FreshCall(g)
    BY <1>2, <1>5, <2>1 DEF FreshCall
  <2>3. WriteCall(g)
    BY <1>1, <1>5 DEF WriteCall
  <2> QED BY <2>2, <2>3
<1>7. version' \in Nat /\ version <= version'
  BY <1>2
<1>8. caller = "loop" => s = LoopSlot /\ (g.at # "free" => loop'.at = "calling")
  BY <1>1
<1> QED BY <1>2, <1>3, <1>5, <1>6, <1>7, <1>8, OneCall

LEMMA ReauthenticateKeeps ==
  ASSUME ToolInv, NEW s \in Slot, Reauthenticate(s), UNCHANGED <<asked, answers, caller, loop>>
  PROVE  ToolInv'
<1>1. /\ calls[s] \in Records /\ FreshCall(calls[s]) /\ WriteCall(calls[s]) /\ calls[s].at = "renew"
      /\ caller = "loop" => s = LoopSlot /\ loop.at = "calling"
  BY SlotFacts DEF Reauthenticate
<1>2. version' \in Nat /\ version <= version' /\ cache' \in [DOMAIN cache' -> Entries] /\ CacheInv'
  BY DEF Reauthenticate, ToolInv, CallsTyped, CacheInv
<1>3. PICK g \in Records :
        /\ calls' = [calls EXCEPT ![s] = g]
        /\ g.tool = calls[s].tool /\ g.since = calls[s].since /\ g.sent = calls[s].sent
        /\ g.at = "again" \/ (g.at = "over" /\ ~g.ok)
  <2>1. CASE Goes(s, "again")
    <3>1. PICK g : g = [calls[s] EXCEPT !.at = "again"]
      OBVIOUS
    <3>2. g \in Records /\ g.at = "again" /\ g.tool = calls[s].tool /\ g.since = calls[s].since
          /\ g.sent = calls[s].sent
      BY <1>1, <3>1 DEF Records, Stages
    <3> QED BY <2>1, <3>1, <3>2 DEF Goes
  <2>2. CASE Fails(s)
    <3>1. PICK g : g = [calls[s] EXCEPT !.at = "over", !.ok = FALSE]
      OBVIOUS
    <3>2. g \in Records /\ g.at = "over" /\ ~g.ok /\ g.tool = calls[s].tool /\ g.since = calls[s].since
          /\ g.sent = calls[s].sent
      BY <1>1, <3>1 DEF Records, Stages
    <3> QED BY <2>2, <3>1, <3>2 DEF Fails
  <2> QED BY <2>1, <2>2 DEF Reauthenticate
<1>4. FreshCall(g) /\ WriteCall(g)
  BY <1>1, <1>3 DEF FreshCall, WriteCall
<1> QED BY <1>1, <1>2, <1>3, <1>4, OneCall DEF Reauthenticate

LEMMA StoreKeeps ==
  ASSUME ToolInv, NEW s \in Slot, Store(s), UNCHANGED <<asked, answers, caller, loop>>
  PROVE  ToolInv'
<1>1. /\ calls[s] \in Records /\ FreshCall(calls[s]) /\ WriteCall(calls[s]) /\ calls[s].at = "served"
      /\ caller = "loop" => s = LoopSlot /\ loop.at = "calling"
  BY SlotFacts DEF Store
<1>2. /\ version' = version /\ version' \in Nat /\ version <= version' /\ floor \in Nat
      /\ UNCHANGED <<policy, floor, panicked>>
  BY DEF Store, ToolInv, CallsTyped
<1>3. PICK g : g = [calls[s] EXCEPT !.at = "over"]
  OBVIOUS
<1>4. calls' = [calls EXCEPT ![s] = g]
  BY <1>3 DEF Store, Goes
<1>5. /\ g \in Records /\ g.at = "over" /\ g.value = calls[s].value /\ g.late = calls[s].late
      /\ g.since = calls[s].since /\ g.tool = calls[s].tool
  BY <1>1, <1>3 DEF Records, Stages
<1>6. FreshCall(g) /\ WriteCall(g)
  BY <1>1, <1>5 DEF FreshCall, WriteCall
<1>7. cache' \in [DOMAIN cache' -> Entries] /\ CacheInv'
  <2>1. CASE cache' = cache
    BY <1>2, <2>1 DEF ToolInv, CallsTyped, CacheInv
  <2>2. CASE cache' # cache
    <3>1. PICK e : e = [value |-> calls[s].value, late |-> calls[s].late]
      OBVIOUS
    <3>2. e \in Entries /\ (e.value >= floor \/ e.late)
      BY <1>1, <3>1 DEF FreshCall, Records, Entries
    <3>3. cache' = [t \in DOMAIN cache \cup {calls[s].tool} |-> IF t = calls[s].tool THEN e ELSE cache[t]]
      BY <2>2, <3>1 DEF Store
    <3>4. ASSUME NEW t \in DOMAIN cache'
          PROVE  cache'[t] \in Entries /\ (cache'[t].value >= floor \/ cache'[t].late \/ panicked)
      <4>1. CASE t = calls[s].tool
        BY <3>2, <3>3, <4>1
      <4>2. CASE t # calls[s].tool
        <5>1. t \in DOMAIN cache /\ cache'[t] = cache[t]
          BY <3>3, <3>4, <4>2
        <5> QED BY <5>1 DEF ToolInv, CallsTyped, CacheInv
      <4> QED BY <4>1, <4>2
    <3>5. cache' \in [DOMAIN cache' -> Entries]
      BY <3>3, <3>4
    <3> QED BY <1>2, <3>4, <3>5 DEF CacheInv
  <2> QED BY <2>1, <2>2
<1>8. caller = "loop" => s = LoopSlot /\ (g.at # "free" => loop'.at = "calling")
  BY <1>1
<1> QED BY <1>2, <1>4, <1>5, <1>6, <1>7, <1>8, OneCall DEF Store

LEMMA RunWriteKeeps ==
  ASSUME ToolInv, NEW s \in Slot, RunWrite(s), UNCHANGED <<asked, answers, caller, loop>>
  PROVE  ToolInv'
<1>1. /\ calls[s] \in Records /\ FreshCall(calls[s]) /\ WriteCall(calls[s]) /\ calls[s].at = "run"
      /\ calls[s].tool \in Write
      /\ caller = "loop" => s = LoopSlot /\ loop.at = "calling"
  BY SlotFacts DEF RunWrite, Changing
<1>2. /\ version' \in Nat /\ version <= version' /\ cache' \in [DOMAIN cache' -> Entries] /\ CacheInv'
      /\ UNCHANGED <<policy, floor, panicked>>
  <2>1. version' = version \/ version' = version + 1
    BY DEF RunWrite, WriteTool, Changed
  <2>2. UNCHANGED <<policy, cache, floor, panicked>>
    BY DEF RunWrite
  <2> QED BY <2>1, <2>2 DEF ToolInv, CallsTyped, CacheInv
<1>3. PICK n : n = calls[s].sent + 1
  OBVIOUS
<1>4. n = 1 /\ Allowed(calls[s].args)
  BY <1>1, <1>3 DEF WriteCall
<1>5. PICK good \in BOOLEAN, m \in {0, 1} :
        calls' = [calls EXCEPT ![s] = [calls[s] EXCEPT !.at = "clear", !.ok = good, !.sent = m]]
  <2>1. CASE \E good \in BOOLEAN : Sent(s, "clear", good)
    BY <1>3, <1>4, <2>1 DEF Sent
  <2>2. CASE Refuses(s, "clear")
    <3>1. calls[s].sent = 0 /\ calls[s] = [calls[s] EXCEPT !.sent = 0]
      BY <1>1 DEF WriteCall, Records
    <3>2. PICK g : g = [calls[s] EXCEPT !.at = "clear", !.ok = FALSE]
      OBVIOUS
    <3>3. g = [calls[s] EXCEPT !.at = "clear", !.ok = FALSE, !.sent = 0]
      BY <1>1, <3>1, <3>2 DEF Records
    <3>4. calls' = [calls EXCEPT ![s] = g]
      BY <2>2, <3>2 DEF Refuses
    <3> QED BY <3>3, <3>4
  <2> QED BY <2>1, <2>2 DEF RunWrite, WriteTool
<1>6. PICK g : g = [calls[s] EXCEPT !.at = "clear", !.ok = good, !.sent = m]
  OBVIOUS
<1>7. /\ g \in Records /\ g.at = "clear" /\ g.sent = m /\ g.since = calls[s].since
      /\ g.tool = calls[s].tool /\ g.args = calls[s].args
  <2>1. m \in Nat /\ "clear" \in Stages
    BY DEF Stages
  <2> QED BY ONLY <1>1, <1>6, <2>1, good \in BOOLEAN DEF Records
<1>8. FreshCall(g) /\ WriteCall(g)
  BY <1>1, <1>4, <1>7 DEF FreshCall, WriteCall
<1>9. calls' = [calls EXCEPT ![s] = g] /\ (caller = "loop" => s = LoopSlot /\ loop'.at = "calling")
  BY <1>1, <1>5, <1>6
<1> QED BY <1>2, <1>7, <1>8, <1>9, OneCall

LEMMA ReturnKeeps ==
  ASSUME ToolInv, NEW s \in Slot, Return(s), UNCHANGED <<asked, answers, caller>>
  PROVE  ToolInv'
<1>1. calls[s].at = "over" /\ (caller = "loop" => s = LoopSlot)
  BY SlotFacts DEF Return
<1>2. version' \in Nat /\ version <= version' /\ cache' \in [DOMAIN cache' -> Entries] /\ CacheInv'
  BY DEF Return, ToolInv, CallsTyped, CacheInv
<1>3. PICK g : g = Free
  OBVIOUS
<1>4. g \in Records /\ g.at = "free" /\ g.since = 0 /\ g.sent = 0
  BY <1>3 DEF Free, Records, Stages, NoArgs
<1>5. FreshCall(g) /\ WriteCall(g)
  <2>1. floor \in Nat
    BY DEF ToolInv, CallsTyped
  <2> QED BY <1>4, <2>1 DEF FreshCall, WriteCall
<1>6. calls' = [calls EXCEPT ![s] = g] /\ UNCHANGED <<policy, floor, panicked>>
  BY <1>3 DEF Return
<1> QED BY <1>1, <1>2, <1>4, <1>5, <1>6, OneCall

(* After a change, failed or not, the cache is empty and what was served     *)
(* before it is marked.                                                      *)
LEMMA ClearKeeps ==
  ASSUME ToolInv, NEW s \in Slot, Clear(s), UNCHANGED <<asked, answers, caller, loop>>
  PROVE  ToolInv'
<1>1. /\ calls[s].at = "clear" /\ calls[s].tool \in Write /\ WriteCall(calls[s])
      /\ caller = "loop" => s = LoopSlot /\ loop.at = "calling"
  BY SlotFacts DEF Clear, WriteCall
<1>2. /\ cache' = <<>> /\ floor' = version /\ panicked' = FALSE /\ UNCHANGED <<policy, version>>
      /\ version \in Nat /\ floor \in Nat /\ floor <= version
  BY DEF Clear, ToolInv, CallsTyped
<1>3. ASSUME NEW x \in Slot
      PROVE  /\ calls'[x] \in Records /\ calls'[x].tool = calls[x].tool /\ calls'[x].args = calls[x].args
             /\ calls'[x].value = calls[x].value /\ calls'[x].since = calls[x].since
             /\ calls'[x].sent = calls[x].sent /\ (calls'[x].ok <=> calls[x].ok)
             /\ x = s => calls'[x].at = "over"
             /\ x # s => /\ calls'[x].at = calls[x].at
                         /\ calls'[x].late <=> calls[x].late \/ calls[x].at = "served"
  <2>0. PICK c \in Records : c = calls[x]
    BY SlotFacts
  <2>1. CASE x = s
    <3>1. calls'[x] = [c EXCEPT !.at = "over"]
      BY <2>0, <2>1 DEF Clear
    <3> QED BY <2>0, <2>1, <3>1 DEF Records, Stages
  <2>2. CASE x # s
    <3>1. PICK b \in BOOLEAN : b <=> c.late \/ c.at = "served"
      OBVIOUS
    <3>2. (c.late \/ c.at = "served") = b
      BY <3>1 DEF Records
    <3>3. calls'[x] = [c EXCEPT !.late = (c.late \/ c.at = "served")]
      BY <2>0, <2>2 DEF Clear
    <3>4. calls'[x] = [c EXCEPT !.late = b]
      BY <3>2, <3>3
    <3> QED BY <2>0, <2>2, <3>1, <3>4 DEF Records
  <2> QED BY <2>1, <2>2
<1>4. CallsTyped'
  <2>1. calls' \in [Slot -> Records]
    BY <1>3 DEF Clear
  <2>2. cache' \in [DOMAIN cache' -> Entries]
    BY <1>2, NothingCached
  <2>3. policy' \in {"readonly", "approve", "full"}
    BY <1>2 DEF ToolInv, CallsTyped
  <2>4. version' \in Nat /\ floor' \in Nat /\ floor' <= version'
    BY ONLY <1>2
  <2>5. panicked' \in BOOLEAN
    BY ONLY <1>2
  <2>6. answers' \subseteq [args : Args, yes : BOOLEAN] /\ \A b \in answers' : b.args \in asked'
    BY DEF ToolInv, CallsTyped
  <2> QED BY <2>1, <2>2, <2>3, <2>4, <2>5, <2>6 DEF CallsTyped
<1>5. CacheInv'
  BY <1>2, NothingCached DEF CacheInv
<1>6. AloneInv'
  <2>1. \A x \in Slot : calls'[x].at # "free" => calls[x].at # "free"
    BY <1>1, <1>3
  <2> QED BY <1>2, <2>1 DEF ToolInv, AloneInv
<1>7. ASSUME NEW x \in Slot PROVE FreshCall(calls[x])'
  <2>1. /\ FreshCall(calls[x]) /\ calls[x].since \in Nat /\ calls[x].value \in Nat
    BY SlotFacts DEF Records
  <2>2. calls'[x].since <= floor' /\ calls[x].since <= floor
    BY <1>2, <1>3, <2>1 DEF FreshCall
  <2>3. CASE x = s
    BY <1>1, <1>3, <2>2, <2>3, ToolsAssumption DEF FreshCall
  <2>4. CASE x # s
    <3>1. calls'[x].at = "served" =>
            calls'[x].value >= calls'[x].since /\ (calls'[x].value >= floor' \/ calls'[x].late)
      BY <1>3, <2>1, <2>4 DEF FreshCall
    <3>2. calls'[x].at = "over" => caller = "mcp" /\ ~panicked
      BY <1>1, <1>3, <2>4 DEF ToolInv, AloneInv
    <3>3. calls'[x].at = "over" /\ calls'[x].tool \in Read /\ calls'[x].ok =>
            calls'[x].value >= calls'[x].since \/ calls'[x].late
      BY <1>3, <2>1, <2>4, <3>2 DEF FreshCall
    <3> QED BY <2>2, <3>1, <3>3 DEF FreshCall
  <2> QED BY <2>3, <2>4
<1>8. ASSUME NEW x \in Slot PROVE WriteCall(calls[x])'
  <2>1. WriteCall(calls[x])
    BY SlotFacts
  <2>2. PICK c : c = calls'[x]
    OBVIOUS
  <2>3. WriteCall(c)
    <3>1. CASE x = s
      BY <1>1, <1>3, <2>2, <3>1 DEF WriteCall
    <3>2. CASE x # s
      BY <1>3, <2>1, <2>2, <3>2 DEF WriteCall
    <3> QED BY <3>1, <3>2
  <2>4. WriteCall(c)'
    BY <1>2, <2>3 DEF WriteCall, Allowed, Accepted
  <2> QED BY <2>2, <2>4 DEF WriteCall, Allowed, Accepted
<1> QED BY <1>4, <1>5, <1>6, <1>7, <1>8 DEF ToolInv, CallInv

(* A tool that panics passes the clearing by; only the loop, which has no    *)
(* other call under way, survives it.                                        *)
LEMMA PanicWriteKeeps ==
  ASSUME ToolInv, NEW s \in Slot, caller = "loop", PanicWrite(s), UNCHANGED <<asked, answers, caller, loop>>
  PROVE  ToolInv'
<1>1. /\ calls[s] \in Records /\ FreshCall(calls[s]) /\ WriteCall(calls[s]) /\ calls[s].at = "run"
      /\ calls[s].tool \in Write /\ s = LoopSlot /\ loop.at = "calling"
  BY SlotFacts DEF PanicWrite, Changing
<1>2. /\ version' \in Nat /\ version <= version' /\ floor' = version' /\ panicked' = TRUE
      /\ UNCHANGED <<policy, cache>> /\ version \in Nat /\ floor \in Nat /\ floor <= version
  BY DEF PanicWrite, Changed, ToolInv, CallsTyped
<1>3. PICK n : n = calls[s].sent + 1
  OBVIOUS
<1>4. n = 1 /\ Allowed(calls[s].args)
  BY <1>1, <1>3 DEF WriteCall
<1>5. PICK g : g = [calls[s] EXCEPT !.at = "over", !.ok = FALSE, !.sent = n]
  OBVIOUS
<1>6. calls' = [calls EXCEPT ![s] = g]
  BY <1>3, <1>5 DEF PanicWrite, Sent
<1>7. /\ g \in Records /\ g.at = "over" /\ ~g.ok /\ g.sent = 1 /\ g.since = calls[s].since
      /\ g.tool = calls[s].tool /\ g.args = calls[s].args
  BY <1>1, <1>4, <1>5 DEF Records, Stages
<1>8. calls' \in [Slot -> Records] /\ calls'[s] = g /\ \A x \in Slot : x # s => calls'[x] = calls[x]
  BY <1>6, <1>7 DEF ToolInv, CallsTyped
<1>9. CallsTyped'
  <2>1. floor' \in Nat /\ floor' <= version' /\ version' \in Nat
    BY ONLY <1>2
  <2>2. panicked' \in BOOLEAN
    BY ONLY <1>2
  <2>3. /\ policy' \in {"readonly", "approve", "full"} /\ cache' \in [DOMAIN cache' -> Entries]
        /\ answers' \subseteq [args : Args, yes : BOOLEAN] /\ \A b \in answers' : b.args \in asked'
    BY <1>2 DEF ToolInv, CallsTyped
  <2> QED BY <1>8, <2>1, <2>2, <2>3 DEF CallsTyped
<1>10. CacheInv'
  BY <1>2 DEF CacheInv
<1>11. AloneInv'
  BY <1>1, <1>8 DEF ToolInv, AloneInv
<1>12. ASSUME NEW x \in Slot PROVE FreshCall(calls[x])' /\ WriteCall(calls[x])'
  <2>1. PICK c : c = calls'[x]
    OBVIOUS
  <2>2. /\ c.since <= floor /\ c.since \in Nat /\ WriteCall(c)
        /\ c.at # "served" /\ (c.at = "over" => ~c.ok)
    <3>1. CASE x = s
      BY <1>1, <1>4, <1>7, <1>8, <2>1, <3>1 DEF FreshCall, WriteCall, Records
    <3>2. CASE x # s
      <4>1. c = calls[x] /\ c.at = "free"
        BY <1>1, <1>8, <2>1, <3>2 DEF ToolInv, AloneInv
      <4> QED BY <4>1, SlotFacts DEF FreshCall, Records
    <3> QED BY <3>1, <3>2
  <2>3. FreshCall(c)'
    <3>1. c.since <= floor'
      BY <1>2, <2>2
    <3> QED BY <2>2, <3>1 DEF FreshCall
  <2>4. WriteCall(c)'
    BY <1>2, <2>2 DEF WriteCall, Allowed, Accepted
  <2> QED BY <2>1, <2>3, <2>4 DEF FreshCall, WriteCall, Allowed, Accepted
<1> QED BY <1>9, <1>10, <1>11, <1>12 DEF ToolInv, CallInv

LEMMA ProceedKeeps ==
  ASSUME ToolInv, NEW s \in Slot, Proceed(s), UNCHANGED <<asked, answers, caller, loop>>
  PROVE  ToolInv'
BY RunReadKeeps, ReauthenticateKeeps, StoreKeeps, RunWriteKeeps, ClearKeeps DEF Proceed

(* What leaves the calls alone. *)
LEMMA CallsStay ==
  ASSUME ToolInv, UNCHANGED <<policy, calls, floor, panicked, caller>>,
         version' \in Nat, version <= version', asked \subseteq asked', answers \subseteq answers',
         answers' \subseteq [args : Args, yes : BOOLEAN], \A b \in answers' : b.args \in asked',
         cache' \in [DOMAIN cache' -> Entries], CacheInv',
         caller = "loop" => loop' = loop \/ \A s \in Slot : calls[s].at = "free"
  PROVE  ToolInv'
<1>1. CallsTyped'
  BY DEF ToolInv, CallsTyped
<1>2. AloneInv'
  BY DEF ToolInv, AloneInv
<1>3. ASSUME NEW x \in Slot PROVE FreshCall(calls[x])' /\ WriteCall(calls[x])'
  <2>1. PICK c : c = calls[x]
    OBVIOUS
  <2>2. FreshCall(c) /\ WriteCall(c)
    BY <2>1, SlotFacts
  <2>3. FreshCall(c)'
    BY <2>2 DEF FreshCall
  <2>4. \A args : Allowed(args) => (policy # "readonly" /\ (caller = "mcp" /\ policy = "approve" =>
                                      args \in asked' /\ [args |-> args, yes |-> TRUE] \in answers'))
    BY DEF Allowed, Accepted
  <2>5. WriteCall(c)'
    BY <2>2, <2>4 DEF WriteCall, Allowed, Accepted
  <2>6. calls'[x] = c
    BY <2>1
  <2> QED BY <2>3, <2>5, <2>6 DEF FreshCall, WriteCall, Allowed, Accepted
<1> QED BY <1>1, <1>2, <1>3 DEF ToolInv, CallInv

LEMMA ExpireKeeps ==
  ASSUME ToolInv, NEW tool, Expire(tool), UNCHANGED <<loopVars, mcpVars, caller>> PROVE ToolInv'
<1>1. cache' \in [DOMAIN cache' -> Entries] /\ CacheInv'
  <2>1. \A t \in DOMAIN cache' : t \in DOMAIN cache /\ cache'[t] = cache[t]
    BY DEF Expire
  <2>2. \A t \in DOMAIN cache' : cache'[t] \in Entries
    BY <2>1 DEF ToolInv, CallsTyped
  <2>3. cache' \in [DOMAIN cache' -> Entries]
    BY <2>2 DEF Expire
  <2> QED BY <2>1, <2>3 DEF Expire, ToolInv, CacheInv
<1>2. version' \in Nat /\ version <= version'
  BY DEF Expire, ToolInv, CallsTyped
<1>3. UNCHANGED <<policy, calls, floor, panicked, caller, asked, answers, loop>>
  BY DEF Expire, loopVars, mcpVars
<1>4. answers' \subseteq [args : Args, yes : BOOLEAN] /\ \A b \in answers' : b.args \in asked'
  BY <1>3 DEF ToolInv, CallsTyped
<1> QED BY <1>1, <1>2, <1>3, <1>4, CallsStay

LEMMA OthersPlayKeeps ==
  ASSUME ToolInv, OthersPlay, UNCHANGED <<loopVars, mcpVars, caller>> PROVE ToolInv'
<1>1. /\ cache' \in [DOMAIN cache' -> Entries] /\ CacheInv' /\ version' \in Nat /\ version <= version'
      /\ UNCHANGED <<policy, calls, floor, panicked, caller, asked, answers, loop>>
  BY DEF OthersPlay, ToolInv, CallsTyped, CacheInv, loopVars, mcpVars
<1>2. answers' \subseteq [args : Args, yes : BOOLEAN] /\ \A b \in answers' : b.args \in asked'
  BY <1>1 DEF ToolInv, CallsTyped
<1> QED BY <1>1, <1>2, CallsStay

-----------------------------------------------------------------------------
(* The MCP server *)

LEMMA McpKeeps ==
  ASSUME ToolInv, Mcp PROVE ToolInv'
<1>0. caller = "mcp" /\ UNCHANGED <<loop, caller>> /\ answers \subseteq [args : Args, yes : BOOLEAN]
  BY DEF Mcp, loopVars, ToolInv, CallsTyped
<1>t. /\ version \in Nat /\ cache \in [DOMAIN cache -> Entries] /\ CacheInv
      /\ \A b \in answers : b.args \in asked
  BY DEF ToolInv, CallsTyped
<1>1. ASSUME NEW s \in Slot, NEW tool \in Read \cup Local \cup Write, NEW args \in Args \cup {NoArgs},
             CallTool(s, tool, args)
      PROVE  ToolInv'
  <2>1. CASE tool \in Write /\ policy = "approve"
    <3>1. asked' = asked \cup {args} /\ UNCHANGED <<toolVars, answers>>
      BY <1>1, <2>1 DEF CallTool
    <3>2. CacheInv' /\ cache' \in [DOMAIN cache' -> Entries] /\ version' \in Nat /\ version <= version'
      BY <1>t, <3>1 DEF toolVars, CacheInv
    <3>3. answers' \subseteq [args : Args, yes : BOOLEAN] /\ \A b \in answers' : b.args \in asked'
      BY <1>0, <1>t, <3>1
    <3> QED BY <1>0, <3>1, <3>2, <3>3, CallsStay DEF toolVars
  <2>2. CASE ~(tool \in Write /\ policy = "approve")
    <3>1. tool \in Visible /\ Begin(s, tool, args) /\ UNCHANGED <<asked, answers>>
      BY <1>1, <2>2 DEF CallTool
    <3>2. tool \in Write /\ policy # "readonly" => Allowed(args)
      BY <2>2 DEF Allowed
    <3> QED BY <1>0, <3>1, <3>2, BeginKeeps
  <2> QED BY <2>1, <2>2
<1>2. ASSUME NEW s \in Slot, NEW tool \in Write, NEW args \in Args, NEW answer \in answers,
             RetryTool(s, tool, args, answer)
      PROVE  ToolInv'
  <2>1. tool \in Visible /\ Begin(s, tool, args) /\ UNCHANGED <<asked, answers>>
    BY <1>2 DEF RetryTool, mcpVars
  <2>2. answer = [args |-> args, yes |-> TRUE]
    BY <1>0, <1>2 DEF RetryTool
  <2>3. Accepted(args)
    BY <1>t, <2>2 DEF Accepted
  <2>4. tool \in Write /\ policy # "readonly" => Allowed(args)
    BY <2>3 DEF Allowed
  <2> QED BY <1>0, <2>1, <2>4, BeginKeeps
<1>3. ASSUME NEW s \in Slot, McpGate(s) PROVE ToolInv'
  BY <1>0, <1>3, AuthorizeKeeps DEF McpGate, mcpVars
<1>4. ASSUME NEW s \in Slot, McpProceed(s) PROVE ToolInv'
  BY <1>0, <1>4, ProceedKeeps, ReturnKeeps DEF McpProceed, mcpVars
<1>5. ASSUME NEW args \in Args, NEW yes \in BOOLEAN, UserAnswers(args, yes) PROVE ToolInv'
  <2>1. PICK b : b = [args |-> args, yes |-> yes]
    OBVIOUS
  <2>2. /\ answers' = answers \cup {b} /\ args \in asked /\ UNCHANGED <<toolVars, asked>>
    BY <1>5, <2>1 DEF UserAnswers
  <2>3. b \in [args : Args, yes : BOOLEAN] /\ b.args = args
    BY <2>1
  <2>4. answers' \subseteq [args : Args, yes : BOOLEAN] /\ \A a \in answers' : a.args \in asked'
    BY <1>0, <1>t, <2>2, <2>3
  <2>5. CacheInv' /\ cache' \in [DOMAIN cache' -> Entries] /\ version' \in Nat /\ version <= version'
    BY <1>t, <2>2 DEF toolVars, CacheInv
  <2> QED BY <1>0, <2>2, <2>4, <2>5, CallsStay DEF toolVars
<1> QED BY <1>1, <1>2, <1>3, <1>4, <1>5 DEF Mcp, McpNext

-----------------------------------------------------------------------------
(* The agent's loop *)

LEMMA NewRunKeeps ==
  ASSUME ToolInv, caller = "loop", NewRun, UNCHANGED <<mcpVars, caller>> PROVE ToolInv'
<1>1. /\ policy' \in {"readonly", "approve", "full"} /\ cache' = <<>> /\ panicked' = FALSE
      /\ UNCHANGED <<version, calls, floor, asked, answers, caller>>
  BY DEF NewRun, mcpVars
<1>2. \A s \in Slot : calls[s].at = "free"
  BY DEF NewRun, At, ToolInv, AloneInv
<1>3. CallsTyped'
  <2>1. cache' \in [DOMAIN cache' -> Entries]
    BY <1>1, NothingCached
  <2>2. panicked' \in BOOLEAN
    BY ONLY <1>1
  <2>3. /\ version' \in Nat /\ floor' \in Nat /\ floor' <= version' /\ calls' \in [Slot -> Records]
        /\ answers' \subseteq [args : Args, yes : BOOLEAN] /\ \A b \in answers' : b.args \in asked'
    BY <1>1 DEF ToolInv, CallsTyped
  <2> QED BY <1>1, <2>1, <2>2, <2>3 DEF CallsTyped
<1>4. CacheInv'
  BY <1>1, NothingCached DEF CacheInv
<1>5. AloneInv'
  BY <1>1, <1>2 DEF ToolInv, AloneInv
<1>6. ASSUME NEW s \in Slot PROVE FreshCall(calls[s])' /\ WriteCall(calls[s])'
  <2>1. PICK c : c = calls[s]
    OBVIOUS
  <2>2. c.at = "free" /\ c.since <= floor /\ c.sent = 0
    BY <1>2, <2>1, SlotFacts DEF FreshCall, WriteCall
  <2>3. FreshCall(c)' /\ WriteCall(c)'
    BY <1>1, <2>2 DEF FreshCall, WriteCall
  <2>4. calls'[s] = c
    BY <1>1, <2>1
  <2> QED BY <2>3, <2>4 DEF FreshCall, WriteCall, Allowed, Accepted
<1> QED BY <1>3, <1>4, <1>5, <1>6 DEF ToolInv, CallInv

LEMMA LoopKeeps ==
  ASSUME ToolInv, LoopShape, Loop PROVE ToolInv'
<1>0. /\ caller = "loop" /\ UNCHANGED <<asked, answers, caller>> /\ LoopSlot \in Slot
      /\ UNCHANGED <<mcpVars, caller>>
  BY LoopAssumption DEF Loop, mcpVars
<1>t. /\ version \in Nat /\ cache \in [DOMAIN cache -> Entries] /\ CacheInv
      /\ answers \subseteq [args : Args, yes : BOOLEAN] /\ \A b \in answers : b.args \in asked
  BY DEF ToolInv, CallsTyped
<1>1. ASSUME UNCHANGED toolVars, loop' = loop \/ loop.at # "calling" PROVE ToolInv'
  <2>1. \A s \in Slot : loop.at # "calling" => calls[s].at = "free"
    BY <1>0 DEF ToolInv, AloneInv
  <2>2. CacheInv' /\ cache' \in [DOMAIN cache' -> Entries] /\ version' \in Nat /\ version <= version'
    BY <1>t, <1>1 DEF toolVars, CacheInv
  <2>3. answers' \subseteq [args : Args, yes : BOOLEAN] /\ \A b \in answers' : b.args \in asked'
    BY <1>0, <1>t
  <2> QED BY <1>0, <1>1, <2>1, <2>2, <2>3, CallsStay DEF toolVars
<1>2. CASE Ask \/ Chat \/ Wait \/ Cancel
  BY <1>1, <1>2 DEF Ask, Chat, Wait, Cancel, At
<1>3. CASE NextCall
  <2>1. CASE UNCHANGED toolVars
    BY <1>1, <1>3, <2>1 DEF NextCall, At
  <2>2. ASSUME NEW tool \in Visible, NEW args \in Args \cup {NoArgs}, Begin(LoopSlot, tool, args),
               loop' = [loop EXCEPT !.at = "calling"], loop'.at = "calling"
        PROVE  ToolInv'
    <3>1. tool \in Write /\ policy # "readonly" => Allowed(args)
      BY <1>0 DEF Allowed
    <3> QED BY <1>0, <2>2, <3>1, BeginKeeps
  <2>3. [loop EXCEPT !.at = "calling"].at = "calling"
    BY DEF LoopShape
  <2>4. \A args \in Args : args \in Args \cup {NoArgs}
    OBVIOUS
  <2> QED BY <1>3, <2>1, <2>2, <2>3, <2>4 DEF NextCall
<1>4. CASE Execute \/ Confirm
  <2>1. loop' = loop
    BY <1>4 DEF Execute, Confirm, loopVars
  <2> QED BY <1>0, <1>4, <2>1, ProceedKeeps, PanicWriteKeeps, AuthorizeKeeps DEF Execute, Confirm
<1>5. CASE Collect
  BY <1>0, <1>5, ReturnKeeps DEF Collect
<1>6. CASE NewRun
  BY <1>0, <1>6, NewRunKeeps
<1> QED BY <1>2, <1>3, <1>4, <1>5, <1>6 DEF Loop, LoopNext, RunSteps

LEMMA ShapeKeeps ==
  ASSUME LoopShape, Loop PROVE LoopShape'
<1>2. Ask \/ Chat \/ Wait => LoopShape'
  BY DEF LoopShape, Ask, Chat, Wait, End, TryAgain
<1>3. NextCall => LoopShape'
  BY DEF LoopShape, NextCall, End, Result
<1>4. Execute \/ Confirm => LoopShape'
  BY DEF LoopShape, Execute, Confirm, loopVars
<1>5. Cancel => LoopShape'
  BY DEF LoopShape, Cancel, End
<1>6. NewRun => LoopShape'
  BY DEF LoopShape, NewRun
<1>7. Collect => LoopShape'
  BY DEF LoopShape, Collect, Result
<1> QED BY <1>2, <1>3, <1>4, <1>5, <1>6, <1>7 DEF Loop, LoopNext, RunSteps

LEMMA InitHolds == Init => ToolInv /\ LoopShape
<1> SUFFICES ASSUME Init PROVE ToolInv /\ LoopShape
  OBVIOUS
<1>1. LoopShape
  BY DEF Init, LoopInit, LoopShape
<1>2. /\ policy \in {"readonly", "approve", "full"} /\ version = 0 /\ cache = <<>> /\ floor = 0
      /\ panicked = FALSE /\ answers = {} /\ caller \in {"loop", "mcp"}
  BY DEF Init, ToolsInit, McpInit
<1>3. PICK g : g = Free
  OBVIOUS
<1>4. g \in Records /\ g.at = "free" /\ g.since = 0 /\ g.sent = 0
  BY <1>3 DEF Free, Records, Stages, NoArgs
<1>5. calls \in [Slot -> Records] /\ \A s \in Slot : calls[s] = g
  BY <1>3, <1>4 DEF Init, ToolsInit
<1>6. CallsTyped
  <2>1. cache \in [DOMAIN cache -> Entries]
    BY <1>2, NothingCached
  <2>2. panicked \in BOOLEAN
    BY ONLY <1>2
  <2>3. version \in Nat /\ floor \in Nat /\ floor <= version
    BY ONLY <1>2
  <2>4. answers \subseteq [args : Args, yes : BOOLEAN] /\ \A b \in answers : b.args \in asked
    BY ONLY <1>2
  <2> QED BY <1>2, <1>5, <2>1, <2>2, <2>3, <2>4 DEF CallsTyped
<1>7. CacheInv
  BY <1>2, NothingCached DEF CacheInv
<1>8. AloneInv
  BY <1>2, <1>4, <1>5 DEF AloneInv
<1>9. FreshCall(g) /\ WriteCall(g)
  BY <1>2, <1>4 DEF FreshCall, WriteCall
<1> QED BY <1>1, <1>5, <1>6, <1>7, <1>8, <1>9 DEF ToolInv, CallInv

LEMMA ToolInvariance == Spec => [](ToolInv /\ LoopShape)
<1>1. ToolInv /\ LoopShape /\ [Next]_vars => (ToolInv /\ LoopShape)'
  <2> SUFFICES ASSUME ToolInv, LoopShape, [Next]_vars PROVE (ToolInv /\ LoopShape)'
    OBVIOUS
  <2>1. CASE Loop
    BY <2>1, LoopKeeps, ShapeKeeps
  <2>2. CASE Mcp
    BY <2>2, McpKeeps DEF Mcp, loopVars, LoopShape
  <2>3. CASE Around
    BY <2>3, ExpireKeeps, OthersPlayKeeps DEF Around, loopVars, LoopShape
  <2>4. CASE UNCHANGED vars
    <3>1. UNCHANGED <<policy, version, cache, calls, floor, panicked, asked, answers, caller, loop>>
      BY <2>4 DEF vars, toolVars, loopVars, mcpVars
    <3>2. CallsTyped' /\ CacheInv' /\ AloneInv' /\ LoopShape'
      BY <3>1 DEF ToolInv, CallsTyped, CacheInv, AloneInv, LoopShape
    <3>3. CallInv'
      BY <3>1 DEF ToolInv, CallInv, FreshCall, WriteCall, Allowed, Accepted
    <3> QED BY <3>2, <3>3 DEF ToolInv
  <2> QED BY <2>1, <2>2, <2>3, <2>4 DEF Next
<1> QED BY InitHolds, <1>1, PTL DEF Spec

(* A read that began after a changing call shows the game as that call left  *)
(* it, from the cache or not, while calls run side by side (Catalog.Execute, *)
(* the cache's Clear); for any number of changes and calls.                  *)
THEOREM ReadsAreFresh == Spec => []AnswersAreFresh
<1>1. ToolInv => AnswersAreFresh
  <2> SUFFICES ASSUME ToolInv, NEW s \in Slot, calls[s].at = "over", calls[s].tool \in Read, calls[s].ok
               PROVE  calls[s].value >= calls[s].since \/ calls[s].late \/ panicked
    BY DEF AnswersAreFresh
  <2> QED BY SlotFacts DEF FreshCall
<1> QED BY ToolInvariance, <1>1, PTL

(* A changing call reaches the engine once at most, never under "readonly",  *)
(* and one of an MCP client under "approve" only with arguments the user     *)
(* accepted (authorize, toolHandler).                                        *)
THEOREM NothingChangesUnconfirmed == Spec => []ChangesAreConfirmed
<1>1. ToolInv => ChangesAreConfirmed
  <2> SUFFICES ASSUME ToolInv, NEW s \in Slot, calls[s].tool \in Write, calls[s].sent > 0
               PROVE  /\ calls[s].sent = 1 /\ policy # "readonly"
                      /\ caller = "mcp" /\ policy = "approve" => Accepted(calls[s].args)
    BY DEF ChangesAreConfirmed
  <2> QED BY SlotFacts DEF WriteCall, Allowed
<1> QED BY ToolInvariance, <1>1, PTL
===============================================================================
