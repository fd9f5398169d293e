------------------------ MODULE Calculations_proofs ------------------------
(* No accepted edit of a calculation is undone by one who did not know it,   *)
(* and a page at rest shows one revision of the calculation it names.        *)
EXTENDS Calculations, TLAPS

Logs == [file : Files, versions : Seq(SUBSET Edits)]
Refs == [id : Nat, revision : Nat, file : Files \cup {NoFile}]
Ok == [is : {"ok"}, id : Nat, revision : Nat, cfg : SUBSET Edits]
Replies == {NoAnswer, Failed} \cup Ok
Ops == [no : Nat, kind : {"none", "load", "calc"}, file : Files \cup {NoFile}, answer : Replies]
Calls == [page : Pages, no : Nat, method : {"GET", "POST", "PUT"}, file : Files \cup {NoFile},
          id : Nat, revision : Nat, cfg : SUBSET Edits, aware : SUBSET Edits]

PagesTyped ==
  /\ shared \in [Pages -> Refs] /\ attached \in [Pages -> BOOLEAN]
  /\ file \in [Pages -> Files \cup {NoFile}]
  /\ cfg \in [Pages -> SUBSET Edits] /\ shown \in [Pages -> SUBSET Edits]
  /\ known \in [Pages -> SUBSET Edits]
  /\ url \in [Pages -> Nat] /\ opening \in [Pages -> SUBSET Nat]
  /\ op \in [Pages -> Ops] /\ alarm \in [Pages -> BOOLEAN] /\ strayed \subseteq Pages

StoreTyped ==
  /\ logs \in Seq(Logs) /\ \A i \in 1 .. Len(logs) : Len(logs[i].versions) > 0
  /\ wire \subseteq Calls /\ seen \in [id : Nat, revision : Nat, cfg : SUBSET Edits]
  /\ changes \in Nat

(* What the store says, and goes on saying: a revision is never rewritten.   *)
Holds(id, revision, parameters) ==
  /\ id \in 1 .. Len(logs) /\ revision \in 1 .. Len(logs[id].versions)
  /\ logs[id].versions[revision] = parameters
IsOf(id, f) == id \in 1 .. Len(logs) /\ logs[id].file = f

(* A page knows the edits of the revision it would send its own with.        *)
Attached(p) ==
  /\ cfg[p] \subseteq known[p]
  /\ shared[p].id # 0 =>
       /\ IsOf(shared[p].id, shared[p].file)
       /\ \E c \in SUBSET Edits :
            /\ Holds(shared[p].id, shared[p].revision, c)
            /\ attached[p] => c \subseteq known[p]
  /\ attached[p] => shared[p].file = file[p]
  /\ url[p] # 0 => url[p] \in 1 .. Len(logs)
  /\ opening[p] \subseteq 1 .. Len(logs)

(* An answer is a revision of the file that was asked for, and the answer to *)
(* an edit has the fields as they are.                                       *)
Answered(p) ==
  LET a == op[p].answer IN
  /\ op[p].kind = "calc" => op[p].file = file[p]
  /\ a.is = "ok" =>
       /\ op[p].kind # "none" /\ Holds(a.id, a.revision, a.cfg) /\ IsOf(a.id, op[p].file)
       /\ op[p].kind = "calc" => a.cfg \subseteq known[p] /\ (p \notin strayed => a.cfg = cfg[p])

Settled(p) ==
  Resting(p) /\ p \notin strayed =>
    /\ shared[p].id = url[p] /\ shared[p].file = file[p] /\ IsOf(shared[p].id, file[p])
    /\ Holds(shared[p].id, shared[p].revision, cfg[p])
    /\ shown[p] = cfg[p]

PageInv(p) == Attached(p) /\ Answered(p) /\ Settled(p)

(* A change on its way is of a revision its sender knew, and is still what   *)
(* the fields say if its answer is waited for.                               *)
Sound(r) ==
  /\ r.no <= op[r.page].no
  /\ r.id # 0 => IsOf(r.id, r.file)
  /\ r.method = "POST" => r.file \in Files
  /\ r.method = "PUT" /\ r.id # 0 =>
       \E c \in SUBSET Edits : Holds(r.id, r.revision, c) /\ c \subseteq r.cfg \cup r.aware
  /\ Heard(r) =>
       /\ r.file = op[r.page].file
       /\ op[r.page].kind = "calc" =>
            /\ r.method # "GET"
            /\ r.method = "POST" => r.page \in strayed
            /\ r.method = "PUT" => /\ r.cfg \subseteq known[r.page]
                                   /\ r.page \notin strayed => r.cfg = cfg[r.page]

SeenInv == seen.id # 0 => Holds(seen.id, seen.revision, seen.cfg)

CalcInv ==
  /\ PagesTyped /\ StoreTyped
  /\ \A p \in Pages : PageInv(p)
  /\ \A r \in wire : Sound(r)
  /\ SeenInv /\ NoEditLost

-----------------------------------------------------------------------------
(* The store *)

Grows ==
  /\ 1 .. Len(logs) \subseteq 1 .. Len(logs')
  /\ \A id, revision, c : Holds(id, revision, c) => Holds(id, revision, c)'
  /\ \A id, f : IsOf(id, f) => IsOf(id, f)'

LogsTyped == logs \in Seq(Logs) /\ \A i \in 1 .. Len(logs) : Len(logs[i].versions) > 0

LEMMA SameStore ==
  ASSUME UNCHANGED logs
  PROVE  Grows
BY DEF Grows, Holds, IsOf

LEMMA CreateGrows ==
  ASSUME LogsTyped, NEW f \in Files, Create(f)
  PROVE  /\ LogsTyped' /\ Grows
         /\ \A n : n = Len(logs) + 1 => IsOf(n, f)' /\ Holds(n, 1, {})'
<1>1. PICK l : l = [file |-> f, versions |-> <<{}>>]
  OBVIOUS
<1>2. <<{}>> \in Seq(SUBSET Edits) /\ Len(<<{}>>) = 1 /\ <<{}>>[1] = {}
  OBVIOUS
<1>3. l \in Logs /\ l.file = f /\ l.versions = <<{}>>
  BY <1>1, <1>2 DEF Logs
<1>4. logs' = Append(logs, l)
  BY <1>1 DEF Create
<1>5. /\ logs' \in Seq(Logs) /\ Len(logs') = Len(logs) + 1 /\ Len(logs) \in Nat
      /\ logs'[Len(logs) + 1] = l
      /\ \A i \in 1 .. Len(logs) : logs'[i] = logs[i]
  BY <1>3, <1>4 DEF LogsTyped
<1>6. LogsTyped'
  <2>1. \A i \in 1 .. Len(logs') : i \in 1 .. Len(logs) \/ i = Len(logs) + 1
    BY ONLY <1>5
  <2>2. Len(l.versions) > 0
    BY ONLY <1>2, <1>3
  <2>3. \A i \in 1 .. Len(logs') : Len(logs'[i].versions) > 0
    BY <1>5, <2>1, <2>2 DEF LogsTyped
  <2> QED BY <1>5, <2>3 DEF LogsTyped
<1>7. Grows
  BY <1>5 DEF Grows, Holds, IsOf
<1>8. ASSUME NEW n, n = Len(logs) + 1 PROVE IsOf(n, f)' /\ Holds(n, 1, {})'
  <2>1. n \in 1 .. Len(logs') /\ logs'[n] = l
    BY <1>5, <1>8
  <2>2. 1 \in 1 .. Len(l.versions) /\ l.versions[1] = {}
    BY <1>2, <1>3
  <2> QED BY <1>3, <2>1, <2>2 DEF IsOf, Holds
<1> QED BY <1>6, <1>7, <1>8

LEMMA UpdateGrows ==
  ASSUME LogsTyped, NEW id \in 1 .. Len(logs), NEW parameters \in SUBSET Edits, NEW aware,
         Update(id, parameters, aware)
  PROVE  /\ LogsTyped' /\ Grows
         /\ \A n : n = Revision(id) + 1 => Holds(id, n, parameters)'
         /\ \A f : IsOf(id, f) => IsOf(id, f)'
<1>1. logs[id] \in Logs
  BY DEF LogsTyped
<1>2. PICK v : v = Append(logs[id].versions, parameters)
  OBVIOUS
<1>3. PICK l : l = [logs[id] EXCEPT !.versions = v]
  OBVIOUS
<1>4. logs' = [logs EXCEPT ![id] = l]
  BY <1>2, <1>3 DEF Update
<1>5. /\ logs[id].versions \in Seq(SUBSET Edits) /\ logs[id].file \in Files
      /\ v \in Seq(SUBSET Edits) /\ Len(v) = Len(logs[id].versions) + 1
      /\ Len(logs[id].versions) \in Nat
      /\ v[Len(logs[id].versions) + 1] = parameters
      /\ \A i \in 1 .. Len(logs[id].versions) : v[i] = logs[id].versions[i]
  BY <1>1, <1>2 DEF Logs
<1>6. l \in Logs /\ l.file = logs[id].file /\ l.versions = v
  BY <1>1, <1>3, <1>5 DEF Logs
<1>7. /\ logs' \in Seq(Logs) /\ Len(logs') = Len(logs) /\ logs'[id] = l
      /\ \A i \in 1 .. Len(logs) : i # id => logs'[i] = logs[i]
  BY <1>4, <1>6 DEF LogsTyped
<1>8. LogsTyped'
  <2>1. Len(l.versions) > 0
    BY <1>5, <1>6
  <2> QED BY <1>7, <2>1 DEF LogsTyped
<1>9. Grows
  <2>1. ASSUME NEW i, NEW n, NEW c, Holds(i, n, c) PROVE Holds(i, n, c)'
    <3>1. CASE i = id
      <4>1. n \in 1 .. Len(v) /\ v[n] = c
        BY <1>5, <2>1, <3>1 DEF Holds
      <4> QED BY <1>6, <1>7, <3>1, <4>1 DEF Holds
    <3>2. CASE i # id
      BY <1>7, <2>1, <3>2 DEF Holds
    <3> QED BY <3>1, <3>2
  <2>2. ASSUME NEW i, NEW f, IsOf(i, f) PROVE IsOf(i, f)'
    BY <1>6, <1>7, <2>2 DEF IsOf
  <2> QED BY <1>7, <2>1, <2>2 DEF Grows
<1>10. ASSUME NEW n, n = Revision(id) + 1 PROVE Holds(id, n, parameters)'
  <2>1. n \in 1 .. Len(v) /\ v[n] = parameters
    BY <1>5, <1>10 DEF Revision
  <2> QED BY <1>6, <1>7, <2>1 DEF Holds
<1> QED BY <1>8, <1>9, <1>10 DEF Grows

(* What the store says of a calculation at the moment.                       *)
LEMMA TheNewest ==
  ASSUME LogsTyped, NEW id \in 1 .. Len(logs)
  PROVE  /\ Holds(id, Revision(id), Now(id)) /\ IsOf(id, logs[id].file)
         /\ Now(id) \in SUBSET Edits /\ Revision(id) \in Nat /\ logs[id].file \in Files
<1>1. logs[id] \in Logs /\ Len(logs[id].versions) > 0
  BY DEF LogsTyped
<1> QED BY <1>1 DEF Logs, Holds, IsOf, Revision, Now
-----------------------------------------------------------------------------
(* What a step leaves alone *)

SamePage(q) ==
  /\ shared'[q] = shared[q] /\ attached'[q] = attached[q] /\ file'[q] = file[q]
  /\ cfg'[q] = cfg[q] /\ shown'[q] = shown[q] /\ known'[q] = known[q] /\ url'[q] = url[q]
  /\ opening'[q] = opening[q] /\ op'[q] = op[q] /\ alarm'[q] = alarm[q]
  /\ q \in strayed' <=> q \in strayed

\* The request a page listens to, and what it was made of.
SameCall(q) ==
  /\ op'[q].no = op[q].no /\ op'[q].kind = op[q].kind /\ op'[q].file = op[q].file
  /\ cfg'[q] = cfg[q] /\ known'[q] = known[q]
  /\ q \in strayed' <=> q \in strayed

\* None of the requests under way is listened to any more.
Dropped(q) ==
  /\ op[q].no <= op'[q].no /\ op'[q].no \in Nat
  /\ op'[q].kind = "none" \/ op[q].no < op'[q].no

LEMMA PageKept ==
  ASSUME Grows, NEW q \in Pages, PageInv(q), SamePage(q)
  PROVE  PageInv(q)'
<1>1. Attached(q)'
  BY DEF PageInv, Attached, SamePage, Grows
<1>2. Answered(q)'
  BY DEF PageInv, Answered, SamePage, Grows
<1>3. Settled(q)'
  BY DEF PageInv, Settled, Resting, SamePage, Grows
<1> QED BY <1>1, <1>2, <1>3 DEF PageInv

LEMMA CallKept ==
  ASSUME Grows, NEW r \in Calls, Sound(r), op[r.page].no \in Nat, SameCall(r.page) \/ Dropped(r.page)
  PROVE  Sound(r)'
<1>1. r.no <= op'[r.page].no
  BY DEF Sound, SameCall, Dropped, Calls
<1>2. /\ r.id # 0 => IsOf(r.id, r.file)'
      /\ r.method = "PUT" /\ r.id # 0 =>
           \E c \in SUBSET Edits : Holds(r.id, r.revision, c)' /\ c \subseteq r.cfg \cup r.aware
  BY DEF Sound, Grows
<1>3. CASE SameCall(r.page)
  BY <1>1, <1>2, <1>3 DEF Sound, SameCall, Heard
<1>4. CASE Dropped(r.page)
  <2>1. ~Heard(r)'
    BY <1>4 DEF Dropped, Heard, Sound, Calls
  <2> QED BY <1>1, <1>2, <2>1 DEF Sound
<1> QED BY <1>3, <1>4

(* A step of one page, or of the server for one page.                        *)
LEMMA OnePage ==
  ASSUME CalcInv, Grows, NEW p \in Pages,
         \A q \in Pages : q # p => SamePage(q),
         PagesTyped', LogsTyped', wire' \subseteq Calls,
         PageInv(p)', SameCall(p) \/ Dropped(p),
         \A r \in wire' : r \in wire \/ Sound(r)',
         UNCHANGED <<seen, changes>>, lost' = {}
  PROVE  CalcInv'
<1>1. \A q \in Pages : PageInv(q)'
  BY PageKept DEF CalcInv
<1>2. ASSUME NEW r \in wire' PROVE Sound(r)'
  <2>1. CASE Sound(r)'
    BY <2>1
  <2>2. CASE r \in wire
    <3>1. r \in Calls /\ r.page \in Pages /\ Sound(r)
      BY <2>2 DEF CalcInv, StoreTyped, Calls
    <3>2. op[r.page].no \in Nat
      BY <3>1 DEF CalcInv, PagesTyped, Ops
    <3>3. SameCall(r.page) \/ Dropped(r.page)
      BY <3>1 DEF SamePage, SameCall
    <3> QED BY <3>1, <3>2, <3>3, CallKept
  <2> QED BY <1>2, <2>1, <2>2
<1>3. StoreTyped' /\ SeenInv' /\ NoEditLost'
  BY DEF CalcInv, StoreTyped, LogsTyped, SeenInv, Grows, NoEditLost
<1> QED BY <1>1, <1>2, <1>3 DEF CalcInv

-----------------------------------------------------------------------------
(* A request *)

LEMMA Requested ==
  ASSUME CalcInv, NEW p \in Pages, NEW kind \in {"load", "calc"},
         NEW method \in {"GET", "POST", "PUT"}, NEW f \in Files \cup {NoFile}, NEW id \in Nat,
         NEW revision \in Nat, NEW parameters \in SUBSET Edits,
         Request(p, kind, method, f, id, revision, parameters)
  PROVE  \E o \in Ops, n \in Calls :
           /\ op' = [op EXCEPT ![p] = o] /\ wire' = wire \cup {n}
           /\ o.no = op[p].no + 1 /\ o.kind = kind /\ o.file = f /\ o.answer = NoAnswer
           /\ n.page = p /\ n.no = o.no /\ n.method = method /\ n.file = f /\ n.id = id
           /\ n.revision = revision /\ n.cfg = parameters /\ n.aware = known[p]
<1>1. op[p] \in Ops /\ known[p] \in SUBSET Edits
  BY DEF CalcInv, PagesTyped
<1>2. PICK no \in Nat : no = op[p].no + 1
  BY <1>1 DEF Ops
<1>3. PICK o : o = [no |-> no, kind |-> kind, file |-> f, answer |-> NoAnswer]
  OBVIOUS
<1>4. PICK n : n = [page |-> p, no |-> no, method |-> method, file |-> f, id |-> id,
                    revision |-> revision, cfg |-> parameters, aware |-> known[p]]
  OBVIOUS
<1>5. NoAnswer \in Replies
  BY DEF Replies
<1>6. o \in Ops /\ n \in Calls
  BY <1>1, <1>2, <1>3, <1>4, <1>5 DEF Ops, Calls
<1>7. op' = [op EXCEPT ![p] = o] /\ wire' = wire \cup {n}
  BY <1>2, <1>3, <1>4 DEF Request
<1> QED BY <1>2, <1>3, <1>4, <1>6, <1>7

-----------------------------------------------------------------------------
LEMMA PageOf ==
  ASSUME CalcInv, NEW p \in Pages
  PROVE  /\ shared[p] \in Refs /\ attached[p] \in BOOLEAN /\ file[p] \in Files \cup {NoFile}
         /\ cfg[p] \in SUBSET Edits /\ known[p] \in SUBSET Edits /\ url[p] \in Nat
         /\ op[p] \in Ops /\ op[p].no \in Nat /\ Attached(p) /\ Answered(p) /\ Settled(p) /\ LogsTyped
         /\ lost = {} /\ wire \subseteq Calls
BY DEF CalcInv, PagesTyped, StoreTyped, LogsTyped, Ops, PageInv, NoEditLost

\* A page that waits for the answer to a request it has just made.
LEMMA Waiting ==
  ASSUME NEW p \in Pages, Attached(p)', op'[p].kind # "none", op'[p].answer = NoAnswer,
         op'[p].kind = "calc" => op'[p].file = file'[p]
  PROVE  PageInv(p)'
<1>1. op'[p].answer.is # "ok"
  BY DEF NoAnswer
<1> QED BY <1>1 DEF PageInv, Answered, Settled, Resting

LEMMA NotKnown ==
  ASSUME NEW f \in Files \cup {NoFile}
  PROVE  \E u \in Refs : u = Unknown(f) /\ u.id = 0 /\ u.file = f
<1>1. PICK u : u = [id |-> 0, revision |-> 0, file |-> f]
  OBVIOUS
<1>2. u \in Refs /\ u.id = 0 /\ u.file = f
  BY <1>1 DEF Refs
<1> QED BY <1>1, <1>2 DEF Unknown

LEMMA UploadKeeps ==
  ASSUME CalcInv, NEW p \in Pages, NEW f \in Files, Upload(p, f)
  PROVE  CalcInv'
<1>1. PICK o \in Ops, n \in Calls :
           /\ op' = [op EXCEPT ![p] = o] /\ wire' = wire \cup {n}
           /\ o.no = op[p].no + 1 /\ o.kind = "load" /\ o.file = f /\ o.answer = NoAnswer
           /\ n.page = p /\ n.no = o.no /\ n.method = "POST" /\ n.file = f /\ n.id = 0
           /\ n.revision = 0 /\ n.cfg = {} /\ n.aware = known[p]
  BY Requested DEF Upload
<1>2. PICK u \in Refs : u = Unknown(f) /\ u.id = 0
  BY NotKnown
<1>3. /\ shared' = [shared EXCEPT ![p] = u] /\ attached' = [attached EXCEPT ![p] = FALSE]
      /\ UNCHANGED <<logs, file, cfg, shown, url, opening, alarm, seen, changes, known, lost, strayed>>
  BY <1>2 DEF Upload
<1>4. PagesTyped'
  BY <1>1, <1>2, <1>3 DEF CalcInv, PagesTyped
<1>5. /\ op'[p] = o /\ shared'[p] = u /\ attached'[p] = FALSE
      /\ \A q \in Pages : q # p => SamePage(q)
  BY <1>1, <1>2, <1>3 DEF CalcInv, PagesTyped, SamePage
<1>6. Grows
  BY <1>3, SameStore
<1>7. PageInv(p)'
  <2>1. Attached(p)'
    BY <1>2, <1>3, <1>5, PageOf DEF Attached
  <2> QED BY <1>1, <1>5, <2>1, Waiting
<1>8. Sound(n)'
  BY <1>1, <1>5 DEF Sound, Heard, Calls
<1>9. LogsTyped' /\ lost' = {} /\ wire' \subseteq Calls /\ Dropped(p)
  BY <1>1, <1>3, <1>5, PageOf DEF LogsTyped, Dropped, Ops
<1> QED BY <1>1, <1>3, <1>4, <1>5, <1>6, <1>7, <1>8, <1>9, OnePage

LEMMA RefreshKeeps ==
  ASSUME CalcInv, NEW p \in Pages, Refresh(p)
  PROVE  CalcInv'
<1>1. /\ UNCHANGED <<logs, shared, attached, file, cfg, shown, url, alarm, seen, changes, known, lost, strayed>>
      /\ url[p] # 0
  BY DEF Refresh
<1>2. Grows
  BY <1>1, SameStore
<1>3. CASE shared[p].id = url[p]
  <2>1. shared[p].file \in Files \cup {NoFile} /\ url[p] \in Nat
    BY PageOf DEF Refs
  <2> Request(p, "load", "GET", shared[p].file, url[p], 0, {})
    BY <1>3 DEF Refresh
  <2>2. PICK o \in Ops, n \in Calls :
           /\ op' = [op EXCEPT ![p] = o] /\ wire' = wire \cup {n}
           /\ o.no = op[p].no + 1 /\ o.kind = "load" /\ o.file = shared[p].file /\ o.answer = NoAnswer
           /\ n.page = p /\ n.no = o.no /\ n.method = "GET" /\ n.file = shared[p].file
           /\ n.id = url[p] /\ n.revision = 0 /\ n.cfg = {} /\ n.aware = known[p]
    BY <2>1, Requested
  <2>3. opening' = opening
    BY <1>3 DEF Refresh
  <2>4. PagesTyped'
    BY <1>1, <2>2, <2>3 DEF CalcInv, PagesTyped
  <2>5. op'[p] = o /\ \A q \in Pages : q # p => SamePage(q)
    BY <1>1, <2>2, <2>3 DEF CalcInv, PagesTyped, SamePage
  <2>6. PageInv(p)'
    <3>1. Attached(p)'
      BY <1>1, <2>3, PageOf DEF Attached, Holds, IsOf
    <3> QED BY <2>2, <2>5, <3>1, Waiting
  <2>7. Sound(n)'
    <3>1. IsOf(n.id, n.file)'
      BY <1>1, <1>3, <2>2, PageOf DEF Attached, IsOf
    <3> QED BY <2>2, <2>5, <3>1 DEF Sound, Heard, Calls
  <2>8. LogsTyped' /\ lost' = {} /\ wire' \subseteq Calls /\ Dropped(p)
    BY <1>1, <2>2, <2>5, PageOf DEF LogsTyped, Dropped, Ops
  <2> QED BY <1>1, <1>2, <2>2, <2>4, <2>5, <2>6, <2>7, <2>8, OnePage
<1>4. CASE shared[p].id # url[p]
  <2>1. opening' = [opening EXCEPT ![p] = @ \cup {url[p]}] /\ UNCHANGED <<op, wire>>
    BY <1>4 DEF Refresh
  <2>2. PagesTyped'
    BY <1>1, <2>1 DEF CalcInv, PagesTyped
  <2>3. opening'[p] = opening[p] \cup {url[p]} /\ \A q \in Pages : q # p => SamePage(q)
    BY <1>1, <2>1 DEF CalcInv, PagesTyped, SamePage
  <2>4. Attached(p)'
    BY <1>1, <2>3, PageOf DEF Attached, Holds, IsOf
  <2>5. Answered(p)'
    BY <1>1, <2>1, PageOf DEF Answered, Holds, IsOf
  <2>6. Settled(p)'
    BY <2>3 DEF Settled, Resting
  <2>7. LogsTyped' /\ lost' = {} /\ wire' \subseteq Calls /\ SameCall(p)
    BY <1>1, <2>1, PageOf DEF LogsTyped, SameCall
  <2> QED BY <1>1, <1>2, <2>1, <2>2, <2>3, <2>4, <2>5, <2>6, <2>7, OnePage DEF PageInv
<1> QED BY <1>3, <1>4
-----------------------------------------------------------------------------
LEMMA OpenedKeeps ==
  ASSUME CalcInv, NEW p \in Pages, NEW id, Opened(p, id)
  PROVE  CalcInv'
<1>1. id \in 1 .. Len(logs)
  BY PageOf DEF Opened, Attached
<1>2. /\ Holds(id, Revision(id), Now(id)) /\ IsOf(id, logs[id].file) /\ Now(id) \in SUBSET Edits
      /\ Revision(id) \in Nat /\ logs[id].file \in Files /\ id \in Nat
  BY <1>1, PageOf, TheNewest
<1>3. PICK o \in Ops, n \in Calls :
           /\ op' = [op EXCEPT ![p] = o] /\ wire' = wire \cup {n}
           /\ o.no = op[p].no + 1 /\ o.kind = "load" /\ o.file = logs[id].file /\ o.answer = NoAnswer
           /\ n.page = p /\ n.no = o.no /\ n.method = "GET" /\ n.file = logs[id].file
           /\ n.id = id /\ n.revision = 0 /\ n.cfg = {} /\ n.aware = known[p]
  BY <1>2, Requested DEF Opened
<1>4. PICK u : u = [id |-> id, revision |-> Revision(id), file |-> logs[id].file]
  OBVIOUS
<1>5. u \in Refs /\ u.id = id /\ u.revision = Revision(id) /\ u.file = logs[id].file
  BY <1>2, <1>4 DEF Refs
<1>6. PICK w : w = opening[p] \ {id}
  OBVIOUS
<1>7. /\ shared' = [shared EXCEPT ![p] = u] /\ attached' = [attached EXCEPT ![p] = FALSE]
      /\ opening' = [opening EXCEPT ![p] = w]
      /\ UNCHANGED <<logs, file, cfg, shown, url, alarm, seen, changes, known, lost, strayed>>
  BY <1>4, <1>6 DEF Opened
<1>8. w \in SUBSET Nat /\ w \subseteq opening[p]
  BY <1>6 DEF CalcInv, PagesTyped
<1>9. PagesTyped'
  BY <1>3, <1>5, <1>7, <1>8 DEF CalcInv, PagesTyped
<1>10. /\ op'[p] = o /\ shared'[p] = u /\ attached'[p] = FALSE /\ opening'[p] = w
       /\ \A q \in Pages : q # p => SamePage(q)
  BY <1>3, <1>7 DEF CalcInv, PagesTyped, SamePage
<1>11. Grows
  BY <1>7, SameStore
<1>12. PageInv(p)'
  <2>1. /\ IsOf(shared[p].id, shared[p].file)'
        /\ \E c \in SUBSET Edits : Holds(shared[p].id, shared[p].revision, c)'
    BY <1>2, <1>5, <1>7, <1>10 DEF Holds, IsOf
  <2>2. /\ cfg'[p] \subseteq known'[p] /\ (url'[p] # 0 => url'[p] \in 1 .. Len(logs'))
        /\ opening'[p] \subseteq 1 .. Len(logs')
    BY <1>7, <1>8, <1>10, PageOf DEF Attached
  <2>3. Attached(p)'
    BY <1>10, <2>1, <2>2 DEF Attached
  <2> QED BY <1>3, <1>10, <2>3, Waiting
<1>13. Sound(n)'
  <2>1. IsOf(n.id, n.file)'
    BY <1>2, <1>3, <1>7 DEF IsOf
  <2> QED BY <1>3, <1>10, <2>1 DEF Sound, Heard, Calls
<1>14. LogsTyped' /\ lost' = {} /\ wire' \subseteq Calls /\ Dropped(p)
  BY <1>3, <1>7, <1>10, PageOf DEF LogsTyped, Dropped, Ops
<1> QED BY <1>3, <1>7, <1>9, <1>10, <1>11, <1>12, <1>13, <1>14, OnePage

(* The fields are sent with what they were made from; a page that shows      *)
(* another file than it works on uploads that file again, and has strayed.   *)
LEMMA RecomputeKeeps ==
  ASSUME CalcInv, NEW p \in Pages, NEW parameters \in SUBSET Edits, NEW k \in SUBSET Edits,
         known[p] \cup parameters \subseteq k, file[p] # NoFile,
         known' = [known EXCEPT ![p] = k], cfg' = [cfg EXCEPT ![p] = parameters],
         Recompute(p, parameters),
         UNCHANGED <<logs, file, shown, url, opening, alarm, seen, changes, lost>>
  PROVE  CalcInv'
<1>1. Grows
  BY SameStore
<1>2. /\ file[p] \in Files \cup {NoFile} /\ shared[p].id \in Nat /\ shared[p].revision \in Nat
  BY PageOf DEF Refs
<1>3. CASE attached[p]
  <2>1. PICK o \in Ops, n \in Calls :
           /\ op' = [op EXCEPT ![p] = o] /\ wire' = wire \cup {n}
           /\ o.no = op[p].no + 1 /\ o.kind = "calc" /\ o.file = file[p] /\ o.answer = NoAnswer
           /\ n.page = p /\ n.no = o.no /\ n.method = "PUT" /\ n.file = file[p]
           /\ n.id = shared[p].id /\ n.revision = shared[p].revision /\ n.cfg = parameters
           /\ n.aware = known[p]
    BY <1>2, <1>3, Requested DEF Recompute
  <2>2. UNCHANGED <<shared, attached, strayed>>
    BY <1>3 DEF Recompute
  <2>3. PagesTyped'
    BY <2>1, <2>2 DEF CalcInv, PagesTyped
  <2>4. /\ op'[p] = o /\ cfg'[p] = parameters /\ known'[p] = k
        /\ \A q \in Pages : q # p => SamePage(q)
    BY <2>1, <2>2 DEF CalcInv, PagesTyped, SamePage
  <2>5. PageInv(p)'
    <3>1. Attached(p)'
      BY <2>2, <2>4, PageOf DEF Attached, Holds, IsOf
    <3> QED BY <2>1, <2>4, <3>1, Waiting
  <2>6. Sound(n)'
    <3>1. n.id # 0 => IsOf(n.id, n.file)'
      BY <1>3, <2>1, PageOf DEF Attached, IsOf
    <3>2. n.id # 0 => \E c \in SUBSET Edits : Holds(n.id, n.revision, c)' /\ c \subseteq n.cfg \cup n.aware
      BY <1>3, <2>1, PageOf DEF Attached, Holds
    <3> QED BY <2>1, <2>4, <3>1, <3>2 DEF Sound, Heard, Calls
  <2>7. LogsTyped' /\ lost' = {} /\ wire' \subseteq Calls /\ Dropped(p)
    BY <2>1, <2>4, PageOf DEF LogsTyped, Dropped, Ops
  <2> QED BY <1>1, <2>1, <2>3, <2>4, <2>5, <2>6, <2>7, OnePage
<1>4. CASE ~attached[p]
  <2>1. PICK o \in Ops, n \in Calls :
           /\ op' = [op EXCEPT ![p] = o] /\ wire' = wire \cup {n}
           /\ o.no = op[p].no + 1 /\ o.kind = "calc" /\ o.file = file[p] /\ o.answer = NoAnswer
           /\ n.page = p /\ n.no = o.no /\ n.method = "POST" /\ n.file = file[p]
           /\ n.id = 0 /\ n.revision = 0 /\ n.cfg = {} /\ n.aware = known[p]
    BY <1>2, <1>4, Requested DEF Recompute
  <2>2. PICK u \in Refs : u = Unknown(file[p]) /\ u.id = 0 /\ u.file = file[p]
    BY <1>2, NotKnown
  <2>3. /\ shared' = [shared EXCEPT ![p] = u] /\ attached' = [attached EXCEPT ![p] = TRUE]
        /\ strayed' = strayed \cup {p}
    BY <1>4, <2>2 DEF Recompute
  <2>4. PagesTyped'
    BY <2>1, <2>2, <2>3 DEF CalcInv, PagesTyped
  <2>5. /\ op'[p] = o /\ shared'[p] = u /\ attached'[p] = TRUE /\ cfg'[p] = parameters
        /\ known'[p] = k /\ \A q \in Pages : q # p => SamePage(q)
    BY <2>1, <2>2, <2>3 DEF CalcInv, PagesTyped, SamePage
  <2>6. PageInv(p)'
    <3>1. Attached(p)'
      BY <2>2, <2>5, PageOf DEF Attached
    <3> QED BY <2>1, <2>5, <3>1, Waiting
  <2>7. Sound(n)'
    BY <2>1, <2>3, <2>5 DEF Sound, Heard, Calls
  <2>8. LogsTyped' /\ lost' = {} /\ wire' \subseteq Calls /\ Dropped(p)
    BY <2>1, <2>5, PageOf DEF LogsTyped, Dropped, Ops
  <2> QED BY <1>1, <2>1, <2>4, <2>5, <2>6, <2>7, <2>8, OnePage
<1> QED BY <1>3, <1>4 DEF CalcInv, PagesTyped

LEMMA EditKeeps ==
  ASSUME CalcInv, NEW p \in Pages, NEW e \in Edits, Edit(p, e)
  PROVE  CalcInv'
<1>1. PICK c : c = cfg[p] \cup {e}
  OBVIOUS
<1>2. PICK k : k = known[p] \cup {e}
  OBVIOUS
<1>3. c \in SUBSET Edits /\ k \in SUBSET Edits /\ known[p] \cup c \subseteq k /\ file[p] # NoFile
  BY <1>1, <1>2, PageOf DEF Attached, Edit
<1>4. /\ known' = [known EXCEPT ![p] = k] /\ cfg' = [cfg EXCEPT ![p] = c] /\ Recompute(p, c)
      /\ UNCHANGED <<logs, file, shown, url, opening, alarm, seen, changes, lost>>
  BY <1>1, <1>2 DEF Edit
<1> QED BY <1>3, <1>4, RecomputeKeeps

LEMMA ResetKeeps ==
  ASSUME CalcInv, NEW p \in Pages, Reset(p)
  PROVE  CalcInv'
<1>1. known[p] \in SUBSET Edits /\ known' = [known EXCEPT ![p] = known[p]]
  BY DEF Reset, CalcInv, PagesTyped
<1>2. /\ cfg' = [cfg EXCEPT ![p] = {}] /\ Recompute(p, {}) /\ file[p] # NoFile
      /\ UNCHANGED <<logs, file, shown, url, opening, alarm, seen, changes, lost>>
  BY DEF Reset
<1> QED BY <1>1, <1>2, RecomputeKeeps
-----------------------------------------------------------------------------
\* The end of a request leaves its number behind.
LEMMA Over ==
  ASSUME CalcInv, NEW p \in Pages, op' = [op EXCEPT ![p] = [Idle EXCEPT !.no = op[p].no]]
  PROVE  \E o \in Ops : /\ op' = [op EXCEPT ![p] = o] /\ o.no = op[p].no
                        /\ o.kind = "none" /\ o.file = NoFile /\ o.answer = NoAnswer
<1>1. PICK o : o = [Idle EXCEPT !.no = op[p].no]
  OBVIOUS
<1>2. o \in Ops /\ o.no = op[p].no /\ o.kind = "none" /\ o.file = NoFile /\ o.answer = NoAnswer
  BY <1>1, PageOf DEF Idle, Ops, Replies
<1> QED BY <1>1, <1>2

LEMMA VisitKeeps ==
  ASSUME CalcInv, NEW p \in Pages, NEW id, Visit(p, id)
  PROVE  CalcInv'
<1>1. PICK o \in Ops : /\ op' = [op EXCEPT ![p] = o] /\ o.no = op[p].no
                       /\ o.kind = "none" /\ o.file = NoFile /\ o.answer = NoAnswer
  BY Over DEF Visit
<1>2. PICK u \in Refs : u = Unknown(NoFile) /\ u.id = 0 /\ u.file = NoFile
  BY NotKnown
<1>3. /\ url' = [url EXCEPT ![p] = id] /\ shared' = [shared EXCEPT ![p] = u]
      /\ attached' = [attached EXCEPT ![p] = FALSE] /\ file' = [file EXCEPT ![p] = NoFile]
      /\ cfg' = [cfg EXCEPT ![p] = {}] /\ shown' = [shown EXCEPT ![p] = {}]
      /\ opening' = [opening EXCEPT ![p] = {id}] /\ alarm' = [alarm EXCEPT ![p] = FALSE]
      /\ known' = [known EXCEPT ![p] = {}] /\ strayed' = strayed \ {p}
      /\ UNCHANGED <<logs, wire, seen, changes, lost>> /\ id \in 1 .. Len(logs)
  BY <1>2 DEF Visit, Has
<1>4. id \in Nat
  BY <1>3, PageOf DEF LogsTyped
<1>5. PagesTyped'
  BY <1>1, <1>2, <1>3, <1>4 DEF CalcInv, PagesTyped
<1>6. /\ url'[p] = id /\ shared'[p] = u /\ attached'[p] = FALSE /\ file'[p] = NoFile /\ cfg'[p] = {}
      /\ opening'[p] = {id} /\ known'[p] = {} /\ op'[p] = o
      /\ \A q \in Pages : q # p => SamePage(q)
  BY <1>1, <1>3 DEF CalcInv, PagesTyped, SamePage
<1>7. Grows
  BY <1>3, SameStore
<1>8. PageInv(p)'
  <2>1. Attached(p)'
    BY <1>2, <1>3, <1>6 DEF Attached
  <2>2. Answered(p)'
    BY <1>1, <1>6 DEF Answered, NoAnswer
  <2>3. Settled(p)'
    BY <1>6 DEF Settled, Resting
  <2> QED BY <2>1, <2>2, <2>3 DEF PageInv
<1>9. LogsTyped' /\ lost' = {} /\ wire' \subseteq Calls /\ Dropped(p)
  BY <1>1, <1>3, <1>6, PageOf DEF LogsTyped, Dropped
<1> QED BY <1>3, <1>5, <1>6, <1>7, <1>8, <1>9, OnePage

(* The answer is a revision of the file the page asked about: with it a load *)
(* sets everything, and an edit finds the rest as it was.                    *)
LEMMA ReplyKeeps ==
  ASSUME CalcInv, NEW p \in Pages, Reply(p)
  PROVE  CalcInv'
<1>1. PICK a : a = op[p].answer
  OBVIOUS
<1>2. a.is = "ok" /\ op[p].kind \in {"load", "calc"}
  BY <1>1, PageOf DEF Reply, Answered, Ops
<1>3. /\ Holds(a.id, a.revision, a.cfg) /\ IsOf(a.id, op[p].file)
      /\ op[p].kind = "calc" => /\ op[p].file = file[p] /\ a.cfg \subseteq known[p]
                                /\ p \notin strayed => a.cfg = cfg[p]
  BY <1>1, <1>2, PageOf DEF Answered
<1>4. a \in Ok
  BY <1>1, <1>2, PageOf DEF Ops, Replies, NoAnswer, Failed
<1>5. a.id \in Nat /\ a.revision \in Nat /\ a.cfg \in SUBSET Edits /\ op[p].file \in Files \cup {NoFile}
  BY <1>4, PageOf DEF Ok, Ops
<1>6. PICK o \in Ops : /\ op' = [op EXCEPT ![p] = o] /\ o.no = op[p].no
                       /\ o.kind = "none" /\ o.file = NoFile /\ o.answer = NoAnswer
  BY Over DEF Reply, Finished
<1>7. PICK u : u = [id |-> a.id, revision |-> a.revision, file |-> op[p].file]
  OBVIOUS
<1>8. u \in Refs /\ u.id = a.id /\ u.revision = a.revision /\ u.file = op[p].file
  BY <1>5, <1>7 DEF Refs
<1>9. /\ shared' = [shared EXCEPT ![p] = u] /\ url' = [url EXCEPT ![p] = a.id]
      /\ alarm' = [alarm EXCEPT ![p] = FALSE] /\ shown' = [shown EXCEPT ![p] = a.cfg]
      /\ UNCHANGED <<logs, opening, wire, seen, changes, lost>>
  BY <1>1, <1>7 DEF Reply
<1>10. Grows
  BY <1>9, SameStore
<1>11. LogsTyped' /\ lost' = {} /\ wire' \subseteq Calls /\ Dropped(p)
  <2>1. op'[p] = o
    BY <1>6 DEF CalcInv, PagesTyped
  <2> QED BY <1>6, <1>9, <2>1, PageOf DEF LogsTyped, Dropped
<1>12. CASE op[p].kind = "load"
  <2>1. PICK k : k = known[p] \cup a.cfg
    OBVIOUS
  <2>2. k \in SUBSET Edits /\ a.cfg \subseteq k
    BY <1>5, <2>1, PageOf
  <2>3. /\ file' = [file EXCEPT ![p] = op[p].file] /\ attached' = [attached EXCEPT ![p] = TRUE]
        /\ cfg' = [cfg EXCEPT ![p] = a.cfg] /\ known' = [known EXCEPT ![p] = k]
        /\ strayed' = strayed \ {p}
    BY <1>1, <1>12, <2>1 DEF Reply
  <2>4. PagesTyped'
    BY <1>5, <1>6, <1>8, <1>9, <2>2, <2>3 DEF CalcInv, PagesTyped
  <2>5. /\ op'[p] = o /\ shared'[p] = u /\ url'[p] = a.id /\ shown'[p] = a.cfg /\ opening'[p] = opening[p]
        /\ file'[p] = op[p].file /\ attached'[p] = TRUE /\ cfg'[p] = a.cfg /\ known'[p] = k
        /\ \A q \in Pages : q # p => SamePage(q)
    BY <1>6, <1>9, <2>3 DEF CalcInv, PagesTyped, SamePage
  <2>6. Attached(p)'
    BY <1>3, <1>5, <1>8, <1>9, <2>2, <2>5, PageOf, SMTT(40) DEF Attached, Holds, IsOf
  <2>7. Answered(p)'
    BY <1>6, <2>5 DEF Answered, NoAnswer
  <2>8. Settled(p)'
    BY <1>3, <1>8, <1>9, <2>5 DEF Settled, Holds, IsOf
  <2> QED BY <1>9, <1>10, <1>11, <2>4, <2>5, <2>6, <2>7, <2>8, OnePage DEF PageInv
<1>13. CASE op[p].kind = "calc"
  <2>1. UNCHANGED <<file, attached, cfg, known, strayed>>
    BY <1>13 DEF Reply
  <2>2. PagesTyped'
    BY <1>5, <1>6, <1>8, <1>9, <2>1 DEF CalcInv, PagesTyped
  <2>3. /\ op'[p] = o /\ shared'[p] = u /\ url'[p] = a.id /\ shown'[p] = a.cfg
        /\ \A q \in Pages : q # p => SamePage(q)
    BY <1>6, <1>9, <2>1 DEF CalcInv, PagesTyped, SamePage
  <2>4. Attached(p)'
    BY <1>3, <1>5, <1>8, <1>9, <1>13, <2>1, <2>3, PageOf, SMTT(40) DEF Attached, Holds, IsOf
  <2>5. Answered(p)'
    BY <1>6, <2>3 DEF Answered, NoAnswer
  <2>6. Settled(p)'
    BY <1>3, <1>8, <1>9, <1>13, <2>1, <2>3 DEF Settled, Holds, IsOf
  <2> QED BY <1>9, <1>10, <1>11, <2>2, <2>3, <2>4, <2>5, <2>6, OnePage DEF PageInv
<1> QED BY <1>2, <1>12, <1>13

LEMMA RefusedKeeps ==
  ASSUME CalcInv, NEW p \in Pages, Refused(p)
  PROVE  CalcInv'
<1>1. PICK o \in Ops : /\ op' = [op EXCEPT ![p] = o] /\ o.no = op[p].no
                       /\ o.kind = "none" /\ o.file = NoFile /\ o.answer = NoAnswer
  BY Over DEF Refused, Finished
<1>2. /\ alarm' = [alarm EXCEPT ![p] = TRUE]
      /\ UNCHANGED <<logs, shared, attached, file, cfg, shown, url, opening, wire, seen, changes,
                     known, lost, strayed>>
  BY DEF Refused
<1>3. PagesTyped'
  BY <1>1, <1>2 DEF CalcInv, PagesTyped
<1>4. op'[p] = o /\ alarm'[p] = TRUE /\ \A q \in Pages : q # p => SamePage(q)
  BY <1>1, <1>2 DEF CalcInv, PagesTyped, SamePage
<1>5. Attached(p)'
  BY <1>2, PageOf DEF Attached, Holds, IsOf
<1>6. Answered(p)'
  BY <1>1, <1>4 DEF Answered, NoAnswer
<1>7. Settled(p)'
  BY <1>4 DEF Settled, Resting
<1>8. Grows /\ LogsTyped' /\ lost' = {} /\ wire' \subseteq Calls /\ Dropped(p)
  BY <1>1, <1>2, <1>4, SameStore, PageOf DEF LogsTyped, Dropped
<1> QED BY <1>2, <1>3, <1>4, <1>5, <1>6, <1>7, <1>8, OnePage DEF PageInv
-----------------------------------------------------------------------------
(* The server *)

LEMMA AnswerKeeps ==
  ASSUME CalcInv, Grows, LogsTyped', NEW p \in Pages, NEW o \in Ops, op' = [op EXCEPT ![p] = o],
         o.no = op[p].no, o.kind = op[p].kind, o.file = op[p].file,
         o.answer.is = "ok" =>
           /\ o.kind # "none" /\ Holds(o.answer.id, o.answer.revision, o.answer.cfg)'
           /\ IsOf(o.answer.id, o.file)'
           /\ o.kind = "calc" => /\ o.answer.cfg \subseteq known[p]
                                 /\ p \notin strayed => o.answer.cfg = cfg[p],
         UNCHANGED <<shared, attached, file, cfg, shown, url, opening, alarm, known, strayed, seen, changes>>,
         wire' \subseteq wire, lost' = {}
  PROVE  CalcInv'
<1>1. PagesTyped'
  BY DEF CalcInv, PagesTyped
<1>2. op'[p] = o /\ \A q \in Pages : q # p => SamePage(q)
  BY DEF CalcInv, PagesTyped, SamePage
<1>3. Attached(p)'
  BY PageOf DEF Attached, Grows
<1>4. Answered(p)'
  BY <1>2, PageOf DEF Answered
<1>5. Settled(p)'
  BY <1>2, PageOf DEF Settled, Resting, Grows
<1>6. SameCall(p) /\ wire' \subseteq Calls
  BY <1>2, PageOf DEF SameCall
<1> QED BY <1>1, <1>2, <1>3, <1>4, <1>5, <1>6, OnePage DEF PageInv

LEMMA TellKeeps ==
  ASSUME CalcInv, Grows, LogsTyped', NEW r \in wire, NEW a \in Replies, Tell(r, a),
         a.is = "ok" => /\ Holds(a.id, a.revision, a.cfg)' /\ IsOf(a.id, r.file)'
                        /\ r.method = "POST" => a.cfg = {}
                        /\ r.method = "PUT" => a.cfg = r.cfg,
         UNCHANGED <<shared, attached, file, cfg, shown, url, opening, alarm, known, strayed, seen, changes>>,
         wire' \subseteq wire, lost' = {}
  PROVE  CalcInv'
<1>1. r \in Calls /\ r.page \in Pages /\ Sound(r)
  BY DEF CalcInv, StoreTyped, Calls
<1>2. op[r.page] \in Ops /\ Answered(r.page)
  BY <1>1, PageOf
<1>3. CASE Heard(r)
  <2>1. PICK o : o = [op[r.page] EXCEPT !.answer = a]
    OBVIOUS
  <2>2. op' = [op EXCEPT ![r.page] = o]
    BY <1>3, <2>1 DEF Tell
  <2>3. /\ o \in Ops /\ o.no = op[r.page].no /\ o.kind = op[r.page].kind /\ o.file = op[r.page].file
        /\ o.answer = a
    BY <1>2, <2>1 DEF Ops
  <2>4. /\ o.kind # "none" /\ r.file = o.file
        /\ o.kind = "calc" => /\ r.method \in {"POST", "PUT"}
                              /\ r.method = "POST" => r.page \in strayed
                              /\ r.method = "PUT" => /\ r.cfg \subseteq known[r.page]
                                                     /\ r.page \notin strayed => r.cfg = cfg[r.page]
    BY <1>1, <1>3, <2>3 DEF Sound, Heard, Calls
  <2>5. a.is = "ok" =>
           /\ Holds(a.id, a.revision, a.cfg)' /\ IsOf(a.id, o.file)'
           /\ o.kind = "calc" => /\ a.cfg \subseteq known[r.page]
                                 /\ r.page \notin strayed => a.cfg = cfg[r.page]
    BY <2>4
  <2> QED BY <1>1, <2>2, <2>3, <2>4, <2>5, AnswerKeeps
<1>4. CASE ~Heard(r)
  <2>1. PICK o : o = op[r.page]
    OBVIOUS
  <2>2. op' = [op EXCEPT ![r.page] = o]
    BY <1>4, <2>1 DEF Tell, CalcInv, PagesTyped
  <2>3. o.answer.is = "ok" =>
           /\ o.kind # "none" /\ Holds(o.answer.id, o.answer.revision, o.answer.cfg)'
           /\ IsOf(o.answer.id, o.file)'
           /\ o.kind = "calc" => /\ o.answer.cfg \subseteq known[r.page]
                                 /\ r.page \notin strayed => o.answer.cfg = cfg[r.page]
    BY <1>2, <2>1 DEF Answered, Grows
  <2> QED BY <1>1, <1>2, <2>1, <2>2, <2>3, AnswerKeeps
<1> QED BY <1>3, <1>4

LEMMA OkReply ==
  ASSUME NEW id \in Nat, NEW n \in Nat, NEW c \in SUBSET Edits
  PROVE  \E a \in Replies : a = Answer(id, n, c) /\ a.is = "ok" /\ a.id = id /\ a.revision = n /\ a.cfg = c
<1>1. PICK a : a = Answer(id, n, c)
  OBVIOUS
<1>2. a \in Ok /\ a.is = "ok" /\ a.id = id /\ a.revision = n /\ a.cfg = c
  BY <1>1 DEF Answer, Ok
<1> QED BY <1>1, <1>2 DEF Replies

LEMMA FailReply == Failed \in Replies /\ Failed.is # "ok"
BY DEF Failed, Replies

(* A change is taken of the newest revision only, which its sender knew.     *)
LEMMA HandleKeeps ==
  ASSUME CalcInv, NEW r \in wire, Handle(r)
  PROVE  CalcInv'
<1>1. r \in Calls /\ Sound(r) /\ LogsTyped /\ lost = {}
  BY DEF CalcInv, StoreTyped, LogsTyped, NoEditLost
<1>2. /\ UNCHANGED <<shared, attached, file, cfg, shown, url, opening, alarm, known, strayed, seen, changes>>
      /\ wire' \subseteq wire
  BY DEF Handle
<1>3. CASE r.method = "POST" /\ r.file \notin BadFiles /\ Create(r.file)
           /\ Tell(r, Answer(Len(logs) + 1, 1, {})) /\ UNCHANGED lost /\ r.file \in Files
  <2>1. PICK n \in Nat : n = Len(logs) + 1
    BY <1>1 DEF LogsTyped
  <2>2. LogsTyped' /\ Grows /\ IsOf(n, r.file)' /\ Holds(n, 1, {})'
    BY <1>1, <1>3, <2>1, CreateGrows
  <2>3. PICK a \in Replies : a = Answer(n, 1, {}) /\ a.is = "ok" /\ a.id = n /\ a.revision = 1 /\ a.cfg = {}
    BY <2>1, OkReply
  <2>4. Tell(r, a)
    BY <1>3, <2>1, <2>3
  <2>5. Holds(a.id, a.revision, a.cfg)' /\ IsOf(a.id, r.file)'
    BY <2>2, <2>3
  <2>6. lost' = {}
    BY <1>1, <1>3
  <2> QED BY <1>2, <1>3, <2>2, <2>3, <2>4, <2>5, <2>6, TellKeeps
<1>4. CASE Tell(r, Failed) /\ UNCHANGED <<logs, lost>>
  <2>1. Grows /\ LogsTyped' /\ lost' = {}
    BY <1>1, <1>4, SameStore DEF LogsTyped
  <2> QED BY <1>2, <1>4, <2>1, FailReply, TellKeeps
<1>5. CASE r.method = "GET" /\ Has(r.id) /\ Tell(r, Answer(r.id, Revision(r.id), Now(r.id)))
           /\ UNCHANGED <<logs, lost>>
  <2>1. /\ Holds(r.id, Revision(r.id), Now(r.id)) /\ Now(r.id) \in SUBSET Edits
        /\ Revision(r.id) \in Nat /\ r.id \in Nat /\ r.id # 0
    BY <1>1, <1>5, TheNewest DEF Has, Calls
  <2>2. PICK a \in Replies : /\ a = Answer(r.id, Revision(r.id), Now(r.id)) /\ a.is = "ok" /\ a.id = r.id
                             /\ a.revision = Revision(r.id) /\ a.cfg = Now(r.id)
    BY <2>1, OkReply
  <2>3. Grows /\ LogsTyped' /\ lost' = {} /\ Tell(r, a)
    BY <1>1, <1>5, <2>2, SameStore DEF LogsTyped
  <2>4. Holds(a.id, a.revision, a.cfg) /\ IsOf(a.id, r.file)
    BY <1>1, <2>1, <2>2 DEF Sound
  <2>5. Holds(a.id, a.revision, a.cfg)' /\ IsOf(a.id, r.file)'
    BY <2>3, <2>4 DEF Grows
  <2> QED BY <1>2, <1>5, <2>2, <2>3, <2>5, TellKeeps
<1>6. CASE r.method = "PUT" /\ Accepts(r.id, r.revision) /\ Update(r.id, r.cfg, r.aware)
           /\ Tell(r, Answer(r.id, Revision(r.id) + 1, r.cfg))
  <2>1. /\ r.id \in 1 .. Len(logs) /\ r.id # 0 /\ r.id \in Nat /\ r.revision = Revision(r.id)
        /\ r.cfg \in SUBSET Edits
    BY <1>1, <1>6 DEF Accepts, Has, Calls
  <2>2. Holds(r.id, Revision(r.id), Now(r.id)) /\ Revision(r.id) \in Nat
    BY <1>1, <2>1, TheNewest
  <2>3. Now(r.id) \subseteq r.cfg \cup r.aware
    BY <1>1, <1>6, <2>1, <2>2 DEF Sound, Holds
  <2>4. lost' = {}
    BY <1>1, <1>6, <2>3 DEF Update
  <2>5. PICK n \in Nat : n = Revision(r.id) + 1
    BY <2>2
  <2>6. LogsTyped' /\ Grows /\ Holds(r.id, n, r.cfg)' /\ IsOf(r.id, r.file)'
    BY <1>1, <1>6, <2>1, <2>5, UpdateGrows DEF Sound
  <2>7. PICK a \in Replies : a = Answer(r.id, n, r.cfg) /\ a.is = "ok" /\ a.id = r.id /\ a.revision = n /\ a.cfg = r.cfg
    BY <2>1, <2>5, OkReply
  <2>8. Tell(r, a)
    BY <1>6, <2>5, <2>7
  <2>9. Holds(a.id, a.revision, a.cfg)' /\ IsOf(a.id, r.file)'
    BY <2>6, <2>7
  <2> QED BY <1>2, <1>6, <2>4, <2>6, <2>7, <2>8, <2>9, TellKeeps
<1>7. r.method = "POST" => r.file \in Files
  BY <1>1 DEF Sound
<1> QED BY <1>3, <1>4, <1>5, <1>6, <1>7 DEF Handle
LEMMA FailKeeps ==
  ASSUME CalcInv, NEW r \in wire, Fail(r)
  PROVE  CalcInv'
<1>1. /\ UNCHANGED <<logs, shared, attached, file, cfg, shown, url, opening, alarm, seen, changes, known,
                     lost, strayed>>
      /\ wire' \subseteq wire /\ Tell(r, Failed)
  BY DEF Fail
<1>2. Grows /\ LogsTyped' /\ lost' = {}
  BY <1>1, SameStore DEF LogsTyped, CalcInv, StoreTyped, NoEditLost
<1> QED BY <1>1, <1>2, FailReply, TellKeeps

LEMMA AnswerLostKeeps ==
  ASSUME CalcInv, NEW p \in Pages, AnswerLost(p)
  PROVE  CalcInv'
<1>1. op[p] \in Ops
  BY PageOf
<1>2. PICK o : o = [op[p] EXCEPT !.answer = Failed]
  OBVIOUS
<1>3. op' = [op EXCEPT ![p] = o]
  BY <1>2 DEF AnswerLost
<1>4. /\ o \in Ops /\ o.no = op[p].no /\ o.kind = op[p].kind /\ o.file = op[p].file
      /\ o.answer.is # "ok"
  BY <1>1, <1>2, FailReply DEF Ops
<1>5. UNCHANGED <<logs, shared, attached, file, cfg, shown, url, opening, alarm, wire, seen, changes, known,
                  lost, strayed>>
  BY DEF AnswerLost
<1>6. Grows /\ LogsTyped' /\ lost' = {}
  BY <1>5, SameStore DEF LogsTyped, CalcInv, StoreTyped, NoEditLost
<1> QED BY <1>3, <1>4, <1>5, <1>6, AnswerKeeps

-----------------------------------------------------------------------------
(* The agent *)

LEMMA AgentKeeps ==
  ASSUME CalcInv, Grows, LogsTyped', UNCHANGED <<pageVars, wire>>, lost' = {},
         seen' \in [id : Nat, revision : Nat, cfg : SUBSET Edits], changes' \in Nat, SeenInv'
  PROVE  CalcInv'
<1>1. UNCHANGED <<shared, attached, file, cfg, shown, url, opening, op, alarm, known, strayed, wire>>
  BY DEF pageVars
<1>2. PagesTyped' /\ StoreTyped' /\ NoEditLost'
  BY <1>1 DEF CalcInv, PagesTyped, StoreTyped, LogsTyped, NoEditLost
<1>3. \A q \in Pages : SamePage(q)
  BY <1>1 DEF SamePage
<1>4. \A q \in Pages : PageInv(q)'
  BY <1>3, PageKept DEF CalcInv
<1>5. ASSUME NEW r \in wire' PROVE Sound(r)'
  <2>1. r \in Calls /\ r.page \in Pages /\ Sound(r)
    BY <1>1 DEF CalcInv, StoreTyped, Calls
  <2>2. op[r.page].no \in Nat /\ SameCall(r.page)
    BY <1>1, <2>1, PageOf DEF SameCall
  <2> QED BY <2>1, <2>2, CallKept
<1> QED BY <1>2, <1>4, <1>5 DEF CalcInv

LEMMA StatsLoadKeeps ==
  ASSUME CalcInv, NEW f \in Files, StatsLoad(f)
  PROVE  CalcInv'
<1>1. /\ Create(f) /\ UNCHANGED <<pageVars, wire, seen, lost>> /\ changes' = changes + 1
      /\ LogsTyped /\ lost = {}
  BY DEF StatsLoad, CalcInv, StoreTyped, LogsTyped, NoEditLost
<1>2. LogsTyped' /\ Grows
  BY <1>1, CreateGrows
<1>3. /\ seen' \in [id : Nat, revision : Nat, cfg : SUBSET Edits] /\ lost' = {} /\ SeenInv'
  BY <1>1, <1>2 DEF CalcInv, StoreTyped, SeenInv, Grows
<1>4. changes' \in Nat
  BY <1>1 DEF CalcInv, StoreTyped
<1> QED BY <1>1, <1>2, <1>3, <1>4, AgentKeeps

LEMMA StatsReportKeeps ==
  ASSUME CalcInv, NEW id, StatsReport(id)
  PROVE  CalcInv'
<1>1. /\ seen' = [id |-> id, revision |-> Revision(id), cfg |-> Now(id)] /\ id \in 1 .. Len(logs)
      /\ UNCHANGED <<logs, pageVars, wire, changes, lost>>
  BY DEF StatsReport, Has
<1>2. LogsTyped /\ lost' = {} /\ changes' \in Nat
  BY <1>1 DEF CalcInv, StoreTyped, LogsTyped, NoEditLost
<1>3. /\ Holds(id, Revision(id), Now(id)) /\ Now(id) \in SUBSET Edits /\ Revision(id) \in Nat
      /\ id \in Nat
  BY <1>1, <1>2, TheNewest DEF LogsTyped
<1>4. PICK n \in Nat, c \in SUBSET Edits : n = Revision(id) /\ c = Now(id) /\ Holds(id, n, c)
  BY <1>3
<1>5. seen' = [id |-> id, revision |-> n, cfg |-> c]
  BY <1>1, <1>4
<1>6. seen' \in [id : Nat, revision : Nat, cfg : SUBSET Edits]
  BY <1>3, <1>4, <1>5
<1>7. Grows /\ LogsTyped'
  BY <1>1, <1>2, SameStore DEF LogsTyped
<1>8. SeenInv'
  BY <1>4, <1>5, <1>7 DEF SeenInv, Grows
<1> QED BY <1>1, <1>2, <1>6, <1>7, <1>8, AgentKeeps

\* What the agent was told of a revision is what that revision is still.
LEMMA StatsConfigureKeeps ==
  ASSUME CalcInv, NEW e \in Edits, StatsConfigure(e)
  PROVE  CalcInv'
<1>1. /\ seen.id # 0 /\ changes' = changes + 1 /\ UNCHANGED <<pageVars, wire, seen>>
      /\ LogsTyped /\ lost = {} /\ seen \in [id : Nat, revision : Nat, cfg : SUBSET Edits]
      /\ changes \in Nat
  BY DEF StatsConfigure, CalcInv, StoreTyped, LogsTyped, NoEditLost
<1>2. LogsTyped' /\ Grows /\ lost' = {}
  <2>1. CASE Accepts(seen.id, seen.revision)
    <3>1. seen.id \in 1 .. Len(logs) /\ seen.revision = Revision(seen.id)
      BY <2>1 DEF Accepts, Has
    <3>2. PICK c \in SUBSET Edits : c = seen.cfg \cup {e}
      BY <1>1
    <3>3. Update(seen.id, c, seen.cfg)
      BY <2>1, <3>2 DEF StatsConfigure
    <3>4. Now(seen.id) = seen.cfg
      BY <1>1, <3>1 DEF CalcInv, SeenInv, Holds, Now, Revision
    <3>5. lost' = {}
      BY <1>1, <3>2, <3>3, <3>4 DEF Update
    <3> QED BY <1>1, <3>1, <3>3, <3>5, UpdateGrows
  <2>2. CASE ~Accepts(seen.id, seen.revision)
    BY <1>1, <2>2, SameStore DEF StatsConfigure, LogsTyped
  <2> QED BY <2>1, <2>2
<1>3. seen' \in [id : Nat, revision : Nat, cfg : SUBSET Edits] /\ SeenInv'
  BY <1>1, <1>2 DEF CalcInv, SeenInv, Grows
<1>4. changes' \in Nat
  BY <1>1
<1> QED BY <1>1, <1>2, <1>3, <1>4, AgentKeeps

-----------------------------------------------------------------------------
(* The specification *)

LEMMA CalcInit == Init => CalcInv
<1> SUFFICES ASSUME Init PROVE CalcInv
  OBVIOUS
<1>1. Idle \in Ops /\ Idle.kind = "none" /\ Idle.answer.is # "ok"
  BY DEF Idle, Ops, Replies, NoAnswer
<1>2. Unknown(NoFile) \in Refs /\ Unknown(NoFile).id = 0 /\ Unknown(NoFile).file = NoFile
  BY DEF Unknown, Refs
<1>3. PagesTyped
  BY <1>1, <1>2 DEF Init, PagesTyped
<1>4. StoreTyped /\ SeenInv /\ NoEditLost
  BY DEF Init, StoreTyped, SeenInv, NoEditLost
<1>5. ASSUME NEW p \in Pages PROVE PageInv(p)
  <2>1. Attached(p)
    BY <1>2 DEF Init, Attached
  <2>2. Answered(p)
    BY <1>1 DEF Init, Answered
  <2>3. Settled(p)
    BY DEF Init, Settled, Resting
  <2> QED BY <2>1, <2>2, <2>3 DEF PageInv
<1>6. \A r \in wire : Sound(r)
  BY DEF Init
<1> QED BY <1>3, <1>4, <1>5, <1>6 DEF CalcInv

LEMMA CalcStutter == CalcInv /\ UNCHANGED vars => CalcInv'
<1> SUFFICES ASSUME CalcInv, UNCHANGED vars PROVE CalcInv'
  OBVIOUS
<1>1. UNCHANGED <<logs, pageVars, wire, seen, changes, lost>>
  BY DEF vars
<1>2. Grows /\ LogsTyped' /\ lost' = {}
  BY <1>1, SameStore DEF LogsTyped, CalcInv, StoreTyped, NoEditLost
<1>3. seen' \in [id : Nat, revision : Nat, cfg : SUBSET Edits] /\ changes' \in Nat /\ SeenInv'
  BY <1>1, <1>2 DEF CalcInv, StoreTyped, SeenInv, Grows
<1> QED BY <1>1, <1>2, <1>3, AgentKeeps

\* The store only grows, a page knows what it sends, and an answer is a revision of the
\* file that was asked for.
THEOREM CalcInvariance == Spec => []CalcInv
<1>1. CalcInv /\ [Next]_vars => CalcInv'
  <2> SUFFICES ASSUME CalcInv, [Next]_vars PROVE CalcInv'
    OBVIOUS
  <2>1. ASSUME NEW p \in Pages, NEW f \in Files, Upload(p, f) PROVE CalcInv'
    BY <2>1, UploadKeeps
  <2>2. ASSUME NEW p \in Pages, Refresh(p) PROVE CalcInv'
    BY <2>2, RefreshKeeps
  <2>3. ASSUME NEW p \in Pages, NEW id \in Ids, Opened(p, id) PROVE CalcInv'
    BY <2>3, OpenedKeeps
  <2>4. ASSUME NEW p \in Pages, NEW id \in Ids, Visit(p, id) PROVE CalcInv'
    BY <2>4, VisitKeeps
  <2>5. ASSUME NEW p \in Pages, NEW e \in Edits, Edit(p, e) PROVE CalcInv'
    BY <2>5, EditKeeps
  <2>6. ASSUME NEW p \in Pages, Reset(p) PROVE CalcInv'
    BY <2>6, ResetKeeps
  <2>7. ASSUME NEW p \in Pages, Reply(p) PROVE CalcInv'
    BY <2>7, ReplyKeeps
  <2>8. ASSUME NEW p \in Pages, Refused(p) PROVE CalcInv'
    BY <2>8, RefusedKeeps
  <2>9. ASSUME NEW p \in Pages, AnswerLost(p) PROVE CalcInv'
    BY <2>9, AnswerLostKeeps
  <2>10. ASSUME NEW r \in wire, Handle(r) PROVE CalcInv'
    BY <2>10, HandleKeeps
  <2>11. ASSUME NEW r \in wire, Fail(r) PROVE CalcInv'
    BY <2>11, FailKeeps
  <2>12. ASSUME NEW f \in Files, StatsLoad(f) PROVE CalcInv'
    BY <2>12, StatsLoadKeeps
  <2>13. ASSUME NEW id \in Ids, StatsReport(id) PROVE CalcInv'
    BY <2>13, StatsReportKeeps
  <2>14. ASSUME NEW e \in Edits, StatsConfigure(e) PROVE CalcInv'
    BY <2>14, StatsConfigureKeeps
  <2>15. CASE UNCHANGED vars
    BY <2>15, CalcStutter
  <2> QED BY <2>1, <2>2, <2>3, <2>4, <2>5, <2>6, <2>7, <2>8, <2>9, <2>10, <2>11, <2>12, <2>13, <2>14,
             <2>15 DEF Next
<1> QED BY <1>1, CalcInit, PTL DEF Spec

\* An edit of a calculation that was accepted is undone by nobody who had not been shown
\* it: Store.Update compares revisions, and a page sends its fields with the revision
\* they were made from (stats.js: recompute, sharedResponse).
THEOREM NoEditIsLost == Spec => []NoEditLost
<1>1. CalcInv => NoEditLost
  BY DEF CalcInv
<1> QED BY CalcInvariance, <1>1, PTL

\* A page at rest shows the fields, the results and the file of one revision of the
\* calculation in its address, whatever was aborted, lost or answered late (stats.js:
\* requestReport, openShared, refreshShared).
THEOREM PagesShowWhatIsSaved == Spec => []ShownAsSaved
<1>1. CalcInv => ShownAsSaved
  <2> SUFFICES ASSUME CalcInv, NEW p \in Pages, Resting(p), p \notin strayed
               PROVE  LET s == shared[p] IN
                      /\ s.id = url[p] /\ s.file = file[p] /\ logs[s.id].file = file[p]
                      /\ logs[s.id].versions[s.revision] = cfg[p]
                      /\ shown[p] = cfg[p]
    BY DEF ShownAsSaved
  <2> QED BY DEF CalcInv, PageInv, Settled, Holds, IsOf
<1> QED BY CalcInvariance, <1>1, PTL

=============================================================================
