------------------------- MODULE ChatWatchers_proofs -------------------------
(* Proofs about ChatWatchers and the two modules it is made of: EventStream, *)
(* for any set of streams and any numbers of frames and places in a channel, *)
(* and TerminalChat, for any sets of chats, runs and policies.               *)
EXTENDS ChatWatchers, SequenceTheorems, TLAPS

-----------------------------------------------------------------------------
(* The event stream *)

Unregistered == {"idle", "checked", "found"}

(* A listener is registered in the room it looked up, between its subscribe  *)
(* and its unsubscribe.                                                      *)
MembersInv ==
  \A s \in Streams :
    /\ at[s] \in {"found", "streaming", "leaving"} => roomOf[s] \in Rooms
    /\ \A r \in Rooms : s \in subs[r] => roomOf[s] = r /\ at[s] \in {"streaming", "leaving"}
    /\ at[s] \in Unregistered => closed[s] = 0 /\ read[s] = <<>> /\ queue[s] = <<>>

(* The hub's room is the newest one; what was emptied was dropped before, and *)
(* only an emptied room gets stuck.                                          *)
RoomInv ==
  /\ room # NoRoom => room = rooms
  /\ emptied \subseteq 1 .. rooms
  /\ room \notin emptied
  /\ stuck \subseteq emptied

(* Until removeChat there is one room at most: every look-up found it, and   *)
(* every open stream is registered in it.                                    *)
LiveInv ==
  chat # "gone" =>
    /\ rooms <= 1 /\ emptied = {}
    /\ rooms = 1 => room = 1
    /\ target # NoRoom => target = 1
    /\ \A s \in Streams :
         /\ roomOf[s] # NoRoom => roomOf[s] = 1
         /\ at[s] = "streaming" => s \in subs[1]

QueueInv ==
  /\ \A s \in Streams : Len(queue[s]) <= Buffer /\ joined[s] <= next
  /\ target # NoRoom => next <= Frames

(* NothingMissed, with a name for the frames from j on before k.             *)
Run(j, k) == [i \in 1 .. (k - j) |-> j + i - 1]
InOrder ==
  \A s \in Streams :
    chat # "gone" /\ at[s] = "streaming" /\ s \notin dropped =>
      read[s] \o queue[s] = Run(joined[s], next)

IInv == TypeOK /\ MembersInv /\ RoomInv /\ LiveInv /\ QueueInv /\ ChannelsCloseOnce /\ InOrder

-----------------------------------------------------------------------------
(* Sequences *)

(* Taking the head of a queue to the end of what was read changes nothing in *)
(* the two together.                                                         *)
LEMMA TakeHead ==
  ASSUME NEW n \in Nat, NEW a \in Seq(1 .. n), NEW b \in Seq(1 .. n), b # <<>>
  PROVE  /\ Append(a, Head(b)) \in Seq(1 .. n) /\ Tail(b) \in Seq(1 .. n)
         /\ Append(a, Head(b)) \o Tail(b) = a \o b
         /\ Len(Tail(b)) <= Len(b)
<1>1. Head(b) \in 1 .. n /\ Tail(b) \in Seq(1 .. n) /\ Len(Tail(b)) = Len(b) - 1
  OBVIOUS
<1>2. Append(a, Head(b)) \in Seq(1 .. n) /\ Len(Append(a, Head(b))) = Len(a) + 1
  BY <1>1
<1>3. Len(Append(a, Head(b)) \o Tail(b)) = Len(a \o b)
  BY <1>1, <1>2
<1>4. \A i \in 1 .. Len(a \o b) : (Append(a, Head(b)) \o Tail(b))[i] = (a \o b)[i]
  BY <1>1, <1>2
<1> QED BY <1>1, <1>2, <1>3, <1>4

(* A frame that is sent continues the run of frames.                         *)
LEMMA SendNext ==
  ASSUME NEW n \in Nat, NEW a \in Seq(1 .. n), NEW b \in Seq(1 .. n),
         NEW j \in 1 .. (n + 1), NEW k \in 1 .. n, j <= k, a \o b = Run(j, k)
  PROVE  a \o Append(b, k) = Run(j, k + 1)
<1> DEFINE c == Append(b, k)
           ac == a \o c
<1>1. c \in Seq(1 .. n) /\ Len(c) = Len(b) + 1 /\ c[Len(b) + 1] = k /\ \A i \in 1 .. Len(b) : c[i] = b[i]
  BY AppendProperties
<1>2. Len(a) \in Nat /\ Len(b) \in Nat
  BY LenProperties
<1> HIDE DEF c
<1>3. /\ a \o b \in Seq(1 .. n) /\ Len(a \o b) = Len(a) + Len(b)
      /\ \A i \in 1 .. Len(a) + Len(b) : (a \o b)[i] = IF i <= Len(a) THEN a[i] ELSE b[i - Len(a)]
  BY ConcatProperties
<1>4. /\ ac \in Seq(1 .. n) /\ Len(ac) = Len(a) + Len(b) + 1
      /\ \A i \in 1 .. Len(a) + Len(b) + 1 : ac[i] = IF i <= Len(a) THEN a[i] ELSE c[i - Len(a)]
  BY <1>1, <1>2, ConcatProperties
<1> HIDE DEF ac
<1>5. Len(a) + Len(b) = k - j
  <2>1. Len(Run(j, k)) = k - j
    BY DEF Run
  <2> QED BY <1>3, <2>1
<1>m. j \in Int /\ k \in Int
  OBVIOUS
<1>6. \A i \in 1 .. (k + 1 - j) : ac[i] = j + i - 1
  <2> SUFFICES ASSUME NEW i \in 1 .. (k + 1 - j) PROVE ac[i] = j + i - 1
    OBVIOUS
  <2>1. CASE i = k + 1 - j
    <3>1. i = Len(a) + Len(b) + 1 /\ i \in 1 .. Len(a) + Len(b) + 1 /\ ~ i <= Len(a) /\ i - Len(a) = Len(b) + 1
      BY ONLY <1>2, <1>5, <1>m, <2>1, SMTT(40)
    <3>2. ac[i] = c[Len(b) + 1]
      BY <1>4, <3>1
    <3> QED BY <1>1, <2>1, <3>2
  <2>2. CASE i # k + 1 - j
    <3>1. i \in 1 .. (k - j) /\ i \in 1 .. Len(a) + Len(b)
      BY <1>5, <2>2
    <3>2. ac[i] = (a \o b)[i]
      <4>1. i > Len(a) => i - Len(a) \in 1 .. Len(b)
        BY <1>2, <3>1
      <4>2. i \in 1 .. Len(a) + Len(b) + 1
        BY <1>2, <3>1
      <4>3. ac[i] = IF i <= Len(a) THEN a[i] ELSE c[i - Len(a)]
        BY <1>4, <4>2
      <4>4. (a \o b)[i] = IF i <= Len(a) THEN a[i] ELSE b[i - Len(a)]
        BY <1>3, <3>1
      <4>5. i > Len(a) => c[i - Len(a)] = b[i - Len(a)]
        BY <1>1, <4>1
      <4> QED BY <1>2, <3>1, <4>3, <4>4, <4>5
    <3>3. Run(j, k)[i] = j + i - 1
      BY <3>1 DEF Run
    <3> QED BY <3>2, <3>3
  <2> QED BY <2>1, <2>2
<1>7. ac = [i \in 1 .. (k + 1 - j) |-> ac[i]]
  <2>1. Len(ac) = k + 1 - j
    <3>1. Len(ac) = Len(a) + Len(b) + 1
      BY <1>4
    <3> HIDE DEF ac
    <3> DEFINE x == Len(ac)
               y == Len(a)
               z == Len(b)
    <3>2. y \in Nat /\ z \in Nat /\ x = y + z + 1 /\ y + z = k - j
      BY <1>2, <1>5, <3>1
    <3> HIDE DEF x, y, z
    <3>3. x = k + 1 - j
      BY ONLY <1>m, <3>2
    <3> QED BY <3>3 DEF x
  <2>2. ac \in [1 .. Len(ac) -> 1 .. n]
    BY <1>4, LenProperties
  <2> QED BY <2>1, <2>2
<1>8. [i \in 1 .. (k + 1 - j) |-> ac[i]] = Run(j, k + 1)
  BY <1>6 DEF Run
<1> QED BY <1>7, <1>8 DEF ac, c

LEMMA EmptyRun == \A j \in Nat : <<>> \o <<>> = Run(j, j)
BY DEF Run

-----------------------------------------------------------------------------
(* The invariant *)

LEMMA InitHolds == Init => IInv
<1> SUFFICES ASSUME Init PROVE IInv
  OBVIOUS
<1> USE FramesAssumption, BufferAssumption, NoRoomAssumption DEF Init, Rooms
<1>1. TypeOK BY DEF TypeOK
<1>2. MembersInv BY DEF MembersInv, Unregistered
<1>3. RoomInv /\ LiveInv BY DEF RoomInv, LiveInv
<1>4. QueueInv /\ ChannelsCloseOnce BY DEF QueueInv, ChannelsCloseOnce
<1>5. InOrder BY DEF InOrder
<1> QED BY <1>1, <1>2, <1>3, <1>4, <1>5 DEF IInv

(* What looking a room up gives: a room of the hub that is not emptied, the  *)
(* one it has or the next one.                                               *)
LEMMA LookUp ==
  ASSUME TypeOK, RoomInv, NEW r \in Rooms, Room(r), chat' = chat, emptied' = emptied, stuck' = stuck
  PROVE  /\ room' = r /\ rooms' \in 0 .. 2 /\ RoomInv'
         /\ chat # "gone" /\ rooms <= 1 /\ (rooms = 1 => room = 1) => r = 1 /\ rooms' = 1
BY NoRoomAssumption DEF TypeOK, RoomInv, Room, Rooms

LEMMA CheckChatKeeps ==
  ASSUME IInv, NEW s \in Streams, CheckChat(s) PROVE IInv'
<1> USE FramesAssumption, BufferAssumption, NoRoomAssumption
        DEF IInv, CheckChat, Move, hubVars, roomVars, streamVars, turnVars
<1>1. TypeOK'
  BY DEF TypeOK, Rooms
<1>2. MembersInv'
  BY DEF TypeOK, MembersInv, Unregistered, Rooms
<1>3. RoomInv'
  BY DEF TypeOK, RoomInv, MembersInv, Rooms
<1>4. LiveInv'
  BY DEF TypeOK, LiveInv, RoomInv, MembersInv, Rooms
<1>5. QueueInv'
  BY DEF TypeOK, QueueInv
<1>6. ChannelsCloseOnce'
  BY DEF TypeOK, ChannelsCloseOnce, MembersInv, Unregistered, Rooms
<1>7. InOrder'
  BY DEF TypeOK, InOrder
<1> QED BY <1>1, <1>2, <1>3, <1>4, <1>5, <1>6, <1>7

LEMMA FindRoomKeeps ==
  ASSUME IInv, NEW s \in Streams, FindRoom(s) PROVE IInv'
<1> USE FramesAssumption, BufferAssumption, NoRoomAssumption
        DEF IInv, FindRoom, Move, hubVars, roomVars, streamVars, turnVars
<1>0. PICK r \in Rooms : Room(r) /\ roomOf' = [roomOf EXCEPT ![s] = r]
  OBVIOUS
<1>a. room' = r /\ rooms' \in 0 .. 2 /\ RoomInv' /\ (chat # "gone" => r = 1 /\ rooms' = 1)
  BY <1>0, LookUp DEF LiveInv
<1>1. TypeOK'
  BY <1>0, <1>a DEF TypeOK, Rooms
<1>2. MembersInv'
  BY <1>0, <1>a DEF TypeOK, MembersInv, Unregistered, Rooms
<1>3. RoomInv'
  BY <1>0, <1>a DEF TypeOK, RoomInv, MembersInv, Rooms
<1>4. LiveInv'
  BY <1>0, <1>a DEF TypeOK, LiveInv, RoomInv, MembersInv, Rooms
<1>5. QueueInv'
  BY <1>0, <1>a DEF TypeOK, QueueInv
<1>6. ChannelsCloseOnce'
  BY <1>0, <1>a DEF TypeOK, ChannelsCloseOnce, MembersInv, Unregistered, Rooms
<1>7. InOrder'
  BY <1>0, <1>a DEF TypeOK, InOrder
<1> QED BY <1>1, <1>2, <1>3, <1>4, <1>5, <1>6, <1>7

LEMMA SubscribeKeeps ==
  ASSUME IInv, NEW s \in Streams, Subscribe(s) PROVE IInv'
<1> USE FramesAssumption, BufferAssumption, NoRoomAssumption
        DEF IInv, Subscribe, Move, hubVars, roomVars, streamVars, turnVars
<1> DEFINE r == roomOf[s]
<1>r. r \in Rooms /\ at[s] = "found" /\ r \notin stuck
  BY DEF MembersInv
<1>a. CASE r \in emptied
  <2>0. /\ stuck' = stuck \cup {r} /\ at' = [at EXCEPT ![s] = "panicked"] /\ subs' = subs /\ joined' = joined
        /\ UNCHANGED <<hubVars, emptied, roomOf, queue, closed, read, dropped, turnVars>>
    BY <1>r, <1>a
  <2> HIDE DEF r, Subscribe, Move
  <2>1. TypeOK' BY <1>r, <2>0 DEF TypeOK
  <2>2. MembersInv' BY <1>r, <2>0 DEF TypeOK, MembersInv, Unregistered, r
  <2>3. RoomInv' BY <1>r, <1>a, <2>0 DEF TypeOK, RoomInv
  <2>4. LiveInv' BY <1>r, <2>0 DEF TypeOK, LiveInv
  <2>5. QueueInv' /\ ChannelsCloseOnce' BY <2>0 DEF QueueInv, ChannelsCloseOnce
  <2>6. InOrder' BY <1>r, <2>0 DEF TypeOK, InOrder
  <2> QED BY <2>1, <2>2, <2>3, <2>4, <2>5, <2>6
<1>b. CASE r \notin emptied
  <2>0. /\ subs' = [subs EXCEPT ![r] = @ \cup {s}] /\ joined' = [joined EXCEPT ![s] = next]
        /\ at' = [at EXCEPT ![s] = "streaming"] /\ stuck' = stuck
        /\ UNCHANGED <<hubVars, emptied, roomOf, queue, closed, read, dropped, turnVars>>
    BY <1>r, <1>b
  <2> HIDE DEF r, Subscribe, Move
  <2>1. TypeOK' BY <1>r, <2>0 DEF TypeOK
  <2>2. MembersInv' BY <1>r, <2>0 DEF TypeOK, MembersInv, Unregistered, r
  <2>3. RoomInv' BY <1>r, <2>0 DEF TypeOK, RoomInv
  <2>4. LiveInv' BY <1>r, <2>0 DEF TypeOK, LiveInv, Rooms, r
  <2>5. QueueInv' BY <1>r, <2>0 DEF TypeOK, QueueInv
  <2>6. ChannelsCloseOnce' BY <1>r, <2>0 DEF TypeOK, ChannelsCloseOnce, MembersInv, Unregistered
  <2>7. InOrder'
    <3>1. read[s] = <<>> /\ queue[s] = <<>> /\ next \in Nat
      BY <1>r DEF MembersInv, Unregistered, TypeOK
    <3>2. read'[s] \o queue'[s] = Run(joined'[s], next')
      BY <3>1, <2>0, EmptyRun DEF TypeOK
    <3>3. \A t \in Streams : t # s => at'[t] = at[t] /\ joined'[t] = joined[t]
      BY <2>0 DEF TypeOK
    <3> QED BY <2>0, <3>2, <3>3 DEF InOrder
  <2> QED BY <2>1, <2>2, <2>3, <2>4, <2>5, <2>6, <2>7
<1> QED BY <1>a, <1>b

LEMMA ReadKeeps ==
  ASSUME IInv, NEW s \in Streams, Read(s) PROVE IInv'
<1> USE FramesAssumption, BufferAssumption, NoRoomAssumption
        DEF IInv, Read, hubVars, roomVars, streamVars, turnVars
<1>0. /\ queue[s] \in Seq(1 .. Frames) /\ read[s] \in Seq(1 .. Frames) /\ Frames \in Nat
  BY DEF TypeOK
<1>a. /\ Append(read[s], Head(queue[s])) \in Seq(1 .. Frames) /\ Tail(queue[s]) \in Seq(1 .. Frames)
      /\ Append(read[s], Head(queue[s])) \o Tail(queue[s]) = read[s] \o queue[s]
      /\ Len(Tail(queue[s])) <= Len(queue[s])
  BY <1>0, TakeHead
<1>b. /\ read' = [read EXCEPT ![s] = Append(read[s], Head(queue[s]))]
      /\ queue' = [queue EXCEPT ![s] = Tail(queue[s])]
  OBVIOUS
<1>1. TypeOK'
  BY <1>a, <1>b, SMTT(40) DEF TypeOK
<1>2. MembersInv'
  BY <1>b DEF TypeOK, MembersInv, Unregistered
<1>3. RoomInv' /\ LiveInv' /\ ChannelsCloseOnce'
  BY DEF RoomInv, LiveInv, ChannelsCloseOnce
<1>4. QueueInv'
  <2>1. \A t \in Streams : Len(queue'[t]) <= Buffer
    <3> TAKE t \in Streams
    <3>1. CASE t = s
      <4>1. queue'[t] = Tail(queue[s])
        BY <1>b, <3>1 DEF TypeOK
      <4>2. Len(queue[s]) \in Nat /\ Len(Tail(queue[s])) \in Nat /\ Len(queue[s]) <= Buffer
        BY <1>0, <1>a, LenProperties DEF QueueInv
      <4>3. Len(queue'[t]) \in Nat /\ Len(queue'[t]) <= Len(queue[s]) /\ Buffer \in Nat
        BY <1>a, <4>1, <4>2
      <4> HIDE DEF Read
      <4> QED BY <4>2, <4>3
    <3>2. CASE t # s
      BY <1>b, <3>2 DEF TypeOK, QueueInv
    <3> QED BY <3>1, <3>2
  <2> QED BY <2>1 DEF QueueInv
<1>5. InOrder'
  <2>1. \A t \in Streams : read'[t] \o queue'[t] = read[t] \o queue[t]
    <3> TAKE t \in Streams
    <3>1. t = s => read'[t] = Append(read[s], Head(queue[s])) /\ queue'[t] = Tail(queue[s])
      BY <1>b DEF TypeOK
    <3>2. t # s => read'[t] = read[t] /\ queue'[t] = queue[t]
      BY <1>b DEF TypeOK
    <3> QED BY <1>a, <3>1, <3>2
  <2> QED BY <2>1 DEF InOrder
<1> QED BY <1>1, <1>2, <1>3, <1>4, <1>5

LEMMA EndStreamKeeps ==
  ASSUME IInv, NEW s \in Streams, EndStream(s) PROVE IInv'
<1> USE FramesAssumption, BufferAssumption, NoRoomAssumption
        DEF IInv, EndStream, Move, hubVars, roomVars, streamVars, turnVars
<1>1. TypeOK'
  BY DEF TypeOK, Rooms
<1>2. MembersInv'
  BY DEF TypeOK, MembersInv, Unregistered, Rooms
<1>3. RoomInv'
  BY DEF TypeOK, RoomInv, MembersInv, Rooms
<1>4. LiveInv'
  BY DEF TypeOK, LiveInv, RoomInv, MembersInv, Rooms
<1>5. QueueInv'
  BY DEF TypeOK, QueueInv
<1>6. ChannelsCloseOnce'
  BY DEF TypeOK, ChannelsCloseOnce, MembersInv, Unregistered, Rooms
<1>7. InOrder'
  BY DEF TypeOK, InOrder
<1> QED BY <1>1, <1>2, <1>3, <1>4, <1>5, <1>6, <1>7

LEMMA DisconnectKeeps ==
  ASSUME IInv, NEW s \in Streams, Disconnect(s) PROVE IInv'
<1> USE FramesAssumption, BufferAssumption, NoRoomAssumption
        DEF IInv, Disconnect, Move, hubVars, roomVars, streamVars, turnVars
<1>1. TypeOK'
  BY DEF TypeOK, Rooms
<1>2. MembersInv'
  BY DEF TypeOK, MembersInv, Unregistered, Rooms
<1>3. RoomInv'
  BY DEF TypeOK, RoomInv, MembersInv, Rooms
<1>4. LiveInv'
  BY DEF TypeOK, LiveInv, RoomInv, MembersInv, Rooms
<1>5. QueueInv'
  BY DEF TypeOK, QueueInv
<1>6. ChannelsCloseOnce'
  BY DEF TypeOK, ChannelsCloseOnce, MembersInv, Unregistered, Rooms
<1>7. InOrder'
  BY DEF TypeOK, InOrder
<1> QED BY <1>1, <1>2, <1>3, <1>4, <1>5, <1>6, <1>7

LEMMA UnsubscribeKeeps ==
  ASSUME IInv, NEW s \in Streams, Unsubscribe(s) PROVE IInv'
<1> USE FramesAssumption, BufferAssumption, NoRoomAssumption
        DEF IInv, Unsubscribe, Move, hubVars, roomVars, streamVars, turnVars
<1> DEFINE r == roomOf[s]
<1>0. /\ r \in Rooms /\ at[s] = "leaving"
      /\ subs' = [subs EXCEPT ![r] = @ \ {s}]
      /\ closed' = [closed EXCEPT ![s] = IF s \in subs[r] THEN closed[s] + 1 ELSE closed[s]]
      /\ at' = [at EXCEPT ![s] = "gone"]
      /\ UNCHANGED <<hubVars, emptied, stuck, roomOf, queue, read, joined, dropped, turnVars>>
  BY DEF MembersInv
<1> HIDE DEF Unsubscribe, Move
<1>1. TypeOK'
  <2>1. closed' \in [Streams -> Nat] BY <1>0 DEF TypeOK
  <2>2. subs' \in [Rooms -> SUBSET Streams] BY <1>0 DEF TypeOK
  <2>3. at' \in [Streams -> {"idle", "checked", "found", "streaming", "leaving", "gone", "panicked"}]
    BY <1>0 DEF TypeOK
  <2> QED BY <1>0, <2>1, <2>2, <2>3 DEF TypeOK
<1>2. MembersInv'
  <2>1. \A t \in Streams : t # s => at'[t] = at[t] /\ closed'[t] = closed[t]
    BY <1>0 DEF TypeOK
  <2>2. \A q \in Rooms : subs'[q] \subseteq subs[q] /\ s \notin subs'[q]
    BY <1>0 DEF TypeOK, MembersInv
  <2>3. at'[s] = "gone"
    BY <1>0 DEF TypeOK
  <2> QED BY <1>0, <2>1, <2>2, <2>3 DEF MembersInv, Unregistered
<1>3. RoomInv' BY <1>0 DEF RoomInv
<1>4. LiveInv'
  <2>1. \A t \in Streams : at'[t] = "streaming" => t # s /\ at[t] = "streaming"
    BY <1>0 DEF TypeOK
  <2>2. \A t \in Streams : t # s /\ t \in subs[1] => t \in subs'[1]
    BY <1>0 DEF TypeOK, Rooms
  <2> QED BY <1>0, <2>1, <2>2 DEF LiveInv
<1>5. QueueInv' BY <1>0 DEF QueueInv
<1>6. ChannelsCloseOnce'
  <2>1. \A q \in Rooms : subs'[q] \subseteq subs[q] /\ s \notin subs'[q]
    BY <1>0 DEF TypeOK, MembersInv
  <2>2. closed'[s] <= 1
    BY <1>0 DEF TypeOK, ChannelsCloseOnce
  <2>3. \A t \in Streams : t # s => closed'[t] = closed[t]
    BY <1>0 DEF TypeOK
  <2> QED BY <2>1, <2>2, <2>3 DEF ChannelsCloseOnce
<1>7. InOrder'
  <2>1. \A t \in Streams : at'[t] = "streaming" => at[t] = "streaming"
    BY <1>0 DEF TypeOK
  <2> QED BY <1>0, <2>1 DEF InOrder
<1> QED BY <1>1, <1>2, <1>3, <1>4, <1>5, <1>6, <1>7

LEMMA FindTargetKeeps ==
  ASSUME IInv, FindTarget PROVE IInv'
<1> USE FramesAssumption, BufferAssumption, NoRoomAssumption
        DEF IInv, FindTarget, hubVars, roomVars, streamVars, turnVars
<1>0. PICK r \in Rooms : Room(r) /\ target' = r
  OBVIOUS
<1>a. room' = r /\ rooms' \in 0 .. 2 /\ RoomInv' /\ (chat # "gone" => r = 1 /\ rooms' = 1)
  BY <1>0, LookUp DEF LiveInv
<1>1. TypeOK'
  BY <1>0, <1>a DEF TypeOK, Rooms
<1>2. MembersInv'
  BY <1>0, <1>a DEF TypeOK, MembersInv, Unregistered, Rooms
<1>3. RoomInv'
  BY <1>0, <1>a DEF TypeOK, RoomInv, MembersInv, Rooms
<1>4. LiveInv'
  BY <1>0, <1>a DEF TypeOK, LiveInv, RoomInv, MembersInv, Rooms
<1>5. QueueInv'
  BY <1>0, <1>a DEF TypeOK, QueueInv
<1>6. ChannelsCloseOnce'
  BY <1>0, <1>a DEF TypeOK, ChannelsCloseOnce, MembersInv, Unregistered, Rooms
<1>7. InOrder'
  BY <1>0, <1>a DEF TypeOK, InOrder
<1> QED BY <1>1, <1>2, <1>3, <1>4, <1>5, <1>6, <1>7

LEMMA BroadcastKeeps ==
  ASSUME IInv, Broadcast PROVE IInv'
<1> USE FramesAssumption, BufferAssumption, NoRoomAssumption
        DEF IInv, Broadcast, hubVars, roomVars, streamVars, turnVars
<1> DEFINE member(s) == s \in subs[target]
<1>0. /\ target \in Rooms
      /\ queue' = [s \in Streams |-> IF member(s) THEN Deliver(s) ELSE queue[s]]
      /\ dropped' = dropped \cup {s \in subs[target] : Len(queue[s]) = Buffer}
      /\ next' = next + 1 /\ target' = NoRoom
      /\ UNCHANGED <<hubVars, roomVars, at, roomOf, closed, read, joined>>
  BY DEF TypeOK
<1>n. next \in 1 .. Frames /\ Buffer \in Nat
  BY DEF TypeOK, QueueInv
<1> HIDE DEF member, Broadcast
<1>d. ASSUME NEW s \in Streams
      PROVE  /\ Deliver(s) \in Seq(1 .. Frames) /\ Len(Deliver(s)) <= Buffer
             /\ Len(queue[s]) # Buffer => Deliver(s) = Append(queue[s], next)
  <2>1. queue[s] \in Seq(1 .. Frames) /\ Len(queue[s]) <= Buffer /\ Len(queue[s]) \in Nat
    BY DEF TypeOK, QueueInv
  <2>2. Append(queue[s], next) \in Seq(1 .. Frames) /\ Len(Append(queue[s], next)) = Len(queue[s]) + 1
    BY <1>n, <2>1, AppendProperties
  <2>3. CASE Len(queue[s]) < Buffer
    BY <1>n, <2>1, <2>2, <2>3 DEF Deliver
  <2>4. CASE Len(queue[s]) = Buffer
    BY <1>n, <2>1, <2>4 DEF Deliver
  <2> QED BY <1>n, <2>1, <2>3, <2>4
<1>1. TypeOK'
  <2>1. queue' \in [Streams -> Seq(1 .. Frames)]
    BY <1>0, <1>d DEF TypeOK
  <2>2. dropped' \subseteq Streams
    BY <1>0 DEF TypeOK
  <2> QED BY <1>0, <1>n, <2>1, <2>2 DEF TypeOK
<1>2. MembersInv'
  BY <1>0 DEF MembersInv, Unregistered, member
<1>3. RoomInv' /\ LiveInv' /\ ChannelsCloseOnce'
  BY <1>0 DEF RoomInv, LiveInv, ChannelsCloseOnce
<1>4. QueueInv'
  <2>1. \A s \in Streams : Len(queue'[s]) <= Buffer
    BY <1>0, <1>d DEF QueueInv
  <2>2. \A s \in Streams : joined[s] <= next + 1
    BY <1>n DEF QueueInv, TypeOK
  <2> QED BY <1>0, <2>1, <2>2 DEF QueueInv
<1>5. InOrder'
  <2> SUFFICES ASSUME NEW s \in Streams, chat # "gone", at[s] = "streaming", s \notin dropped'
               PROVE  read[s] \o queue'[s] = Run(joined[s], next + 1)
    BY <1>0 DEF InOrder
  <2>1. member(s) /\ Len(queue[s]) # Buffer /\ s \notin dropped
    BY <1>0 DEF LiveInv, member
  <2>2. queue'[s] = Append(queue[s], next)
    BY <1>0, <1>d, <2>1
  <2>3. read[s] \o queue[s] = Run(joined[s], next)
    BY <2>1 DEF InOrder
  <2>4. /\ read[s] \in Seq(1 .. Frames) /\ queue[s] \in Seq(1 .. Frames)
        /\ joined[s] \in 1 .. (Frames + 1) /\ joined[s] <= next /\ Frames \in Nat
    BY DEF TypeOK, QueueInv
  <2>5. read[s] \o Append(queue[s], next) = Run(joined[s], next + 1)
    BY ONLY <1>n, <2>3, <2>4, SendNext
  <2> QED BY <2>2, <2>5
<1> QED BY <1>1, <1>2, <1>3, <1>4, <1>5

LEMMA RemoveFromStoreKeeps ==
  ASSUME IInv, RemoveFromStore PROVE IInv'
<1> USE FramesAssumption, BufferAssumption, NoRoomAssumption
        DEF IInv, RemoveFromStore, hubVars, roomVars, streamVars, turnVars
<1>1. TypeOK'
  BY DEF TypeOK, Rooms
<1>2. MembersInv'
  BY DEF TypeOK, MembersInv, Unregistered, Rooms
<1>3. RoomInv'
  BY DEF TypeOK, RoomInv, MembersInv, Rooms
<1>4. LiveInv'
  BY DEF TypeOK, LiveInv, RoomInv, MembersInv, Rooms
<1>5. QueueInv'
  BY DEF TypeOK, QueueInv
<1>6. ChannelsCloseOnce'
  BY DEF TypeOK, ChannelsCloseOnce, MembersInv, Unregistered, Rooms
<1>7. InOrder'
  BY DEF TypeOK, InOrder
<1> QED BY <1>1, <1>2, <1>3, <1>4, <1>5, <1>6, <1>7

LEMMA RemoveChatKeeps ==
  ASSUME IInv, RemoveChat PROVE IInv'
<1> USE FramesAssumption, BufferAssumption, NoRoomAssumption
        DEF IInv, RemoveChat, hubVars, roomVars, streamVars, turnVars
<1>a. CASE room = NoRoom
  <2>1. TypeOK' /\ MembersInv' /\ RoomInv'
    BY <1>a DEF TypeOK, MembersInv, Unregistered, RoomInv
  <2>2. LiveInv' /\ QueueInv' /\ ChannelsCloseOnce' /\ InOrder'
    BY <1>a DEF LiveInv, QueueInv, ChannelsCloseOnce, InOrder
  <2> QED BY <2>1, <2>2
<1>b. CASE room # NoRoom
  <2>0. /\ room \in Rooms /\ room = rooms
        /\ closed' = [s \in Streams |-> IF s \in subs[room] THEN closed[s] + 1 ELSE closed[s]]
        /\ subs' = [subs EXCEPT ![room] = {}]
        /\ emptied' = emptied \cup {room} /\ room' = NoRoom /\ chat' = "gone"
        /\ UNCHANGED <<rooms, stuck, at, roomOf, queue, read, joined, dropped, turnVars>>
    BY <1>b DEF TypeOK, RoomInv
  <2> HIDE DEF RemoveChat
  <2>1. TypeOK'
    <3>1. closed' \in [Streams -> Nat] BY <2>0 DEF TypeOK
    <3>2. subs' \in [Rooms -> SUBSET Streams] BY <2>0 DEF TypeOK
    <3> QED BY <2>0, <3>1, <3>2 DEF TypeOK
  <2>2. MembersInv'
    <3>1. \A r \in Rooms : subs'[r] \subseteq subs[r]
      BY <2>0 DEF TypeOK
    <3>2. \A s \in Streams : at[s] \in Unregistered => closed'[s] = closed[s]
      BY <2>0 DEF MembersInv, Unregistered, TypeOK
    <3> QED BY <2>0, <3>1, <3>2 DEF MembersInv, Unregistered
  <2>3. RoomInv'
    <3>1. rooms \in 1 .. 2 /\ room \in 1 .. rooms
      BY <2>0 DEF TypeOK, Rooms
    <3>2. emptied' \subseteq 1 .. rooms
      BY <2>0, <3>1 DEF RoomInv
    <3>3. NoRoom \notin emptied'
      BY <2>0 DEF TypeOK
    <3> QED BY <2>0, <3>2, <3>3 DEF RoomInv
  <2>4. LiveInv' /\ InOrder' BY <2>0 DEF LiveInv, InOrder
  <2>5. QueueInv' BY <2>0 DEF QueueInv
  <2>6. ChannelsCloseOnce'
    <3>1. \A s \in Streams, r \in Rooms : s \in subs'[r] => r # room /\ s \in subs[r]
      BY <2>0 DEF TypeOK
    <3>2. \A s \in Streams : s \in subs[room] =>
             closed'[s] = 1 /\ \A r \in Rooms : r # room => s \notin subs[r]
      BY <2>0 DEF TypeOK, ChannelsCloseOnce, MembersInv
    <3>3. \A s \in Streams : s \notin subs[room] => closed'[s] = closed[s]
      BY <2>0
    <3> QED BY <3>1, <3>2, <3>3 DEF ChannelsCloseOnce
  <2> QED BY <2>1, <2>2, <2>3, <2>4, <2>5, <2>6
<1> QED BY <1>a, <1>b

(* The invariant holds in every reachable state. *)
THEOREM Invariance == Spec => []IInv
<1>1. IInv /\ [Next]_vars => IInv'
  <2> SUFFICES ASSUME IInv, [Next]_vars PROVE IInv'
    OBVIOUS
  <2>1. ASSUME NEW s \in Streams, Request(s) \/ Disconnect(s) PROVE IInv'
    BY <2>1, CheckChatKeeps, FindRoomKeeps, SubscribeKeeps, ReadKeeps, EndStreamKeeps,
       DisconnectKeeps, UnsubscribeKeeps DEF Request
  <2>2. Publish => IInv'
    BY FindTargetKeeps, BroadcastKeeps DEF Publish
  <2>3. RemoveFromStore \/ RemoveChat => IInv'
    BY RemoveFromStoreKeeps, RemoveChatKeeps
  <2>4. ASSUME UNCHANGED vars PROVE IInv'
    <3> USE <2>4 DEF vars, hubVars, roomVars, streamVars, turnVars, IInv
    <3>1. TypeOK' /\ MembersInv' BY DEF TypeOK, MembersInv
    <3>2. RoomInv' /\ LiveInv' /\ QueueInv' BY DEF RoomInv, LiveInv, QueueInv
    <3>3. ChannelsCloseOnce' /\ InOrder' BY DEF ChannelsCloseOnce, InOrder
    <3> QED BY <3>1, <3>2, <3>3
  <2> QED BY <2>1, <2>2, <2>3, <2>4 DEF Next
<1> QED BY InitHolds, <1>1, PTL DEF Spec

(* Every variable of the stream keeps its type. *)
THEOREM TypeCorrect == Spec => []TypeOK
<1>1. IInv => TypeOK BY DEF IInv
<1> QED BY Invariance, <1>1, PTL

(* No channel is closed twice or sent to after it was closed, although       *)
(* removeChat and unsubscribe both close, in any order.                      *)
THEOREM ChannelsAreSafe == Spec => []ChannelsCloseOnce
<1>1. IInv => ChannelsCloseOnce BY DEF IInv
<1> QED BY Invariance, <1>1, PTL

(* A room that removeChat emptied is never handed out again.                 *)
THEOREM RoomsAreUsable == Spec => []HubRoomIsUsable
<1>1. IInv => HubRoomIsUsable BY DEF IInv, RoomInv, HubRoomIsUsable
<1> QED BY Invariance, <1>1, PTL

(* A browser that keeps up is sent every event, in order.                    *)
THEOREM FramesArriveInOrder == Spec => []NothingMissed
<1>1. IInv => NothingMissed BY DEF IInv, InOrder, Run, NothingMissed
<1> QED BY Invariance, <1>1, PTL

-----------------------------------------------------------------------------
(* The terminal *)

Marks == {"user", "event", "error", "yes", "no", "quit"}
LineSets == SUBSET (Turns \X Marks)
Chats == [here : BOOLEAN, policy : Policies \cup {"none"}, cancel : Turns \cup {NoTurn}, lines : LineSets]
Places == {"idle", "think", "tell", "ask", "wait", "finished", "done"}
Runs == [at : Places, talk : Talks \cup {NoTalk}, policy : Policies \cup {"none"}, stop : BOOLEAN,
         reply : {"none", "yes", "no", "quit"}, asked : Nat, told : BOOLEAN, failed : BOOLEAN,
         panicked : BOOLEAN]
Views == [shown : Talks, running : BOOLEAN, policy : Policies, screen : LineSets,
          approvals : SUBSET (Nat \X Turns), asked : Nat, stopping : Talks \cup {NoTalk}, left : BOOLEAN]

TermTyped ==
  /\ talks \in [Talks -> Chats] /\ runs \in [Turns -> Runs] /\ ui \in Views
  /\ ceiling \in Policies
  /\ \A c \in Talks : talks[c].here => talks[c].policy \in Policies
  /\ \A r \in Turns : runs[r].at # "idle" => runs[r].talk \in Talks
  /\ \A q \in ui.approvals : runs[q[2]].at # "idle"

(* The policy on screen is within the ceiling, and so is what a turn started *)
(* from it was given; a yes that is not heard yet is about the call that was *)
(* asked for.                                                                *)
RightsInv ==
  /\ Rank(ui.policy) <= Rank(ceiling)
  /\ \A r \in Turns : runs[r].at # "idle" => Rank(runs[r].policy) <= Rank(ceiling)
  /\ \A r \in Turns : runs[r].at \in {"ask", "wait"} /\ runs[r].reply = "yes" =>
       <<r, runs[r].asked>> \in agreed
  /\ \A x \in done :
       x[1] \in Turns /\ runs[x[1]].at # "idle" /\ (runs[x[1]].policy = "full" \/ x \in agreed)

(* A run in flight is the one its chat can cancel; it was canceled when the  *)
(* chat was deleted or the user left.                                        *)
InFlight(r) == runs[r].at \in {"think", "tell", "ask", "wait"}
FlightInv ==
  \A r \in Turns : InFlight(r) =>
    /\ talks[runs[r].talk].cancel = r
    /\ runs[r].stop \/ (talks[runs[r].talk].here /\ ~ui.left)

(* What marks a chat as running in the store is a run in flight, or one that *)
(* panicked.                                                                 *)
CancelInv ==
  /\ \A r \in Turns : runs[r].panicked => runs[r].at \in {"finished", "done"}
  /\ \A c \in Talks, r \in Turns : talks[c].here /\ talks[c].cancel = r =>
       runs[r].talk = c /\ (InFlight(r) \/ runs[r].panicked)

(* The screen follows the store, but for runs whose end is to be reported.   *)
ShownInv ==
  /\ ui.screen = talks[ui.shown].lines
  /\ Running(ui.shown) => ui.running
  /\ ui.running /\ ~Running(ui.shown) /\ ~ui.left =>
       \E r \in Turns : runs[r].talk = ui.shown /\ runs[r].at = "finished"

ScreenInv == ui.shown \in Here /\ ShownInv

TermInv == TermTyped /\ RightsInv /\ FlightInv /\ CancelInv /\ QuestionsReachTheUser /\ ScreenInv

LEMMA RankBounded == \A p : Rank(p) \in 0 .. 2
BY DEF Rank

(* What refreshChats changes of the view, and what it leaves. *)
LEMMA RefreshFields ==
  ASSUME NEW view \in Views, NEW c \in Talks, NEW store \in [Talks -> Chats],
         ceiling \in Policies, store[c].policy \in Policies
  PROVE  LET v == Refresh(view, c, store)
         IN /\ v \in Views
            /\ v.shown = c /\ (v.running <=> store[c].cancel # NoTurn)
            /\ Rank(v.policy) <= Rank(ceiling)
            /\ v.screen = view.screen /\ v.approvals = view.approvals /\ v.asked = view.asked
            /\ v.stopping = view.stopping /\ v.left = view.left
<1>1. PICK b \in BOOLEAN : b <=> store[c].cancel # NoTurn
  OBVIOUS
<1>2. PICK p : p = Clamp(store[c].policy)
  OBVIOUS
<1>3. p \in Policies /\ Rank(p) <= Rank(ceiling)
  BY <1>2, RankBounded DEF Clamp
<1>4. Refresh(view, c, store) = [view EXCEPT !.shown = c, !.running = b, !.policy = p]
  BY <1>1, <1>2 DEF Refresh
<1>5. PICK v : v = [view EXCEPT !.shown = c, !.running = b, !.policy = p]
  OBVIOUS
<1>6. /\ v \in Views
      /\ v.shown = c /\ v.running = b /\ v.policy = p
      /\ v.screen = view.screen /\ v.approvals = view.approvals /\ v.asked = view.asked
      /\ v.stopping = view.stopping /\ v.left = view.left
  BY <1>3, <1>5 DEF Views
<1> QED BY <1>1, <1>3, <1>4, <1>5, <1>6

(* ... and so loadTranscript. *)
LEMMA ShowFields ==
  ASSUME NEW view \in Views, NEW c \in Talks, NEW store \in [Talks -> Chats],
         ceiling \in Policies, store[c].policy \in Policies
  PROVE  LET v == Show(view, c, store)
         IN /\ v \in Views
            /\ v.shown = c /\ (v.running <=> store[c].cancel # NoTurn)
            /\ Rank(v.policy) <= Rank(ceiling)
            /\ v.screen = store[c].lines /\ v.approvals = view.approvals /\ v.asked = view.asked
            /\ v.stopping = view.stopping /\ v.left = view.left
<1>1. PICK w : w = Refresh(view, c, store)
  OBVIOUS
<1>2. /\ w \in Views
      /\ w.shown = c /\ (w.running <=> store[c].cancel # NoTurn)
      /\ Rank(w.policy) <= Rank(ceiling)
      /\ w.screen = view.screen /\ w.approvals = view.approvals /\ w.asked = view.asked
      /\ w.stopping = view.stopping /\ w.left = view.left
  BY <1>1, RefreshFields
<1>3. Show(view, c, store) = [w EXCEPT !.screen = store[c].lines]
  BY <1>1 DEF Show
<1>4. store[c].lines \in LineSets
  BY DEF Chats
<1>5. PICK v : v = [w EXCEPT !.screen = store[c].lines]
  OBVIOUS
<1>6. /\ v \in Views
      /\ v.shown = w.shown /\ v.running = w.running /\ v.policy = w.policy
      /\ v.screen = store[c].lines /\ v.approvals = w.approvals /\ v.asked = w.asked
      /\ v.stopping = w.stopping /\ v.left = w.left
  BY <1>2, <1>4, <1>5 DEF Views
<1> QED BY <1>2, <1>3, <1>5, <1>6

LEMMA SeenFields ==
  ASSUME NEW view \in Views, NEW c \in Talks, NEW line \in Turns \X Marks,
         NEW v, v = Seen(view, c, line)
  PROVE  /\ v \in Views
         /\ v.shown = view.shown /\ v.running = view.running /\ v.policy = view.policy
         /\ c = view.shown => v.screen = view.screen \cup {line}
         /\ c # view.shown => v.screen = view.screen
         /\ v.approvals = view.approvals /\ v.asked = view.asked
         /\ v.stopping = view.stopping /\ v.left = view.left
<1>1. CASE c # view.shown
  BY <1>1 DEF Seen
<1>2. CASE c = view.shown
  <2>1. PICK s : s = view.screen \cup {line}
    OBVIOUS
  <2>2. s \in LineSets
    BY <2>1 DEF Views, LineSets
  <2>3. v = [view EXCEPT !.screen = s]
    BY <1>2, <2>1 DEF Seen
  <2>5. /\ v \in Views
        /\ v.shown = view.shown /\ v.running = view.running /\ v.policy = view.policy
        /\ v.screen = s /\ v.approvals = view.approvals /\ v.asked = view.asked
        /\ v.stopping = view.stopping /\ v.left = view.left
    BY <2>2, <2>3 DEF Views
  <2> QED BY <1>2, <2>1, <2>5
<1> QED BY <1>1, <1>2

(* A line is added to a chat that is there, and nothing else changes. *)
LEMMA FiledFields ==
  ASSUME NEW store \in [Talks -> Chats], NEW c \in Talks, NEW line \in Turns \X Marks,
         NEW new, new = Filed(store, c, line)
  PROVE  /\ new \in [Talks -> Chats]
         /\ \A d \in Talks :
              /\ new[d].here <=> store[d].here
              /\ new[d].policy = store[d].policy /\ new[d].cancel = store[d].cancel
              /\ d # c => new[d].lines = store[d].lines
         /\ store[c].here => new[c].lines = store[c].lines \cup {line}
<1>1. CASE ~store[c].here
  BY <1>1 DEF Filed
<1>2. CASE store[c].here
  <2>1. PICK s : s = store[c].lines \cup {line}
    OBVIOUS
  <2>2. s \in LineSets
    BY <2>1 DEF Chats, LineSets
  <2>3. PICK h : h = [store[c] EXCEPT !.lines = s]
    OBVIOUS
  <2>4. new = [store EXCEPT ![c] = h]
    BY <1>2, <2>1, <2>3 DEF Filed
  <2>5. /\ h \in Chats /\ h.here = store[c].here /\ h.policy = store[c].policy
        /\ h.cancel = store[c].cancel /\ h.lines = s
    BY <2>2, <2>3 DEF Chats
  <2> QED BY <1>2, <2>1, <2>4, <2>5
<1> QED BY <1>1, <1>2

(* The runs after the set S of them was canceled. *)
CanceledIn(S) ==
  /\ runs' \in [Turns -> Runs]
  /\ \A r \in Turns :
       /\ runs'[r].at = runs[r].at /\ runs'[r].talk = runs[r].talk /\ runs'[r].policy = runs[r].policy
       /\ runs'[r].reply = runs[r].reply /\ runs'[r].asked = runs[r].asked
       /\ runs'[r].panicked = runs[r].panicked
       /\ runs'[r].stop <=> runs[r].stop \/ r \in S

LEMMA StopsOnly ==
  ASSUME NEW run \in Runs, NEW b \in BOOLEAN, NEW after, after = [run EXCEPT !.stop = b]
  PROVE  /\ after \in Runs
         /\ after.at = run.at /\ after.talk = run.talk /\ after.policy = run.policy
         /\ after.reply = run.reply /\ after.asked = run.asked /\ after.stop = b
         /\ after.panicked = run.panicked
BY DEF Runs

LEMMA StoppedFields ==
  ASSUME runs \in [Turns -> Runs], NEW c, runs' = Stopped(c)
  PROVE  CanceledIn({talks[c].cancel})
<1>1. ASSUME NEW r \in Turns
      PROVE  /\ runs'[r] \in Runs
             /\ runs'[r].at = runs[r].at /\ runs'[r].talk = runs[r].talk
             /\ runs'[r].policy = runs[r].policy
             /\ runs'[r].reply = runs[r].reply /\ runs'[r].asked = runs[r].asked
             /\ runs'[r].panicked = runs[r].panicked
             /\ runs'[r].stop <=> runs[r].stop \/ r \in {talks[c].cancel}
  <2>1. PICK b \in BOOLEAN : b <=> runs[r].stop \/ r = talks[c].cancel
    OBVIOUS
  <2>2. PICK run : run = runs[r]
    OBVIOUS
  <2>3. run \in Runs /\ runs'[r] = [run EXCEPT !.stop = (run.stop \/ r = talks[c].cancel)]
    BY <2>2 DEF Stopped
  <2>4. (run.stop \/ r = talks[c].cancel) = b
    BY <2>1, <2>2, <2>3 DEF Runs
  <2>5. runs'[r] = [run EXCEPT !.stop = b]
    BY <2>3, <2>4
  <2> QED BY <2>1, <2>2, <2>3, <2>5, StopsOnly
<1>2. runs' \in [Turns -> Runs]
  BY <1>1 DEF Stopped
<1> QED BY <1>1, <1>2 DEF CanceledIn

LEMMA CancelAllFields ==
  ASSUME runs \in [Turns -> Runs], runs' = CancelAll
  PROVE  CanceledIn({talks[c].cancel : c \in Here})
<1>1. ASSUME NEW r \in Turns
      PROVE  /\ runs'[r] \in Runs
             /\ runs'[r].at = runs[r].at /\ runs'[r].talk = runs[r].talk
             /\ runs'[r].policy = runs[r].policy
             /\ runs'[r].reply = runs[r].reply /\ runs'[r].asked = runs[r].asked
             /\ runs'[r].panicked = runs[r].panicked
             /\ runs'[r].stop <=> runs[r].stop \/ r \in {talks[c].cancel : c \in Here}
  <2>0. PICK e \in BOOLEAN : e <=> \E c \in Here : r = talks[c].cancel
    OBVIOUS
  <2>1. PICK b \in BOOLEAN : b <=> runs[r].stop \/ e
    OBVIOUS
  <2>2. PICK run : run = runs[r]
    OBVIOUS
  <2>3. run \in Runs /\ runs'[r] = [run EXCEPT !.stop = (run.stop \/ \E c \in Here : r = talks[c].cancel)]
    BY <2>2 DEF CancelAll
  <2>4. (run.stop \/ \E c \in Here : r = talks[c].cancel) = b
    BY <2>0, <2>1, <2>2, <2>3 DEF Runs
  <2>5. runs'[r] = [run EXCEPT !.stop = b]
    BY <2>3, <2>4
  <2> QED BY <2>0, <2>1, <2>2, <2>3, <2>5, StopsOnly
<1>2. runs' \in [Turns -> Runs]
  BY <1>1 DEF CancelAll
<1> QED BY <1>1, <1>2 DEF CanceledIn

LEMMA StartTurnKeeps ==
  ASSUME TermInv, NEW r \in Turns, StartTurn(r), UNCHANGED ceiling PROVE TermInv'
<1> USE TerminalAssumption
<1> DEFINE c == ui.shown
<1>1. PICK s : s = talks[c].lines \cup {<<r, "user">>}
  OBVIOUS
<1>2. PICK h : h = [talks[c] EXCEPT !.lines = s, !.cancel = r]
  OBVIOUS
<1>3. PICK view : view = Seen(ui, c, <<r, "user">>)
  OBVIOUS
<1>4. /\ runs[r].at = "idle" /\ ~Running(c) /\ Looping
      /\ talks' = [talks EXCEPT ![c] = h]
      /\ runs' = [runs EXCEPT ![r].at = "think", ![r].talk = c, ![r].policy = ui.policy]
      /\ ui' = Refresh(view, c, talks')
      /\ UNCHANGED <<done, agreed, displaced>>
  BY <1>1, <1>2, <1>3 DEF StartTurn, Typing
<1>5. /\ view \in Views /\ view.shown = c /\ view.screen = ui.screen \cup {<<r, "user">>}
      /\ view.approvals = ui.approvals /\ view.left = ui.left
  <2>1. PICK line : line = <<r, "user">>
    OBVIOUS
  <2>2. ui \in Views /\ c \in Talks /\ c = ui.shown /\ line \in Turns \X Marks
    BY <2>1 DEF TermInv, TermTyped, Views, Marks
  <2>3. view = Seen(ui, c, line)
    BY <1>3, <2>1
  <2> HIDE DEF c
  <2>4. /\ view \in Views
        /\ view.shown = ui.shown
        /\ view.screen = ui.screen \cup {line}
        /\ view.approvals = ui.approvals /\ view.left = ui.left
    BY ONLY <2>2, <2>3, SeenFields
  <2> QED BY <2>1, <2>2, <2>4
<1>6. c \in Talks /\ talks[c].here /\ talks[c].cancel = NoTurn /\ talks[c] \in Chats /\ talks[c].policy \in Policies
  BY <1>4 DEF TermInv, TermTyped, ScreenInv, Here, Running, Views
<1>7. s \in LineSets
  BY <1>1, <1>6 DEF Chats, LineSets, Marks
<1>8. h \in Chats /\ h.here /\ h.policy = talks[c].policy /\ h.cancel = r /\ h.lines = s
  BY <1>2, <1>6, <1>7 DEF Chats
<1>9. /\ talks' \in [Talks -> Chats] /\ talks'[c] = h
      /\ \A d \in Talks : d # c => talks'[d] = talks[d]
  BY <1>4, <1>6, <1>8 DEF TermInv, TermTyped
<1>10. /\ ui' \in Views /\ ui'.shown = c /\ ui'.running
       /\ Rank(ui'.policy) <= Rank(ceiling) /\ ui'.screen = view.screen
       /\ ui'.approvals = ui.approvals /\ ui'.left = ui.left
  <2>1. ceiling \in Policies /\ talks'[c].policy \in Policies
    BY <1>6, <1>8, <1>9 DEF TermInv, TermTyped
  <2>2. /\ ui' \in Views /\ ui'.shown = c /\ (ui'.running <=> talks'[c].cancel # NoTurn)
        /\ Rank(ui'.policy) <= Rank(ceiling) /\ ui'.screen = view.screen
        /\ ui'.approvals = view.approvals /\ ui'.left = view.left
    <3>1. ui' = Refresh(view, c, talks') /\ view \in Views /\ c \in Talks /\ talks' \in [Talks -> Chats]
      BY <1>4, <1>5, <1>6, <1>9
    <3> HIDE DEF c
    <3> QED BY ONLY <3>1, <2>1, RefreshFields
  <2> QED BY <1>5, <1>8, <1>9, <2>2
<1>11. /\ runs' \in [Turns -> Runs] /\ \A q \in Turns : q # r => runs'[q] = runs[q]
       /\ runs'[r].at = "think" /\ runs'[r].talk = c /\ runs'[r].policy = ui.policy
       /\ runs'[r].panicked = runs[r].panicked
  <2>1. PICK g : g = [runs[r] EXCEPT !.at = "think", !.talk = c, !.policy = ui.policy]
    OBVIOUS
  <2>2. runs[r] \in Runs /\ ui.policy \in Policies /\ runs \in [Turns -> Runs]
    BY DEF TermInv, TermTyped, Views
  <2>3. g \in Runs /\ g.at = "think" /\ g.talk = c /\ g.policy = ui.policy
        /\ g.panicked = runs[r].panicked
    BY ONLY <1>6, <2>1, <2>2 DEF Runs, Places
  <2>4. runs' = [runs EXCEPT ![r] = g]
    BY ONLY <1>4, <2>1, <2>2
  <2> QED BY <2>2, <2>3, <2>4
<1> HIDE DEF c
<1>12. TermTyped'
  <2>1. \A q \in ui.approvals : q[2] \in Turns /\ q[2] # r
    BY <1>4 DEF TermInv, TermTyped, Views
  <2> QED BY <1>6, <1>8, <1>9, <1>10, <1>11, <1>4, <2>1 DEF TermInv, TermTyped
<1>13. RightsInv'
  BY <1>4, <1>10, <1>11 DEF TermInv, RightsInv
<1>14. FlightInv'
  BY <1>4, <1>6, <1>8, <1>9, <1>10, <1>11 DEF TermInv, TermTyped, FlightInv, InFlight, Looping
<1>15. QuestionsReachTheUser'
  BY <1>4, <1>10, <1>11 DEF TermInv, QuestionsReachTheUser
<1>16. ScreenInv'
  BY <1>1, <1>5, <1>6, <1>8, <1>9, <1>10 DEF TermInv, ScreenInv, ShownInv, Here, Running, c
<1>17. CancelInv'
  BY <1>4, <1>6, <1>8, <1>9, <1>11 DEF TermInv, TermTyped, CancelInv, InFlight
<1> QED BY <1>12, <1>13, <1>14, <1>15, <1>16, <1>17 DEF TermInv

(* A step of one run that is under way, which leaves the chats and what is   *)
(* on screen alone, keeps all but the rights and the questions.              *)
LEMMA RunMoves ==
  ASSUME TermInv, NEW r \in Turns, NEW g \in Runs, runs' = [runs EXCEPT ![r] = g],
         runs[r].at # "idle", g.at # "idle", g.talk = runs[r].talk, g.stop = runs[r].stop,
         g.at \in {"think", "tell", "ask", "wait"} <=> InFlight(r), g.panicked = runs[r].panicked,
         runs[r].at = "finished" => ui.left,
         talks' = talks, ceiling' = ceiling, ui' \in Views,
         ui'.shown = ui.shown, ui'.running = ui.running, ui'.screen = ui.screen, ui'.left = ui.left,
         \A q \in ui'.approvals : q[2] = r \/ q \in ui.approvals
  PROVE  TermTyped' /\ FlightInv' /\ CancelInv' /\ ScreenInv'
<1>1. /\ runs' \in [Turns -> Runs] /\ runs'[r] = g /\ \A q \in Turns : q # r => runs'[q] = runs[q]
  BY DEF TermInv, TermTyped
<1>2. TermTyped'
  <2>1. \A q \in ui'.approvals : q[2] \in Turns
    BY DEF Views
  <2> QED BY <1>1, <2>1 DEF TermInv, TermTyped
<1>3. FlightInv'
  BY <1>1 DEF TermInv, FlightInv, InFlight
<1>4. ScreenInv'
  <2>1. \A q \in Turns : runs[q].at = "finished" /\ ~ui.left =>
           runs'[q].at = "finished" /\ runs'[q].talk = runs[q].talk
    BY <1>1
  <2> QED BY <2>1 DEF TermInv, ScreenInv, ShownInv, Here, Running
<1>5. CancelInv'
  BY <1>1 DEF TermInv, CancelInv, InFlight, Runs, Places
<1> QED BY <1>2, <1>3, <1>4, <1>5

(* A chat that comes on screen is shown as it is stored. *)
LEMMA ShownAsStored ==
  ASSUME NEW c \in Talks, ui \in Views, ceiling \in Policies, talks' \in [Talks -> Chats],
         talks'[c].here, talks'[c].policy \in Policies, ui' = Show(ui, c, talks')
  PROVE  /\ ScreenInv' /\ ui' \in Views /\ Rank(ui'.policy) <= Rank(ceiling)
         /\ ui'.approvals = ui.approvals /\ ui'.left = ui.left /\ ui'.shown = c
<1>1. PICK store : store = talks'
  OBVIOUS
<1>2. PICK v : v = Show(ui, c, store)
  OBVIOUS
<1>3. /\ v \in Views
      /\ v.shown = c /\ (v.running <=> store[c].cancel # NoTurn)
      /\ Rank(v.policy) <= Rank(ceiling)
      /\ v.screen = store[c].lines /\ v.approvals = ui.approvals /\ v.left = ui.left
  BY <1>1, <1>2, ShowFields
<1>4. ui' = v
  BY <1>1, <1>2
<1> QED BY <1>1, <1>3, <1>4 DEF ScreenInv, ShownInv, Here, Running

LEMMA NewChatKeeps ==
  ASSUME TermInv, NEW c \in Talks, NewChat(c), UNCHANGED ceiling PROVE TermInv'
<1>1. PICK h : h = [talks[c] EXCEPT !.here = TRUE, !.policy = ui.policy]
  OBVIOUS
<1>2. /\ c \in Fresh /\ talks' = [talks EXCEPT ![c] = h]
      /\ ui' = Show(ui, c, talks') /\ UNCHANGED <<runs, done, agreed, displaced>>
  BY <1>1 DEF NewChat, Created, RunsStay
<1>3. /\ talks[c] \in Chats /\ ~talks[c].here /\ talks[c].cancel = NoTurn /\ ui.policy \in Policies
      /\ ui \in Views /\ ceiling \in Policies
  BY <1>2 DEF Fresh, TermInv, TermTyped, Views
<1>4. h \in Chats /\ h.here /\ h.policy \in Policies /\ h.cancel = NoTurn
  BY <1>1, <1>3 DEF Chats
<1>5. /\ talks' \in [Talks -> Chats] /\ talks'[c] = h /\ \A d \in Talks : d # c => talks'[d] = talks[d]
  BY <1>2, <1>4 DEF TermInv, TermTyped
<1>6. /\ ScreenInv' /\ ui' \in Views /\ Rank(ui'.policy) <= Rank(ceiling)
      /\ ui'.approvals = ui.approvals /\ ui'.left = ui.left
  BY <1>2, <1>3, <1>4, <1>5, ShownAsStored
<1>7. TermTyped'
  BY <1>2, <1>4, <1>5, <1>6 DEF TermInv, TermTyped
<1>8. RightsInv' /\ QuestionsReachTheUser'
  BY <1>2, <1>6 DEF TermInv, RightsInv, QuestionsReachTheUser
<1>9. FlightInv'
  BY <1>2, <1>3, <1>5, <1>6, TerminalAssumption DEF TermInv, TermTyped, FlightInv, InFlight
<1>10. CancelInv'
  BY <1>2, <1>3, <1>4, <1>5, TerminalAssumption DEF TermInv, CancelInv, InFlight
<1> QED BY <1>6, <1>7, <1>8, <1>9, <1>10 DEF TermInv

LEMMA SwitchChatKeeps ==
  ASSUME TermInv, NEW c \in Talks, SwitchChat(c), UNCHANGED ceiling PROVE TermInv'
<1>1. /\ c \in Here /\ ui' = Show(ui, c, talks') /\ talks' = talks
      /\ UNCHANGED <<runs, done, agreed, displaced>>
  BY DEF SwitchChat, RunsStay
<1>2. ui \in Views /\ ceiling \in Policies /\ talks' \in [Talks -> Chats]
      /\ talks'[c].here /\ talks'[c].policy \in Policies
  BY <1>1 DEF Here, TermInv, TermTyped
<1>3. /\ ScreenInv' /\ ui' \in Views /\ Rank(ui'.policy) <= Rank(ceiling)
      /\ ui'.approvals = ui.approvals /\ ui'.left = ui.left
  BY <1>1, <1>2, ShownAsStored
<1>4. TermTyped'
  BY <1>1, <1>3 DEF TermInv, TermTyped
<1>5. RightsInv' /\ QuestionsReachTheUser'
  BY <1>1, <1>3 DEF TermInv, RightsInv, QuestionsReachTheUser
<1>6. FlightInv'
  BY <1>1, <1>3 DEF TermInv, FlightInv, InFlight
<1>7. CancelInv'
  BY <1>1 DEF TermInv, CancelInv, InFlight
<1> QED BY <1>3, <1>4, <1>5, <1>6, <1>7 DEF TermInv

LEMMA SetPolicyKeeps ==
  ASSUME TermInv, NEW p \in Policies, SetPolicy(p), UNCHANGED ceiling PROVE TermInv'
<1> DEFINE c == ui.shown
<1>1. PICK h : h = [talks[c] EXCEPT !.policy = p]
  OBVIOUS
<1>2. /\ talks' = [talks EXCEPT ![c] = h] /\ ui' = Refresh(ui, c, talks')
      /\ UNCHANGED <<runs, done, agreed, displaced>>
  BY <1>1 DEF SetPolicy, RunsStay
<1>3. c \in Talks /\ talks[c] \in Chats /\ talks[c].here /\ ui \in Views /\ ceiling \in Policies
  BY DEF TermInv, TermTyped, ScreenInv, Here, Views
<1>4. h \in Chats /\ h.here /\ h.policy = p /\ h.cancel = talks[c].cancel /\ h.lines = talks[c].lines
  BY <1>1, <1>3 DEF Chats
<1>5. /\ talks' \in [Talks -> Chats] /\ talks'[c] = h /\ \A d \in Talks : d # c => talks'[d] = talks[d]
  BY <1>2, <1>3, <1>4 DEF TermInv, TermTyped
<1>6. /\ ui' \in Views /\ ui'.shown = c /\ (ui'.running <=> talks'[c].cancel # NoTurn)
      /\ Rank(ui'.policy) <= Rank(ceiling) /\ ui'.screen = ui.screen
      /\ ui'.approvals = ui.approvals /\ ui'.left = ui.left
  <2>1. ui' = Refresh(ui, c, talks') /\ ui \in Views /\ c \in Talks /\ ceiling \in Policies
        /\ talks' \in [Talks -> Chats] /\ talks'[c].policy \in Policies
    BY <1>2, <1>3, <1>4, <1>5
  <2> HIDE DEF c
  <2> QED BY ONLY <2>1, RefreshFields
<1>7. TermTyped'
  BY <1>2, <1>4, <1>5, <1>6 DEF TermInv, TermTyped
<1>8. RightsInv' /\ QuestionsReachTheUser'
  BY <1>2, <1>6 DEF TermInv, RightsInv, QuestionsReachTheUser
<1>9. FlightInv'
  BY <1>2, <1>4, <1>5, <1>6 DEF TermInv, TermTyped, FlightInv, InFlight
<1>10. ScreenInv'
  BY <1>4, <1>5, <1>6 DEF TermInv, ScreenInv, ShownInv, Here, Running
<1>11. CancelInv'
  <2>1. \A d \in Talks : talks'[d].here = talks[d].here /\ talks'[d].cancel = talks[d].cancel
    BY <1>3, <1>4, <1>5 DEF Chats
  <2> QED BY <1>2, <2>1 DEF TermInv, CancelInv, InFlight
<1> QED BY <1>7, <1>8, <1>9, <1>10, <1>11 DEF TermInv

LEMMA DeleteActiveKeeps ==
  ASSUME TermInv, NEW opened \in Talks, DeleteActive(opened), UNCHANGED ceiling PROVE TermInv'
<1> DEFINE c == ui.shown
<1>1. PICK h : h = [talks[c] EXCEPT !.here = FALSE]
  OBVIOUS
<1>2. PICK left : left = [talks EXCEPT ![c] = h]
  OBVIOUS
<1>3. PICK k : k = [left[opened] EXCEPT !.here = TRUE, !.policy = ui.policy]
  OBVIOUS
<1>4. /\ \/ opened \in Here \ {c} /\ talks' = left
         \/ opened \in Fresh /\ talks' = [left EXCEPT ![opened] = k]
      /\ runs' = Stopped(c)
      /\ ui' = Show(ui, opened, talks') /\ UNCHANGED <<done, agreed, displaced>>
  BY <1>1, <1>2, <1>3 DEF DeleteActive
<1>5. c \in Talks /\ talks[c] \in Chats /\ talks[c].here /\ ui \in Views /\ ceiling \in Policies
      /\ ui.policy \in Policies
  BY DEF TermInv, TermTyped, ScreenInv, Here, Views
<1>6. opened # c
  BY <1>4, <1>5 DEF Fresh
<1>7. h \in Chats /\ ~h.here /\ h.cancel = talks[c].cancel
  BY <1>1, <1>5 DEF Chats
<1>8. /\ left \in [Talks -> Chats] /\ left[c] = h /\ \A d \in Talks : d # c => left[d] = talks[d]
  BY <1>2, <1>5, <1>7 DEF TermInv, TermTyped
<1>9. k \in Chats /\ k.here /\ k.policy \in Policies /\ k.cancel = talks[opened].cancel
  <2>1. left[opened] \in Chats /\ left[opened] = talks[opened]
    BY <1>6, <1>8
  <2> QED BY <1>3, <1>5, <2>1 DEF Chats
<1>10. /\ talks' \in [Talks -> Chats] /\ talks'[c] = h
       /\ \A d \in Talks \ {c, opened} : talks'[d] = talks[d]
       /\ talks'[opened].here /\ talks'[opened].policy \in Policies
       /\ talks'[opened].cancel = talks[opened].cancel
  <2>1. CASE opened \in Here /\ talks' = left
    BY <1>6, <1>8, <2>1 DEF TermInv, TermTyped, Here
  <2>2. CASE talks' = [left EXCEPT ![opened] = k]
    BY <1>6, <1>8, <1>9, <2>2
  <2> QED BY <1>4, <2>1, <2>2
<1>11. /\ ScreenInv' /\ ui' \in Views /\ Rank(ui'.policy) <= Rank(ceiling)
       /\ ui'.approvals = ui.approvals /\ ui'.left = ui.left
  BY <1>4, <1>5, <1>10, ShownAsStored
<1>12. CanceledIn({talks[c].cancel})
  BY <1>4, StoppedFields DEF TermInv, TermTyped
<1> USE DEF CanceledIn
<1> HIDE DEF c
<1>13. TermTyped'
  <2>1. \A q \in ui.approvals : q[2] \in Turns
    BY <1>5 DEF Views
  <2> QED BY <1>4, <1>7, <1>10, <1>11, <1>12, <2>1 DEF TermInv, TermTyped
<1>14. RightsInv' /\ QuestionsReachTheUser'
  BY <1>4, <1>11, <1>12 DEF TermInv, RightsInv, QuestionsReachTheUser
<1>15. FlightInv'
  BY <1>7, <1>10, <1>11, <1>12 DEF TermInv, TermTyped, FlightInv, InFlight
<1>16. talks[opened].here \/ talks[opened].cancel = NoTurn
  BY <1>4 DEF Here, Fresh
<1>17. CancelInv'
  BY <1>7, <1>10, <1>12, <1>16, TerminalAssumption DEF TermInv, CancelInv, InFlight
<1> QED BY <1>11, <1>13, <1>14, <1>15, <1>17 DEF TermInv

(* To cancel runs changes nothing but whether they go on. *)
LEMMA CancelKeeps ==
  ASSUME TermInv, NEW S, CanceledIn(S), ui' \in Views,
         UNCHANGED <<talks, ceiling, done, agreed, displaced>>,
         ui'.shown = ui.shown, ui'.running = ui.running, ui'.screen = ui.screen, ui'.policy = ui.policy,
         ui'.approvals = ui.approvals, ui.left => ui'.left,
         ui'.left => ui.left \/ S = {talks[c].cancel : c \in Here}
  PROVE  TermInv'
<1> USE DEF CanceledIn
<1>1. TermTyped'
  <2>1. \A q \in ui.approvals : q[2] \in Turns
    BY DEF TermInv, TermTyped, Views
  <2> QED BY <2>1 DEF TermInv, TermTyped
<1>2. RightsInv' /\ QuestionsReachTheUser'
  BY DEF TermInv, RightsInv, QuestionsReachTheUser
<1>3. FlightInv'
  <2> SUFFICES ASSUME NEW r \in Turns, InFlight(r)
               PROVE  /\ talks[runs[r].talk].cancel = r
                      /\ runs'[r].stop \/ (talks[runs[r].talk].here /\ ~ui'.left)
    BY DEF FlightInv, InFlight
  <2>1. runs[r].talk \in Talks /\ talks[runs[r].talk].cancel = r
        /\ (runs[r].stop \/ (talks[runs[r].talk].here /\ ~ui.left))
    BY DEF TermInv, TermTyped, FlightInv, InFlight
  <2> QED BY <2>1 DEF Here
<1>4. ScreenInv'
  BY DEF TermInv, ScreenInv, ShownInv, Here, Running
<1>5. CancelInv'
  BY DEF TermInv, CancelInv, InFlight
<1> QED BY <1>1, <1>2, <1>3, <1>4, <1>5 DEF TermInv

LEMMA LeavingKeeps ==
  ASSUME TermInv, CancelTurn \/ CancelChatRun \/ Quit, UNCHANGED ceiling PROVE TermInv'
<1>0. runs \in [Turns -> Runs] /\ ui \in Views
  BY DEF TermInv, TermTyped
<1>1. CASE CancelTurn
  BY <1>0, <1>1, StoppedFields, CancelKeeps DEF CancelTurn
<1>2. CASE Quit
  <2>1. /\ ui' = [ui EXCEPT !.left = TRUE] /\ runs' = CancelAll
        /\ UNCHANGED <<talks, done, agreed, displaced>>
    BY <1>2 DEF Quit
  <2>2. /\ ui' \in Views /\ ui'.left
        /\ ui'.shown = ui.shown /\ ui'.running = ui.running /\ ui'.screen = ui.screen
        /\ ui'.policy = ui.policy /\ ui'.approvals = ui.approvals
    BY <1>0, <2>1 DEF Views
  <2> QED BY <1>0, <2>1, <2>2, CancelAllFields, CancelKeeps
<1>3. CASE CancelChatRun
  <2>1. /\ ui' = [ui EXCEPT !.stopping = NoTalk]
        /\ runs' = Stopped(ui.stopping) \/ runs' = runs
        /\ UNCHANGED <<talks, done, agreed, displaced>>
    BY <1>3 DEF CancelChatRun
  <2>2. /\ ui' \in Views /\ ui'.left = ui.left
        /\ ui'.shown = ui.shown /\ ui'.running = ui.running /\ ui'.screen = ui.screen
        /\ ui'.policy = ui.policy /\ ui'.approvals = ui.approvals
    BY <1>0, <2>1 DEF Views
  <2>3. CASE runs' = runs
    <3>1. CanceledIn({})
      BY <1>0, <2>3 DEF CanceledIn
    <3> QED BY <2>1, <2>2, <3>1, CancelKeeps
  <2>4. CASE runs' = Stopped(ui.stopping)
    BY <1>0, <2>1, <2>2, <2>4, StoppedFields, CancelKeeps
  <2> QED BY <2>1, <2>3, <2>4
<1> QED BY <1>1, <1>2, <1>3

LEMMA AnswerApprovalKeeps ==
  ASSUME TermInv, NEW a \in {"yes", "no", "quit"}, AnswerApproval(a), UNCHANGED ceiling PROVE TermInv'
<1>1. PICK q \in ui.approvals : Reply(q, a)
  BY DEF AnswerApproval
<1> DEFINE r == q[2]
           c == runs[r].talk
<1>2. PICK line : line = <<r, a>>
  OBVIOUS
<1>3. PICK view : view = Seen(ui, c, line)
  OBVIOUS
<1>4. PICK stopping : stopping = IF a = "quit" THEN c ELSE NoTalk
  OBVIOUS
<1>5. PICK left : left = view.approvals \ {q}
  OBVIOUS
<1>6. PICK g : g = [runs[r] EXCEPT !.reply = a]
  OBVIOUS
<1>7. /\ runs' = [runs EXCEPT ![r] = g]
      /\ talks' = Filed(talks, c, line)
      /\ ui' = [view EXCEPT !.approvals = left, !.stopping = stopping]
      /\ agreed' = (IF a = "yes" THEN agreed \cup {<<r, runs[r].asked>>} ELSE agreed)
      /\ UNCHANGED <<done, displaced>>
  BY <1>1, <1>2, <1>3, <1>4, <1>5, <1>6 DEF Reply
<1>8. r \in Turns /\ runs[r] \in Runs /\ runs[r].at # "idle" /\ c \in Talks /\ ui \in Views
      /\ line \in Turns \X Marks /\ talks \in [Talks -> Chats]
  <2>1. r \in Turns /\ ui \in Views /\ talks \in [Talks -> Chats]
    BY DEF TermInv, TermTyped, Views
  <2>2. runs[r] \in Runs /\ runs[r].at # "idle"
    BY <2>1 DEF TermInv, TermTyped
  <2>3. c \in Talks
    BY <2>1, <2>2 DEF TermInv, TermTyped
  <2>4. line \in Turns \X Marks
    BY <1>2, <2>1 DEF Marks
  <2> QED BY <2>1, <2>2, <2>3, <2>4
<1> HIDE DEF r, c
<1>9. /\ g \in Runs /\ g.at = runs[r].at /\ g.talk = c /\ g.policy = runs[r].policy
      /\ g.stop = runs[r].stop /\ g.reply = a /\ g.asked = runs[r].asked
      /\ g.panicked = runs[r].panicked
  BY <1>6, <1>8 DEF Runs, c
<1>10. /\ runs' \in [Turns -> Runs] /\ runs'[r] = g /\ \A t \in Turns : t # r => runs'[t] = runs[t]
  BY <1>7, <1>8, <1>9 DEF TermInv, TermTyped
<1>t. \A t \in Turns : /\ runs'[t].at = runs[t].at /\ runs'[t].talk = runs[t].talk
                         /\ (runs'[t].stop <=> runs[t].stop) /\ runs'[t].panicked = runs[t].panicked
  BY <1>9, <1>10 DEF c
<1>11. /\ view \in Views
       /\ view.shown = ui.shown /\ view.running = ui.running /\ view.policy = ui.policy
       /\ c = ui.shown => view.screen = ui.screen \cup {line}
       /\ c # ui.shown => view.screen = ui.screen
       /\ view.approvals = ui.approvals /\ view.left = ui.left
  BY <1>3, <1>8, SeenFields
<1>12. /\ talks' \in [Talks -> Chats]
       /\ \A d \in Talks :
            /\ talks'[d].here <=> talks[d].here
            /\ talks'[d].policy = talks[d].policy /\ talks'[d].cancel = talks[d].cancel
            /\ d # c => talks'[d].lines = talks[d].lines
       /\ talks[c].here => talks'[c].lines = talks[c].lines \cup {line}
  <2>1. PICK store : store = talks'
    OBVIOUS
  <2>2. store = Filed(talks, c, line)
    BY <1>7, <2>1
  <2> QED BY ONLY <2>1, <2>2, <1>8, FiledFields
<1>13. /\ ui' \in Views
       /\ ui'.shown = ui.shown /\ ui'.running = ui.running /\ ui'.policy = ui.policy
       /\ ui'.screen = view.screen /\ ui'.approvals = ui.approvals \ {q} /\ ui'.left = ui.left
  <2>1. stopping \in Talks \cup {NoTalk} /\ left \in SUBSET (Nat \X Turns)
    BY <1>4, <1>5, <1>8, <1>11 DEF Views
  <2> QED BY <1>5, <1>7, <1>11, <2>1 DEF Views
<1>14. TermTyped'
  <2>1. \A p \in ui'.approvals : p[2] \in Turns /\ p \in ui.approvals
    BY <1>13 DEF Views
  <2>2. \A p \in ui.approvals : runs[p[2]].at # "idle"
    BY DEF TermInv, TermTyped
  <2>3. \A p \in ui'.approvals : runs'[p[2]].at # "idle"
    BY <2>1, <2>2, <1>t
  <2> QED BY <1>10, <1>t, <1>12, <1>13, <2>3 DEF TermInv, TermTyped
<1>15. RightsInv'
  <2>1. \A x \in agreed : x \in agreed'
    BY <1>7
  <2>2. a = "yes" => <<r, runs[r].asked>> \in agreed'
    BY <1>7
  <2> QED BY <1>7, <1>9, <1>10, <1>13, <2>1, <2>2 DEF TermInv, RightsInv
<1>16. FlightInv'
  BY <1>t, <1>12, <1>13 DEF TermInv, TermTyped, FlightInv, InFlight
<1>17. QuestionsReachTheUser'
  <2>1. \A t \in Turns : t # r => (\A p \in ui.approvals : p[2] = t => p \in ui'.approvals)
    BY <1>13 DEF r
  <2> QED BY <1>7, <1>9, <1>10, <2>1 DEF TermInv, QuestionsReachTheUser
<1>18. ScreenInv'
  <2>1. ui.shown \in Talks /\ talks[ui.shown].here /\ ui.screen = talks[ui.shown].lines
    BY <1>8 DEF TermInv, ScreenInv, Here, ShownInv, Views
  <2>2. ui'.shown \in Here'
    BY <1>12, <1>13, <2>1 DEF Here
  <2>3. ui'.screen = talks'[ui'.shown].lines
    <3>1. CASE c = ui.shown
      BY <1>11, <1>12, <1>13, <2>1, <3>1
    <3>2. CASE c # ui.shown
      BY <1>11, <1>12, <1>13, <2>1, <3>2
    <3> QED BY <3>1, <3>2
  <2> QED BY <1>12, <1>13, <1>t, <2>1, <2>2, <2>3 DEF TermInv, ScreenInv, ShownInv, Running
<1>19. CancelInv'
  BY <1>t, <1>12 DEF TermInv, CancelInv, InFlight
<1> QED BY <1>14, <1>15, <1>16, <1>17, <1>18, <1>19 DEF TermInv

LEMMA TakeQuestionKeeps ==
  ASSUME TermInv, NEW r \in Turns, TakeQuestion(r), UNCHANGED ceiling PROVE TermInv'
<1>1. PICK g : g = [runs[r] EXCEPT !.at = "wait"]
  OBVIOUS
<1>2. PICK n : n = ui.asked
  OBVIOUS
<1>3. PICK questions : questions = ui.approvals \cup {<<n, r>>}
  OBVIOUS
<1>m. PICK m : m = n + 1
  OBVIOUS
<1>4. /\ runs[r].at = "ask" /\ ~ui.left
      /\ runs' = [runs EXCEPT ![r] = g]
      /\ ui' = [ui EXCEPT !.approvals = questions, !.asked = m]
      /\ UNCHANGED <<talks, done, agreed, displaced>>
  BY <1>1, <1>2, <1>3, <1>m DEF TakeQuestion, Looping
<1>5. runs[r] \in Runs /\ ui \in Views /\ runs \in [Turns -> Runs]
  BY DEF TermInv, TermTyped
<1>6. /\ g \in Runs /\ g.at = "wait" /\ g.talk = runs[r].talk /\ g.policy = runs[r].policy
      /\ g.stop = runs[r].stop /\ g.reply = runs[r].reply /\ g.asked = runs[r].asked
      /\ g.panicked = runs[r].panicked
  BY <1>1, <1>5 DEF Runs, Places
<1>7. /\ ui' \in Views
      /\ ui'.shown = ui.shown /\ ui'.running = ui.running /\ ui'.policy = ui.policy
      /\ ui'.screen = ui.screen /\ ui'.approvals = questions /\ ui'.left = ui.left
  <2>1. n \in Nat /\ m \in Nat /\ questions \in SUBSET (Nat \X Turns)
    BY <1>2, <1>3, <1>m, <1>5 DEF Views
  <2> QED BY <1>4, <1>5, <2>1 DEF Views
<1>8. \A q \in questions : q[2] = r \/ q \in ui.approvals
  BY <1>3
<1>9. TermTyped' /\ FlightInv' /\ CancelInv' /\ ScreenInv'
  BY <1>4, <1>6, <1>7, <1>8, RunMoves DEF InFlight
<1>10. runs'[r] = g /\ \A t \in Turns : t # r => runs'[t] = runs[t]
  BY <1>4, <1>5
<1>11. RightsInv'
  BY <1>4, <1>6, <1>7, <1>10 DEF TermInv, RightsInv
<1>12. QuestionsReachTheUser'
  <2>1. <<n, r>> \in ui'.approvals /\ <<n, r>>[2] = r /\ ui.approvals \subseteq ui'.approvals
    BY <1>3, <1>7
  <2> QED BY <1>4, <1>10, <2>1 DEF TermInv, QuestionsReachTheUser
<1> QED BY <1>9, <1>11, <1>12 DEF TermInv

(* What holds when a line of run r goes to its chat and to the screen. *)
Recorded(store, view, r, line) ==
  LET c == runs[r].talk
  IN /\ store = Filed(talks, c, line)
     /\ view = Seen(ui, c, line)

LEMMA RecordedFields ==
  ASSUME TermInv, NEW r \in Turns, runs[r].at # "idle", NEW line \in Turns \X Marks,
         NEW store, NEW view, Recorded(store, view, r, line)
  PROVE  /\ store \in [Talks -> Chats]
         /\ \A d \in Talks :
              /\ store[d].here <=> talks[d].here
              /\ store[d].policy = talks[d].policy /\ store[d].cancel = talks[d].cancel
         /\ view \in Views
         /\ view.shown = ui.shown /\ view.running = ui.running /\ view.policy = ui.policy
         /\ view.screen = store[ui.shown].lines
         /\ view.approvals = ui.approvals /\ view.asked = ui.asked
         /\ view.stopping = ui.stopping /\ view.left = ui.left
<1>1. PICK c : c = runs[r].talk
  OBVIOUS
<1>2. c \in Talks /\ ui \in Views /\ talks \in [Talks -> Chats] /\ ui.shown \in Talks /\ talks[ui.shown].here
      /\ ui.screen = talks[ui.shown].lines
  BY <1>1 DEF TermInv, TermTyped, ScreenInv, ShownInv, Here
<1>3. store = Filed(talks, c, line) /\ view = Seen(ui, c, line)
  BY <1>1 DEF Recorded
<1>4. /\ store \in [Talks -> Chats]
      /\ \A d \in Talks :
           /\ store[d].here <=> talks[d].here
           /\ store[d].policy = talks[d].policy /\ store[d].cancel = talks[d].cancel
           /\ d # c => store[d].lines = talks[d].lines
      /\ talks[c].here => store[c].lines = talks[c].lines \cup {line}
  BY <1>2, <1>3, FiledFields
<1>5. /\ view \in Views
      /\ view.shown = ui.shown /\ view.running = ui.running /\ view.policy = ui.policy
      /\ c = ui.shown => view.screen = ui.screen \cup {line}
      /\ c # ui.shown => view.screen = ui.screen
      /\ view.approvals = ui.approvals /\ view.asked = ui.asked
      /\ view.stopping = ui.stopping /\ view.left = ui.left
  BY <1>2, <1>3, SeenFields
<1>6. view.screen = store[ui.shown].lines
  <2>1. CASE c = ui.shown
    BY <1>2, <1>4, <1>5, <2>1
  <2>2. CASE c # ui.shown
    BY <1>2, <1>4, <1>5, <2>2
  <2> QED BY <2>1, <2>2
<1> QED BY <1>4, <1>5, <1>6

LEMMA TakeEventKeeps ==
  ASSUME TermInv, NEW r \in Turns, TakeEvent(r), UNCHANGED ceiling PROVE TermInv'
<1>1. PICK line : line = <<r, "event">>
  OBVIOUS
<1>2. PICK g : g = [runs[r] EXCEPT !.at = "think"]
  OBVIOUS
<1>3. /\ runs[r].at = "tell" /\ ~ui.left
      /\ runs' = [runs EXCEPT ![r] = g]
      /\ Recorded(talks', ui', r, line)
      /\ UNCHANGED <<done, agreed, displaced>>
  BY <1>1, <1>2 DEF TakeEvent, Recorded, Looping
<1>4. line \in Turns \X Marks
  BY <1>1 DEF Marks
<1>5. PICK store : store = talks'
  OBVIOUS
<1>6. PICK view : view = ui'
  OBVIOUS
<1>7. /\ store \in [Talks -> Chats]
      /\ \A d \in Talks :
           /\ store[d].here <=> talks[d].here
           /\ store[d].policy = talks[d].policy /\ store[d].cancel = talks[d].cancel
      /\ view \in Views
      /\ view.shown = ui.shown /\ view.running = ui.running /\ view.policy = ui.policy
      /\ view.screen = store[ui.shown].lines
      /\ view.approvals = ui.approvals /\ view.left = ui.left
  BY <1>3, <1>4, <1>5, <1>6, RecordedFields
<1>8. runs[r] \in Runs /\ runs \in [Turns -> Runs]
  BY DEF TermInv, TermTyped
<1>9. /\ g \in Runs /\ g.at = "think" /\ g.talk = runs[r].talk /\ g.policy = runs[r].policy
      /\ g.stop = runs[r].stop /\ g.asked = runs[r].asked /\ g.panicked = runs[r].panicked
  BY <1>2, <1>8 DEF Runs, Places
<1>10. /\ runs' \in [Turns -> Runs] /\ runs'[r] = g /\ \A t \in Turns : t # r => runs'[t] = runs[t]
  BY <1>3, <1>8, <1>9
<1>11. \A t \in Turns : runs'[t].talk = runs[t].talk /\ (runs'[t].stop <=> runs[t].stop)
                       /\ (runs[t].at = "finished" => runs'[t].at = "finished")
  BY <1>3, <1>9, <1>10
<1>12. TermTyped'
  <2>1. \A q \in ui.approvals : q[2] \in Turns /\ runs[q[2]].at # "idle"
    BY DEF TermInv, TermTyped, Views
  <2>2. \A q \in ui.approvals : runs'[q[2]].at # "idle"
    BY <1>9, <1>10, <2>1
  <2> QED BY <1>3, <1>5, <1>6, <1>7, <1>9, <1>10, <2>2 DEF TermInv, TermTyped
<1>13. RightsInv'
  BY <1>3, <1>6, <1>7, <1>9, <1>10 DEF TermInv, RightsInv
<1>14. FlightInv'
  BY <1>3, <1>5, <1>6, <1>7, <1>9, <1>10 DEF TermInv, TermTyped, FlightInv, InFlight
<1>15. QuestionsReachTheUser'
  BY <1>3, <1>6, <1>7, <1>9, <1>10 DEF TermInv, QuestionsReachTheUser
<1>16. ScreenInv'
  <2>1. ui.shown \in Talks /\ talks[ui.shown].here
    BY DEF TermInv, ScreenInv, Here
  <2> QED BY <1>5, <1>6, <1>7, <1>11, <2>1 DEF TermInv, ScreenInv, ShownInv, Here, Running
<1>17. CancelInv'
  BY <1>3, <1>5, <1>7, <1>9, <1>10 DEF TermInv, CancelInv, InFlight
<1> QED BY <1>12, <1>13, <1>14, <1>15, <1>16, <1>17 DEF TermInv

(* A run that has ended is reported; the questions of its chat go. *)
LEMMA TakeDoneKeeps ==
  ASSUME TermInv, NEW r \in Turns, TakeDone(r), UNCHANGED ceiling PROVE TermInv'
<1>1. PICK line : line = <<r, "error">>
  OBVIOUS
<1>2. PICK g : g = [runs[r] EXCEPT !.at = "done"]
  OBVIOUS
<1>3. PICK c : c = runs[r].talk
  OBVIOUS
<1>4. PICK taken : taken = {q \in ui.approvals : runs[q[2]].talk = c}
  OBVIOUS
<1>5. PICK view : view = IF runs[r].failed THEN Seen(ui, c, line) ELSE ui
  OBVIOUS
<1>6. PICK store : store = IF runs[r].failed THEN Filed(talks, c, line) ELSE talks
  OBVIOUS
<1>7. PICK kept : kept = view.approvals \ taken
  OBVIOUS
<1>8. PICK cut : cut = [view EXCEPT !.approvals = kept]
  OBVIOUS
<1>9. /\ runs[r].at = "finished"
      /\ runs' = [runs EXCEPT ![r] = g] /\ talks' = store
      /\ ui' = Refresh(cut, view.shown, store)
      /\ displaced' = displaced \cup ({q[2] : q \in taken} \ {r})
      /\ UNCHANGED <<done, agreed>>
  BY <1>1, <1>2, <1>3, <1>4, <1>5, <1>6, <1>7, <1>8 DEF TakeDone
<1>10. /\ store \in [Talks -> Chats]
       /\ \A d \in Talks :
            /\ store[d].here <=> talks[d].here
            /\ store[d].policy = talks[d].policy /\ store[d].cancel = talks[d].cancel
       /\ view \in Views
       /\ view.shown = ui.shown /\ view.running = ui.running /\ view.policy = ui.policy
       /\ view.screen = store[ui.shown].lines
       /\ view.approvals = ui.approvals /\ view.left = ui.left
  <2>1. CASE runs[r].failed
    <3>1. Recorded(store, view, r, line) /\ line \in Turns \X Marks
      BY <1>1, <1>3, <1>5, <1>6, <2>1 DEF Recorded, Marks
    <3> QED BY <1>9, <3>1, RecordedFields
  <2>2. CASE ~runs[r].failed
    BY <1>5, <1>6, <2>2 DEF TermInv, TermTyped, ScreenInv, ShownInv
  <2> QED BY <2>1, <2>2
<1>11. ui.shown \in Talks /\ talks[ui.shown].here /\ talks[ui.shown].policy \in Policies /\ ceiling \in Policies
  BY DEF TermInv, TermTyped, ScreenInv, Here
<1>12. /\ cut \in Views /\ cut.screen = view.screen /\ cut.approvals = kept /\ cut.left = ui.left
  <2>1. kept \in SUBSET (Nat \X Turns)
    BY <1>7, <1>10 DEF Views
  <2> QED BY <1>8, <1>10, <2>1 DEF Views
<1>13. /\ ui' \in Views /\ ui'.shown = ui.shown /\ (ui'.running <=> store[ui.shown].cancel # NoTurn)
       /\ Rank(ui'.policy) <= Rank(ceiling) /\ ui'.screen = store[ui.shown].lines
       /\ ui'.approvals = kept /\ ui'.left = ui.left
  <2>1. PICK x : x = ui.shown
    OBVIOUS
  <2>2. x \in Talks /\ store[x].policy \in Policies
    BY <1>10, <1>11, <2>1
  <2>3. PICK v : v = Refresh(cut, x, store)
    OBVIOUS
  <2>4. /\ v \in Views /\ v.shown = x /\ (v.running <=> store[x].cancel # NoTurn)
        /\ Rank(v.policy) <= Rank(ceiling) /\ v.screen = cut.screen
        /\ v.approvals = cut.approvals /\ v.left = cut.left
    BY <1>10, <1>11, <1>12, <2>2, <2>3, RefreshFields
  <2>5. ui' = v
    BY <1>9, <1>10, <2>1, <2>3
  <2> QED BY <1>10, <1>12, <2>1, <2>4, <2>5
<1>14. runs[r] \in Runs /\ runs \in [Turns -> Runs]
  BY DEF TermInv, TermTyped
<1>15. /\ g \in Runs /\ g.at = "done" /\ g.talk = runs[r].talk /\ g.policy = runs[r].policy
       /\ g.panicked = runs[r].panicked
  BY <1>2, <1>14 DEF Runs, Places
<1>16. /\ runs' \in [Turns -> Runs] /\ runs'[r] = g /\ \A t \in Turns : t # r => runs'[t] = runs[t]
  BY <1>9, <1>14, <1>15
<1>17. TermTyped'
  <2>1. \A q \in ui.approvals : q[2] \in Turns /\ runs[q[2]].at # "idle"
    BY DEF TermInv, TermTyped, Views
  <2>2. \A q \in kept : runs'[q[2]].at # "idle"
    BY <1>7, <1>10, <1>15, <1>16, <2>1
  <2> QED BY <1>9, <1>10, <1>13, <1>15, <1>16, <2>2 DEF TermInv, TermTyped
<1>18. RightsInv'
  BY <1>9, <1>13, <1>15, <1>16 DEF TermInv, RightsInv
<1>19. FlightInv'
  BY <1>9, <1>10, <1>13, <1>15, <1>16 DEF TermInv, TermTyped, FlightInv, InFlight
<1>20. QuestionsReachTheUser'
  <2> SUFFICES ASSUME NEW t \in Turns, t # r, runs[t].at = "wait", runs[t].reply = "none", ~runs[t].stop
               PROVE  t \in displaced' \/ \E q \in kept : q[2] = t
    BY <1>13, <1>15, <1>16 DEF QuestionsReachTheUser
  <2>1. CASE t \in displaced
    BY <1>9, <2>1
  <2>2. CASE \E q \in ui.approvals : q[2] = t
    <3>1. PICK q \in ui.approvals : q[2] = t
      BY <2>2
    <3>2. CASE q \in taken
      BY <1>9, <3>1, <3>2
    <3>3. CASE q \notin taken
      BY <1>7, <1>10, <3>1, <3>3
    <3> QED BY <3>2, <3>3
  <2> QED BY <2>1, <2>2 DEF TermInv, QuestionsReachTheUser
<1>21. ScreenInv'
  BY <1>9, <1>10, <1>11, <1>13 DEF ScreenInv, ShownInv, Here, Running
<1>22. CancelInv'
  BY <1>9, <1>10, <1>15, <1>16 DEF TermInv, CancelInv, InFlight
<1> QED BY <1>17, <1>18, <1>19, <1>20, <1>21, <1>22 DEF TermInv

(* The steps a run takes on its own, and the messages nobody takes any more. *)
LEMMA RunKeeps ==
  ASSUME TermInv, NEW r \in Turns, UNCHANGED ceiling,
         Tell(r) \/ CallFreely(r) \/ Ask(r) \/ HearAnswer(r) \/ GiveUp(r) \/ Unheard(r)
  PROVE  TermInv'
<1>0. runs[r] \in Runs /\ runs \in [Turns -> Runs] /\ ui \in Views
  BY DEF TermInv, TermTyped
<1>1. CASE Tell(r)
  <2>1. PICK g : g = [runs[r] EXCEPT !.at = "tell", !.told = TRUE]
    OBVIOUS
  <2>2. /\ runs[r].at = "think" /\ runs' = [runs EXCEPT ![r] = g]
        /\ UNCHANGED <<talks, ui, done, agreed, displaced>>
    BY <1>1, <2>1 DEF Tell, OnlyRun
  <2>3. /\ g \in Runs /\ g.at = "tell" /\ g.talk = runs[r].talk /\ g.policy = runs[r].policy
        /\ g.stop = runs[r].stop /\ g.panicked = runs[r].panicked
    BY <1>0, <2>1 DEF Runs, Places
  <2>4. TermTyped' /\ FlightInv' /\ CancelInv' /\ ScreenInv'
    BY <1>0, <2>2, <2>3, RunMoves DEF InFlight
  <2>5. runs'[r] = g /\ \A t \in Turns : t # r => runs'[t] = runs[t]
    BY <1>0, <2>2
  <2>6. RightsInv' /\ QuestionsReachTheUser'
    BY <2>2, <2>3, <2>5 DEF TermInv, RightsInv, QuestionsReachTheUser
  <2> QED BY <2>4, <2>6 DEF TermInv
<1>2. CASE CallFreely(r)
  <2>0. PICK m : m = runs[r].asked + 1
    OBVIOUS
  <2>1. PICK g : g = [runs[r] EXCEPT !.asked = m]
    OBVIOUS
  <2>2. /\ runs[r].at = "think" /\ runs' = [runs EXCEPT ![r] = g] /\ runs[r].policy = "full"
        /\ done' = done \cup {<<r, m>>} /\ UNCHANGED <<talks, ui, agreed, displaced>>
    BY <1>2, <2>0, <2>1 DEF CallFreely, OnlyRun, Carried
  <2>3. /\ g \in Runs /\ g.at = "think" /\ g.talk = runs[r].talk /\ g.policy = runs[r].policy
        /\ g.stop = runs[r].stop /\ g.panicked = runs[r].panicked
    <3>1. m \in Nat
      BY <1>0, <2>0 DEF Runs
    <3> QED BY <1>0, <2>1, <2>2, <3>1 DEF Runs
  <2>4. TermTyped' /\ FlightInv' /\ CancelInv' /\ ScreenInv'
    BY <1>0, <2>2, <2>3, RunMoves DEF InFlight
  <2>5. runs'[r] = g /\ \A t \in Turns : t # r => runs'[t] = runs[t]
    BY <1>0, <2>2
  <2>6. \A x \in done' : x \in done \/ x[1] = r
    BY <2>2
  <2>7. RightsInv'
    BY <2>2, <2>3, <2>5, <2>6 DEF TermInv, RightsInv
  <2>8. QuestionsReachTheUser'
    BY <2>2, <2>3, <2>5 DEF TermInv, QuestionsReachTheUser
  <2> QED BY <2>4, <2>7, <2>8 DEF TermInv
<1>3. CASE Ask(r)
  <2>0. PICK m : m = runs[r].asked + 1
    OBVIOUS
  <2>1. PICK g : g = [runs[r] EXCEPT !.at = "ask", !.asked = m, !.reply = "none"]
    OBVIOUS
  <2>2. /\ runs[r].at = "think" /\ runs' = [runs EXCEPT ![r] = g]
        /\ UNCHANGED <<talks, ui, done, agreed, displaced>>
    BY <1>3, <2>0, <2>1 DEF Ask, OnlyRun
  <2>3. /\ g \in Runs /\ g.at = "ask" /\ g.talk = runs[r].talk /\ g.policy = runs[r].policy
        /\ g.stop = runs[r].stop /\ g.reply = "none" /\ g.panicked = runs[r].panicked
    <3>1. m \in Nat
      BY <1>0, <2>0 DEF Runs
    <3> QED BY <1>0, <2>1, <3>1 DEF Runs, Places
  <2>4. TermTyped' /\ FlightInv' /\ CancelInv' /\ ScreenInv'
    BY <1>0, <2>2, <2>3, RunMoves DEF InFlight
  <2>5. runs'[r] = g /\ \A t \in Turns : t # r => runs'[t] = runs[t]
    BY <1>0, <2>2
  <2>6. RightsInv' /\ QuestionsReachTheUser'
    BY <2>2, <2>3, <2>5 DEF TermInv, RightsInv, QuestionsReachTheUser
  <2> QED BY <2>4, <2>6 DEF TermInv
<1>4. CASE HearAnswer(r) \/ GiveUp(r)
  <2>1. PICK g : g = [runs[r] EXCEPT !.at = "think"]
    OBVIOUS
  <2>2. /\ runs[r].at = "wait" /\ runs' = [runs EXCEPT ![r] = g]
        /\ done' = done \/ (runs[r].reply = "yes" /\ done' = done \cup {<<r, runs[r].asked>>})
        /\ UNCHANGED <<talks, ui, agreed, displaced>>
    BY <1>4, <2>1 DEF HearAnswer, GiveUp, OnlyRun
  <2>3. /\ g \in Runs /\ g.at = "think" /\ g.talk = runs[r].talk /\ g.policy = runs[r].policy
        /\ g.stop = runs[r].stop /\ g.panicked = runs[r].panicked
    BY <1>0, <2>1 DEF Runs, Places
  <2>4. TermTyped' /\ FlightInv' /\ CancelInv' /\ ScreenInv'
    BY <1>0, <2>2, <2>3, RunMoves DEF InFlight
  <2>5. runs'[r] = g /\ \A t \in Turns : t # r => runs'[t] = runs[t]
    BY <1>0, <2>2
  <2>6. \A x \in done' : x \in done \/ (x[1] = r /\ x \in agreed)
    <3>1. runs[r].reply = "yes" => <<r, runs[r].asked>> \in agreed
      BY <2>2 DEF TermInv, RightsInv
    <3> QED BY <2>2, <3>1
  <2>7. RightsInv'
    BY <2>2, <2>3, <2>5, <2>6 DEF TermInv, RightsInv
  <2>8. QuestionsReachTheUser'
    BY <2>2, <2>3, <2>5 DEF TermInv, QuestionsReachTheUser
  <2> QED BY <2>4, <2>7, <2>8 DEF TermInv
<1>5. CASE Unheard(r)
  <2>0. PICK p : p = CASE runs[r].at = "ask" -> "wait" [] runs[r].at = "tell" -> "think" [] OTHER -> "done"
    OBVIOUS
  <2>1. PICK g : g = [runs[r] EXCEPT !.at = p]
    OBVIOUS
  <2>2. /\ ui.left /\ runs[r].at \in {"ask", "tell", "finished"} /\ runs' = [runs EXCEPT ![r] = g]
        /\ UNCHANGED <<talks, ui, done, agreed, displaced>>
    BY <1>5, <2>0, <2>1 DEF Unheard
  <2>3. \/ p = "wait" /\ runs[r].at = "ask"
        \/ p = "think" /\ runs[r].at = "tell"
        \/ p = "done" /\ runs[r].at = "finished"
    BY <2>0, <2>2
  <2>4. /\ g \in Runs /\ g.at = p /\ g.talk = runs[r].talk /\ g.policy = runs[r].policy
        /\ g.stop = runs[r].stop /\ g.reply = runs[r].reply /\ g.asked = runs[r].asked
        /\ g.panicked = runs[r].panicked
    <3>1. p \in Places
      BY <2>3 DEF Places
    <3> QED BY <1>0, <2>1, <3>1 DEF Runs
  <2>5. TermTyped' /\ FlightInv' /\ CancelInv' /\ ScreenInv'
    BY <1>0, <2>2, <2>3, <2>4, RunMoves DEF InFlight
  <2>6. runs'[r] = g /\ \A t \in Turns : t # r => runs'[t] = runs[t]
    BY <1>0, <2>2
  <2>7. RightsInv'
    BY <2>2, <2>3, <2>4, <2>6 DEF TermInv, RightsInv
  <2>8. p = "wait" => runs[r].stop
    BY <2>2, <2>3 DEF TermInv, FlightInv, InFlight
  <2>9. QuestionsReachTheUser'
    BY <2>2, <2>3, <2>4, <2>6, <2>8 DEF TermInv, QuestionsReachTheUser
  <2> QED BY <2>5, <2>7, <2>9 DEF TermInv
<1> QED BY <1>1, <1>2, <1>3, <1>4, <1>5

(* The busy mark of a run that ended on screen outlasts it until it is       *)
(* reported.                                                                 *)
LEMMA FinishKeeps ==
  ASSUME TermInv, NEW r \in Turns, NEW failed \in BOOLEAN, Finish(r, failed), UNCHANGED ceiling
  PROVE  TermInv'
<1>1. PICK c : c = runs[r].talk
  OBVIOUS
<1>2. PICK g : g = [runs[r] EXCEPT !.at = "finished", !.failed = failed]
  OBVIOUS
<1>3. PICK h : h = [talks[c] EXCEPT !.cancel = NoTurn]
  OBVIOUS
<1>4. /\ runs[r].at = "think" /\ runs' = [runs EXCEPT ![r] = g]
      /\ \/ talks[c].here /\ talks' = [talks EXCEPT ![c] = h]
         \/ ~talks[c].here /\ talks' = talks
      /\ UNCHANGED <<ui, done, agreed, displaced>>
  BY <1>1, <1>2, <1>3 DEF Finish
<1>5. runs[r] \in Runs /\ runs \in [Turns -> Runs] /\ c \in Talks /\ talks[c] \in Chats
      /\ talks \in [Talks -> Chats] /\ talks[c].cancel = r
  BY <1>1, <1>4 DEF TermInv, TermTyped, FlightInv, InFlight
<1>6. g \in Runs /\ g.at = "finished" /\ g.talk = c /\ g.policy = runs[r].policy
  BY <1>1, <1>2, <1>5 DEF Runs, Places
<1>7. h \in Chats /\ (h.here <=> talks[c].here) /\ h.policy = talks[c].policy /\ h.lines = talks[c].lines
  BY <1>3, <1>5 DEF Chats
<1>8. /\ runs' \in [Turns -> Runs] /\ runs'[r] = g /\ \A t \in Turns : t # r => runs'[t] = runs[t]
  BY <1>4, <1>5, <1>6
<1>9. /\ talks' \in [Talks -> Chats]
      /\ \A d \in Talks :
           /\ talks'[d].here <=> talks[d].here
           /\ talks'[d].policy = talks[d].policy /\ talks'[d].lines = talks[d].lines
           /\ d # c => talks'[d].cancel = talks[d].cancel
  <2>1. CASE talks' = talks
    BY <1>5, <2>1
  <2>2. CASE talks' = [talks EXCEPT ![c] = h]
    <3>1. talks' \in [Talks -> Chats] /\ talks'[c] = h /\ \A d \in Talks : d # c => talks'[d] = talks[d]
      BY <1>5, <1>7, <2>2
    <3> QED BY <1>7, <3>1
  <2> QED BY <1>4, <2>1, <2>2
<1>10. TermTyped'
  <2>1. \A q \in ui.approvals : q[2] \in Turns /\ runs[q[2]].at # "idle"
    BY DEF TermInv, TermTyped, Views
  <2>2. \A q \in ui.approvals : runs'[q[2]].at # "idle"
    BY <1>6, <1>8, <2>1
  <2> QED BY <1>4, <1>5, <1>6, <1>8, <1>9, <2>2 DEF TermInv, TermTyped
<1>11. RightsInv' /\ QuestionsReachTheUser'
  BY <1>4, <1>6, <1>8 DEF TermInv, RightsInv, QuestionsReachTheUser
<1>12. FlightInv'
  <2> SUFFICES ASSUME NEW t \in Turns, InFlight(t), t # r
               PROVE  /\ talks'[runs[t].talk].cancel = t
                      /\ runs[t].stop \/ (talks'[runs[t].talk].here /\ ~ui.left)
    BY <1>4, <1>6, <1>8 DEF FlightInv, InFlight
  <2>1. /\ runs[t].talk \in Talks /\ talks[runs[t].talk].cancel = t
        /\ runs[t].stop \/ (talks[runs[t].talk].here /\ ~ui.left)
    BY DEF TermInv, TermTyped, FlightInv, InFlight
  <2> QED BY <1>5, <1>9, <2>1
<1>13. ScreenInv'
  <2>1. ui.shown \in Talks /\ talks[ui.shown].here /\ ui.screen = talks[ui.shown].lines
        /\ (Running(ui.shown) => ui.running)
        /\ (ui.running /\ ~Running(ui.shown) /\ ~ui.left =>
              \E t \in Turns : runs[t].talk = ui.shown /\ runs[t].at = "finished")
    BY DEF TermInv, ScreenInv, ShownInv, Here
  <2>2. CASE c = ui.shown
    <3>1. runs'[r].talk = ui.shown /\ runs'[r].at = "finished"
      BY <1>6, <1>8, <2>2
    <3>2. ui.running
      BY <1>5, <2>1, <2>2, TerminalAssumption DEF Running
    <3>3. ui'.shown \in Here' /\ ui'.screen = talks'[ui'.shown].lines
      BY <1>4, <1>9, <2>1 DEF Here
    <3> QED BY <1>4, <3>1, <3>2, <3>3 DEF ScreenInv, ShownInv
  <2>3. CASE c # ui.shown
    <3>1. \A t \in Turns : runs[t].at = "finished" => runs'[t] = runs[t]
      BY <1>4, <1>8
    <3> QED BY <1>4, <1>9, <2>1, <2>3, <3>1 DEF ScreenInv, ShownInv, Here, Running
  <2> QED BY <2>2, <2>3
<1>14. CancelInv'
  <2>1. ASSUME NEW d \in Talks, NEW t \in Turns, talks'[d].here, talks'[d].cancel = t
        PROVE  /\ t # r /\ runs[t].talk = d
               /\ InFlight(t) \/ runs[t].panicked
    <3>1. d # c
      BY <1>4, <1>5, <1>9, <1>3, <2>1, TerminalAssumption DEF Chats
    <3> QED BY <1>1, <1>9, <2>1, <3>1 DEF TermInv, CancelInv
  <2>2. ~g.panicked
    BY <1>2, <1>4, <1>5 DEF TermInv, CancelInv, Runs
  <2> QED BY <1>8, <2>1, <2>2 DEF TermInv, CancelInv, InFlight
<1> QED BY <1>10, <1>11, <1>12, <1>13, <1>14 DEF TermInv

(* A panic leaves the chat marked as running by a run that is not at work.   *)
LEMMA PanicKeeps ==
  ASSUME TermInv, NEW r \in Turns, Panic(r), UNCHANGED ceiling PROVE TermInv'
<1>1. PICK g : g = [runs[r] EXCEPT !.at = "finished", !.failed = TRUE, !.panicked = TRUE]
  OBVIOUS
<1>2. /\ runs[r].at = "think" /\ runs' = [runs EXCEPT ![r] = g]
      /\ UNCHANGED <<talks, ui, done, agreed, displaced>>
  BY <1>1 DEF Panic, OnlyRun
<1>3. runs[r] \in Runs /\ runs \in [Turns -> Runs] /\ ui \in Views
  BY DEF TermInv, TermTyped
<1>4. /\ g \in Runs /\ g.at = "finished" /\ g.talk = runs[r].talk /\ g.policy = runs[r].policy
      /\ g.panicked
  BY <1>1, <1>3 DEF Runs, Places
<1>5. /\ runs' \in [Turns -> Runs] /\ runs'[r] = g /\ \A t \in Turns : t # r => runs'[t] = runs[t]
  BY <1>2, <1>3, <1>4
<1>6. TermTyped'
  <2>1. \A q \in ui.approvals : q[2] \in Turns
    BY <1>3 DEF Views
  <2> QED BY <1>2, <1>4, <1>5, <2>1 DEF TermInv, TermTyped
<1>7. RightsInv' /\ QuestionsReachTheUser'
  BY <1>2, <1>4, <1>5 DEF TermInv, RightsInv, QuestionsReachTheUser
<1>8. FlightInv' /\ CancelInv'
  BY <1>2, <1>4, <1>5 DEF TermInv, FlightInv, CancelInv, InFlight
<1>9. ScreenInv'
  <2>1. \A t \in Turns : runs[t].at = "finished" =>
           runs'[t].at = "finished" /\ runs'[t].talk = runs[t].talk
    BY <1>2, <1>5
  <2> QED BY <1>2, <2>1 DEF TermInv, ScreenInv, ShownInv, Here, Running
<1> QED BY <1>6, <1>7, <1>8, <1>9 DEF TermInv

LEMMA TermInitHolds == TermInit => TermInv
<1> SUFFICES ASSUME TermInit PROVE TermInv
  OBVIOUS
<1>1. PICK c \in Talks, stored \in Policies \cup {ceiling} :
        /\ talks = [x \in Talks |-> [here |-> x = c, policy |-> IF x = c THEN stored ELSE "none",
                                     cancel |-> NoTurn, lines |-> {}]]
        /\ ui = [shown |-> c, running |-> FALSE, policy |-> Clamp(stored), screen |-> {},
                 approvals |-> {}, asked |-> 0, stopping |-> NoTalk, left |-> FALSE]
  BY DEF TermInit
<1>2. PICK p : p = Clamp(stored)
  OBVIOUS
<1>3. ceiling \in Policies /\ stored \in Policies /\ p \in Policies /\ Rank(p) <= Rank(ceiling)
  BY <1>2, RankBounded DEF Clamp, TermInit
<1>4. /\ ui \in Views /\ ui.shown = c /\ ~ui.running /\ ui.policy = p /\ ui.screen = {}
      /\ ui.approvals = {} /\ ~ui.left
  <2>1. ui = [shown |-> c, running |-> FALSE, policy |-> p, screen |-> {},
              approvals |-> {}, asked |-> 0, stopping |-> NoTalk, left |-> FALSE]
    BY <1>1, <1>2
  <2> QED BY <1>3, <2>1 DEF Views, LineSets
<1>5. /\ talks \in [Talks -> Chats]
      /\ \A x \in Talks :
           /\ talks[x].here <=> x = c
           /\ talks[x].here => talks[x].policy = stored
           /\ talks[x].cancel = NoTurn /\ talks[x].lines = {}
  <2>1. ASSUME NEW x \in Talks
        PROVE  /\ talks[x] \in Chats
               /\ talks[x].here <=> x = c
               /\ talks[x].here => talks[x].policy = stored
               /\ talks[x].cancel = NoTurn /\ talks[x].lines = {}
    <3>1. PICK b \in BOOLEAN : b <=> x = c
      OBVIOUS
    <3>2. PICK q : q = IF x = c THEN stored ELSE "none"
      OBVIOUS
    <3>3. talks[x] = [here |-> b, policy |-> q, cancel |-> NoTurn, lines |-> {}]
      BY <1>1, <3>1, <3>2
    <3> QED BY <1>3, <3>1, <3>2, <3>3 DEF Chats, LineSets
  <2> QED BY <1>1, <2>1
<1>6. /\ runs \in [Turns -> Runs] /\ \A r \in Turns : runs[r].at = "idle" /\ ~runs[r].panicked
      /\ done = {} /\ agreed = {}
  BY DEF TermInit, Runs, Places
<1>7. TermTyped
  BY <1>3, <1>4, <1>5, <1>6 DEF TermTyped
<1>8. RightsInv /\ FlightInv /\ QuestionsReachTheUser
  BY <1>3, <1>4, <1>6 DEF RightsInv, FlightInv, InFlight, QuestionsReachTheUser
<1>9. ScreenInv
  BY <1>4, <1>5 DEF ScreenInv, ShownInv, Here, Running, Views
<1>10. CancelInv
  BY <1>5, <1>6, TerminalAssumption DEF CancelInv
<1> QED BY <1>7, <1>8, <1>9, <1>10 DEF TermInv

LEMMA TermNextKeeps == TermInv /\ [TermNext]_termVars => TermInv'
<1> SUFFICES ASSUME TermInv, [TermNext]_termVars PROVE TermInv'
  OBVIOUS
<1>1. ASSUME Keys, UNCHANGED ceiling PROVE TermInv'
  BY <1>1, StartTurnKeeps, NewChatKeeps, SwitchChatKeeps, DeleteActiveKeeps, SetPolicyKeeps,
     AnswerApprovalKeeps, LeavingKeeps DEF Keys
<1>2. ASSUME CancelChatRun, UNCHANGED ceiling PROVE TermInv'
  BY <1>2, LeavingKeeps
<1>3. ASSUME NEW r \in Turns, TurnStep(r), UNCHANGED ceiling PROVE TermInv'
  BY <1>3, RunKeeps, FinishKeeps, PanicKeeps, TakeQuestionKeeps, TakeEventKeeps, TakeDoneKeeps DEF TurnStep
<1>4. ASSUME UNCHANGED termVars PROVE TermInv'
  <2> USE <1>4 DEF termVars, TermInv
  <2>1. TermTyped' /\ RightsInv'
    BY DEF TermTyped, RightsInv
  <2>2. FlightInv' /\ CancelInv' /\ QuestionsReachTheUser'
    BY DEF FlightInv, CancelInv, InFlight, QuestionsReachTheUser
  <2>3. ScreenInv'
    BY DEF ScreenInv, ShownInv, Here, Running
  <2> QED BY <2>1, <2>2, <2>3
<1> QED BY <1>1, <1>2, <1>3, <1>4 DEF TermNext

-----------------------------------------------------------------------------
(* The program *)

(* A process is one of the two programs, and the other one stands still.     *)
LEMMA Halves == WatchSpec => Spec /\ TermInit /\ [][TermNext]_termVars
<1>1. WatchInit => Init /\ TermInit
  BY DEF WatchInit
<1>2. [WatchNext]_watchVars => [Next]_vars /\ [TermNext]_termVars
  BY DEF WatchNext, InWeb, InChat, watchVars
<1> QED BY <1>1, <1>2, PTL DEF WatchSpec, Spec

LEMMA TermInvariance == WatchSpec => []TermInv
BY Halves, TermInitHolds, TermNextKeeps, PTL

(* A browser of "dzzzr web" that keeps up is sent every event, in order, and *)
(* no channel is closed twice or sent to when closed, in the program as a    *)
(* whole (publishSSE, subscribe, removeChat).                                *)
THEOREM BrowsersMissNothing == WatchSpec => [](NothingMissed /\ ChannelsCloseOnce /\ HubRoomIsUsable)
BY Halves, FramesArriveInOrder, ChannelsAreSafe, RoomsAreUsable, PTL

(* In "dzzzr chat" a run that waits for an answer has its question in the    *)
(* queue, was canceled, or lost it to dropApprovals.                         *)
THEOREM EveryQuestionIsAsked == WatchSpec => []QuestionsReachTheUser
<1>1. TermInv => QuestionsReachTheUser
  BY DEF TermInv
<1> QED BY <1>1, TermInvariance, PTL

(* No turn of "dzzzr chat" has more rights than -security gave, and under    *)
(* "approve" each call was said yes to (clampPolicy, ConfirmToolCall).       *)
THEOREM NobodyExceedsTheCeiling == WatchSpec => []RightsWithinCeiling
<1>1. TermInv => RightsWithinCeiling
  BY DEF TermInv, RightsInv, RightsWithinCeiling
<1> QED BY <1>1, TermInvariance, PTL

(* The chat on screen is shown with its own lines, marked busy while a run   *)
(* is at work for it, and not for longer than until the run's end was        *)
(* reported; but for ever when the run panicked (chatBridge.run).            *)
THEOREM ScreenIsTrue == WatchSpec => []ScreenTellsTheChat
<1>1. TermInv => ScreenTellsTheChat
  <2> SUFFICES ASSUME TermInv PROVE ScreenTellsTheChat
    OBVIOUS
  <2>1. /\ ui.shown \in Talks /\ talks[ui.shown].here /\ talks[ui.shown] \in Chats
        /\ ui.screen = talks[ui.shown].lines
        /\ Running(ui.shown) => ui.running
        /\ ui.running /\ ~Running(ui.shown) /\ ~ui.left => \E r \in Turns : Unreported(r)
    BY DEF TermInv, TermTyped, ScreenInv, ShownInv, Here, Unreported
  <2>2. ASSUME NEW r \in Turns, Unreported(r), runs[r].at # "finished" PROVE ui.running
    <3>1. InFlight(r) /\ runs[r].talk = ui.shown
      BY <2>2 DEF TermInv, TermTyped, Runs, Places, Unreported, InFlight
    <3>2. talks[ui.shown].cancel = r
      BY <3>1 DEF TermInv, FlightInv
    <3> QED BY <2>1, <3>2, TerminalAssumption DEF Running
  <2>3. ASSUME Running(ui.shown)
        PROVE  \E r \in Turns : Unreported(r) \/ (runs[r].talk = ui.shown /\ runs[r].panicked)
    <3>1. PICK r \in Turns : talks[ui.shown].cancel = r
      BY <2>1, <2>3 DEF Running, Chats
    <3>2. runs[r].talk = ui.shown /\ (InFlight(r) \/ runs[r].panicked)
      BY <2>1, <3>1 DEF TermInv, CancelInv
    <3> QED BY <3>2 DEF InFlight, Unreported
  <2> QED BY <2>1, <2>2, <2>3 DEF ScreenTellsTheChat
<1> QED BY <1>1, TermInvariance, PTL
=============================================================================
