----------------------------- MODULE EventStream -----------------------------
(***************************************************************************)
(* The event stream of one chat of "dzzzr web": the browsers that open      *)
(* GET .../events, the goroutine of a turn that publishes frames, and the   *)
(* DELETE that closes the streams (cmd/dzzzr: web_sse.go; httpSSE,          *)
(* publishSSE and httpDeleteChat of web.go).                                *)
(*                                                                         *)
(* A room is the chatSSE object a chat's listeners are registered in. Every *)
(* user of it looks it up under the hub's lock and works on it later under  *)
(* the room's own lock, so it may be working on a room that removeChat has  *)
(* already emptied. A chat is deleted once, so there are two rooms at most:  *)
(* whoever looks for the room of the deleted chat makes the second one.     *)
(***************************************************************************)
EXTENDS Naturals, Sequences, FiniteSets

CONSTANTS
    Streams,    \* requests for the event stream
    Frames,     \* how many events the turn publishes; the last one is "done"
    Buffer,     \* how many frames a listener's channel holds (32 in httpSSE)
    NoRoom

Rooms == {1, 2}

ASSUME FramesAssumption == Frames \in Nat \ {0}
ASSUME BufferAssumption == Buffer \in Nat \ {0}
ASSUME NoRoomAssumption == NoRoom \notin Rooms

VARIABLES
    chat,       \* "live", "removed" from the store, "gone" from the hub too
    room,       \* sseHub.chats: the chat's room, or NoRoom
    rooms,      \* how many rooms were made
    subs,       \* chatSSE.subs of each room
    emptied,    \* the rooms whose subs removeChat set to nil
    stuck,      \* the rooms whose mutex is held for good
    at,         \* where a request for the stream stands
    roomOf,     \* the room a request looked up
    queue,      \* the channel of a listener
    closed,     \* how many times that channel was closed
    read,       \* the frames written to the browser
    next,       \* the event the turn publishes next
    target,     \* the room publishSSE looked up for it, or NoRoom
    joined,     \* history: the first frame the hub could deliver to the listener
    dropped     \* history: listeners a frame was dropped for

hubVars    == <<chat, room, rooms>>
roomVars   == <<subs, emptied, stuck>>
streamVars == <<at, roomOf, queue, closed, read, joined, dropped>>
turnVars   == <<next, target>>
vars       == <<hubVars, roomVars, streamVars, turnVars>>

TypeOK ==
    /\ chat \in {"live", "removed", "gone"}
    /\ room \in Rooms \cup {NoRoom}
    /\ rooms \in 0..2
    /\ subs \in [Rooms -> SUBSET Streams]
    /\ emptied \subseteq Rooms
    /\ stuck \subseteq Rooms
    /\ at \in [Streams -> {"idle", "checked", "found", "streaming", "leaving", "gone", "panicked"}]
    /\ roomOf \in [Streams -> Rooms \cup {NoRoom}]
    /\ queue \in [Streams -> Seq(1..Frames)]
    /\ closed \in [Streams -> Nat]
    /\ read \in [Streams -> Seq(1..Frames)]
    /\ next \in 1..(Frames + 1)
    /\ target \in Rooms \cup {NoRoom}
    /\ joined \in [Streams -> 1..(Frames + 1)]
    /\ dropped \subseteq Streams

Init ==
    /\ chat = "live"
    /\ room = NoRoom
    /\ rooms = 0
    /\ subs = [r \in Rooms |-> {}]
    /\ emptied = {}
    /\ stuck = {}
    /\ at = [s \in Streams |-> "idle"]
    /\ roomOf = [s \in Streams |-> NoRoom]
    /\ queue = [s \in Streams |-> <<>>]
    /\ closed = [s \in Streams |-> 0]
    /\ read = [s \in Streams |-> <<>>]
    /\ next = 1
    /\ target = NoRoom
    /\ joined = [s \in Streams |-> 1]
    /\ dropped = {}

Move(s, place) == at' = [at EXCEPT ![s] = place]

\* sseHub.room: the chat's room, made on first use.
Room(r) ==
    IF room = NoRoom
    THEN r = rooms + 1 /\ r \in Rooms /\ rooms' = r /\ room' = r
    ELSE r = room /\ UNCHANGED <<room, rooms>>

-----------------------------------------------------------------------------
(* httpSSE.                                                                 *)

\* The request is refused with 404 once the chat has left the store.
CheckChat(s) ==
    /\ at[s] = "idle"
    /\ Move(s, IF chat = "live" THEN "checked" ELSE "gone")
    /\ UNCHANGED <<hubVars, roomVars, roomOf, queue, closed, read, joined, dropped, turnVars>>

\* h.sse.room(id), by then perhaps of a chat that is gone.
FindRoom(s) ==
    /\ at[s] = "checked"
    /\ \E r \in Rooms : Room(r) /\ roomOf' = [roomOf EXCEPT ![s] = r]
    /\ Move(s, "found")
    /\ UNCHANGED <<chat, roomVars, queue, closed, read, joined, dropped, turnVars>>

\* chatSSE.subscribe. In a room that removeChat emptied the write to the nil map panics
\* while the room's mutex is held; the HTTP server recovers, the mutex stays locked.
Subscribe(s) ==
    LET r == roomOf[s] IN
    /\ at[s] = "found"
    /\ r \notin stuck
    /\ IF r \in emptied
       THEN /\ stuck' = stuck \cup {r}
            /\ Move(s, "panicked")
            /\ UNCHANGED <<subs, joined>>
       ELSE /\ subs' = [subs EXCEPT ![r] = @ \cup {s}]
            /\ joined' = [joined EXCEPT ![s] = next]
            /\ Move(s, "streaming")
            /\ UNCHANGED stuck
    /\ UNCHANGED <<hubVars, emptied, roomOf, queue, closed, read, dropped, turnVars>>

\* A frame is taken from the channel and written to the browser.
Read(s) ==
    /\ at[s] = "streaming"
    /\ queue[s] # <<>>
    /\ read' = [read EXCEPT ![s] = Append(@, Head(queue[s]))]
    /\ queue' = [queue EXCEPT ![s] = Tail(@)]
    /\ UNCHANGED <<hubVars, roomVars, at, roomOf, closed, joined, dropped, turnVars>>

\* The channel is closed and drained.
EndStream(s) ==
    /\ at[s] = "streaming"
    /\ closed[s] # 0 /\ queue[s] = <<>>
    /\ Move(s, "leaving")
    /\ UNCHANGED <<hubVars, roomVars, roomOf, queue, closed, read, joined, dropped, turnVars>>

\* The browser goes away, or a write to it fails.
Disconnect(s) ==
    /\ at[s] = "streaming"
    /\ Move(s, "leaving")
    /\ UNCHANGED <<hubVars, roomVars, roomOf, queue, closed, read, joined, dropped, turnVars>>

\* The deferred unsubscribe takes the room's lock; only a listener that was still
\* registered has its channel closed here.
Unsubscribe(s) ==
    LET r == roomOf[s] IN
    /\ at[s] = "leaving"
    /\ r \notin stuck
    /\ subs' = [subs EXCEPT ![r] = @ \ {s}]
    /\ closed' = [closed EXCEPT ![s] = IF s \in subs[r] THEN @ + 1 ELSE @]
    /\ Move(s, "gone")
    /\ UNCHANGED <<hubVars, emptied, stuck, roomOf, queue, read, joined, dropped, turnVars>>

-----------------------------------------------------------------------------
(* publishSSE, as the goroutine of a turn calls it for one event after the other. *)

\* The room is looked up, and made again if the chat was deleted during the turn.
FindTarget ==
    /\ target = NoRoom
    /\ next <= Frames
    /\ \E r \in Rooms : Room(r) /\ target' = r
    /\ UNCHANGED <<chat, roomVars, streamVars, next>>

\* Mutant: the last place of the channel stays empty.
MutDeliver(s) == IF Len(queue[s]) + 1 < Buffer THEN Append(queue[s], next) ELSE queue[s]

\* The select with a default: a full channel takes nothing.
Deliver(s) == IF Len(queue[s]) < Buffer THEN Append(queue[s], next) ELSE queue[s]

\* chatSSE.broadcast.
Broadcast ==
    /\ target # NoRoom
    /\ target \notin stuck
    /\ queue' = [s \in Streams |-> IF s \in subs[target] THEN Deliver(s) ELSE queue[s]]
    /\ dropped' = dropped \cup {s \in subs[target] : Len(queue[s]) = Buffer}
    /\ next' = next + 1
    /\ target' = NoRoom
    /\ UNCHANGED <<hubVars, roomVars, at, roomOf, closed, read, joined>>

-----------------------------------------------------------------------------
(* httpDeleteChat.                                                          *)

RemoveFromStore ==
    /\ chat = "live"
    /\ chat' = "removed"
    /\ UNCHANGED <<room, rooms, roomVars, streamVars, turnVars>>

\* Mutant: the channels are left open.
MutRemoveChat ==
    /\ chat = "removed"
    /\ chat' = "gone"
    /\ room' = NoRoom
    /\ IF room = NoRoom THEN UNCHANGED <<subs, emptied>>
       ELSE subs' = [subs EXCEPT ![room] = {}] /\ emptied' = emptied \cup {room}
    /\ UNCHANGED <<rooms, stuck, streamVars, turnVars>>

\* sseHub.removeChat drops the room, closes every channel in it and sets subs to nil.
RemoveChat ==
    /\ chat = "removed"
    /\ chat' = "gone"
    /\ room' = NoRoom
    /\ IF room = NoRoom THEN UNCHANGED <<subs, emptied, closed>>
       ELSE /\ room \notin stuck
            /\ closed' = [s \in Streams |-> IF s \in subs[room] THEN closed[s] + 1 ELSE closed[s]]
            /\ subs' = [subs EXCEPT ![room] = {}]
            /\ emptied' = emptied \cup {room}
    /\ UNCHANGED <<rooms, stuck, at, roomOf, queue, read, joined, dropped, turnVars>>

Request(s) ==
    \/ CheckChat(s) \/ FindRoom(s) \/ Subscribe(s)
    \/ Read(s) \/ EndStream(s) \/ Unsubscribe(s)

Publish == FindTarget \/ Broadcast

Next ==
    \/ \E s \in Streams : Request(s) \/ Disconnect(s)
    \/ Publish
    \/ RemoveFromStore \/ RemoveChat

Spec == Init /\ [][Next]_vars

(* A started request, the turn and a started DELETE carry on; a browser that stays *)
(* connected takes its frames. Nothing makes a browser connect, or the user delete.  *)
Serving(s) == at[s] # "idle" /\ Request(s)

Fairness ==
    /\ \A s \in Streams : WF_vars(Serving(s))
    /\ WF_vars(Publish)
    /\ WF_vars(RemoveChat)

FairSpec == Spec /\ Fairness

-----------------------------------------------------------------------------
(* Properties.                                                              *)

\* A frame is only ever sent to an open channel and a channel is closed once (either
\* mistake panics), although removeChat and the listener's own unsubscribe both close,
\* in any order.
ChannelsCloseOnce ==
    \A s \in Streams :
        /\ closed[s] <= 1
        /\ closed[s] = 1 => \A r \in Rooms : s \notin subs[r]

\* The room the hub hands out can be used: removeChat leaves no room behind that is
\* emptied or locked for good, so whoever looks a room up from now on neither panics
\* nor hangs.
HubRoomIsUsable == room # NoRoom => room \notin emptied \cup stuck

\* A browser that keeps up with a chat is sent every event since it was
\* registered, in order, until the streams are closed: only a full channel loses one.
NothingMissed ==
    \A s \in Streams :
        chat # "gone" /\ at[s] = "streaming" /\ s \notin dropped =>
            read[s] \o queue[s] = [i \in 1..(next - joined[s]) |-> joined[s] + i - 1]

\* The room was looked up after removeChat had dropped the chat's: it is another one,
\* which nobody closes.
InNewRoom(s) == chat = "gone" /\ roomOf[s] # NoRoom /\ roomOf[s] = room

\* Every stream that is open when its chat has been deleted ends, so the browser stops
\* waiting, with two exceptions: a late subscriber broke the room, or the request passed
\* the check of the chat before the DELETE and came for its room after removeChat. The
\* comment at web_sse.go:85 says every stream; of these two it is not so.
DeletedStreamsEnd ==
    \A s \in Streams :
        chat = "gone" /\ at[s] = "streaming" ~>
            at[s] = "gone" \/ roomOf[s] \in stuck \/ InNewRoom(s)

=============================================================================
