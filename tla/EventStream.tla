---------------------------- MODULE EventStream -----------------------------
(***************************************************************************)
(* Live updates: the durable event log (storage/events.go), the hub that   *)
(* replays and broadcasts it (events/hub.go), the WebSocket handler        *)
(* (api/server.go, ws) and the graphical client that subscribes, reconnects *)
(* and refreshes its view (clients/gui/src/wayshard/state.tsx,             *)
(* clients/sdk/src/index.ts).  The handler's goroutine and the client's    *)
(* onmessage are one step: what the connection holds in between is lost    *)
(* when it breaks, like the frames of the channel.                         *)
(***************************************************************************)
EXTENDS Naturals, Sequences, FiniteSets

CONSTANTS
  Sockets,      \* connections that may exist at a time
  NoSocket,     \* the client has not opened a socket yet
  Cap,          \* frames a subscriber's channel holds (64 in the code)
  ReplayLimit,  \* events one replay reads (500 in the code)
  PastEvents,   \* events committed before the client starts
  MaxEvents,    \* bound: committed events
  MaxDrops,     \* bound: connections lost, refused, or dropped by a refresh
  MaxFails      \* bound: ticket requests that fail

ASSUME EsSocketsAssumption == NoSocket \notin Sockets
ASSUME EsSizesAssumption   == Cap \in Nat \ {0} /\ ReplayLimit \in Nat \ {0}
ASSUME EsBoundsAssumption  ==
  {PastEvents, MaxEvents, MaxDrops, MaxFails} \subseteq Nat

VARIABLES
  committed,    \* the newest sequence number of the events table
  undispatched, \* committed events whose hook has not run yet
  subs,         \* hub.subs
  chan,         \* per socket: the frames in its channel
  closed,       \* channels that are closed
  replay,       \* per socket: its replay goroutine
  panicked,     \* a goroutine panicked: the server process is gone
  ws,           \* per socket: the client's readyState
  socket,       \* the client's current socket
  urls,         \* calls of connectEvents that wait for eventURL
  timers,       \* armed reconnect timers
  connected,    \* state.connected
  lastEventSeq, \* state.lastEventSeq
  shown,        \* the newest event whose effect the view shows
  got,          \* history, per socket: events delivered on it
  lost,         \* history, per socket: events dropped for want of room
  esUsed        \* how much of each bound is used

hubVars    == <<committed, undispatched, subs, chan, closed, replay, panicked>>
clientVars == <<ws, socket, urls, timers, connected, lastEventSeq, shown>>
esHistory  == <<got, lost>>
esVars     == <<hubVars, clientVars, esHistory, esUsed>>

Spend(what, max) == esUsed[what] < max /\ esUsed' = [esUsed EXCEPT ![what] = @ + 1]

Event(e)      == [type |-> "event", seq |-> e]
Marker(kind)  == [type |-> kind, seq |-> 0]
Dead          == [pc |-> "none", after |-> 0, todo |-> << >>]

EsInit ==
  /\ committed = PastEvents /\ undispatched = {} /\ subs = {} /\ closed = {} /\ panicked = FALSE
  /\ chan = [s \in Sockets |-> << >>]
  /\ replay = [s \in Sockets |-> Dead]
  /\ ws = [s \in Sockets |-> "none"]
  /\ socket = NoSocket
  /\ urls = <<0>>     \* the first refreshAll has reached connectEvents
  /\ timers = 0 /\ connected = TRUE /\ lastEventSeq = 0
  /\ shown = PastEvents
  /\ got = [s \in Sockets |-> {}] /\ lost = [s \in Sockets |-> {}]
  /\ esUsed = [drops |-> 0, fails |-> 0]

-----------------------------------------------------------------------------
(* The server. *)

\* A transaction that inserts an event commits.
Commit ==
  /\ committed < MaxEvents
  /\ committed' = committed + 1
  /\ undispatched' = undispatched \cup {committed + 1}
  /\ UNCHANGED <<subs, chan, closed, replay, panicked, clientVars, esHistory, esUsed>>

\* Mutant: off by one.
HasRoomByOne(s) == Len(chan[s]) <= Cap

HasRoom(s) == Len(chan[s]) < Cap

\* The hook of a committed event: Broadcast, which drops what finds no room.
\* Hooks of different transactions run in any order.
Dispatch(e) ==
  /\ e \in undispatched
  /\ undispatched' = undispatched \ {e}
  /\ chan' = [s \in Sockets |-> IF s \in subs /\ HasRoom(s)
                                THEN Append(chan[s], Event(e)) ELSE chan[s]]
  /\ lost' = [s \in Sockets |-> IF s \in subs /\ ~HasRoom(s)
                                THEN lost[s] \cup {e} ELSE lost[s]]
  /\ UNCHANGED <<committed, subs, closed, replay, panicked, clientVars, got, esUsed>>

Events(from, to) == [i \in 1..(IF to < from THEN 0 ELSE to - from + 1) |-> Event(from + i - 1)]
Least(a, b) == IF a < b THEN a ELSE b

\* What replay sends: the history after the client's event and the mark that
\* the rest is live, or a resync if the history cannot be read.
History(after) == Append(Events(after + 1, Least(committed, after + ReplayLimit)), Marker("live"))

ReplayRead(s) ==
  /\ replay[s].pc = "due"
  /\ \/ /\ replay' = [replay EXCEPT ![s].pc = "sending", ![s].todo = History(replay[s].after)]
        /\ lost' = [lost EXCEPT ![s] = @ \cup (replay[s].after + ReplayLimit + 1)..committed]
     \/ /\ replay' = [replay EXCEPT ![s].pc = "sending", ![s].todo = <<Marker("resync")>>]
        /\ lost' = [lost EXCEPT ![s] = @ \cup (replay[s].after + 1)..committed]
  /\ UNCHANGED <<committed, undispatched, subs, chan, closed, panicked, clientVars, got, esUsed>>

\* send: a full channel drops the frame; a closed one panics.
ReplaySend(s) ==
  /\ replay[s].pc = "sending"
  /\ LET frame == Head(replay[s].todo)
     IN IF s \in closed
        THEN panicked' = TRUE /\ UNCHANGED <<chan, replay, lost>>
        ELSE /\ UNCHANGED panicked
             /\ replay' = [replay EXCEPT ![s].todo = Tail(@),
                                         ![s].pc = IF Len(replay[s].todo) = 1 THEN "done" ELSE @]
             /\ IF HasRoom(s)
                THEN chan' = [chan EXCEPT ![s] = Append(@, frame)] /\ UNCHANGED lost
                ELSE lost' = [lost EXCEPT ![s] = @ \cup {frame.seq}] /\ UNCHANGED chan
  /\ UNCHANGED <<committed, undispatched, subs, closed, clientVars, got, esUsed>>

\* The handler sees that the connection is gone: it unsubscribes and closes
\* the channel.
HandlerEnds(s) ==
  /\ s \in subs /\ ws[s] \in {"closing", "gone"}
  /\ subs' = subs \ {s}
  /\ closed' = closed \cup {s}
  /\ chan' = [chan EXCEPT ![s] = << >>]   \* nobody receives what is left
  /\ got' = [got EXCEPT ![s] = {}]
  /\ UNCHANGED <<committed, undispatched, replay, panicked, clientVars, lost, esUsed>>

-----------------------------------------------------------------------------
(* The client. *)

\* connectEvents up to its await: the old socket is closed and the URL is
\* made with the newest event seen so far.
ConnectEvents ==
  /\ ws' = IF socket # NoSocket /\ ws[socket] \in {"connecting", "open"}
           THEN [ws EXCEPT ![socket] = "closing"] ELSE ws
  /\ urls' = Append(urls, lastEventSeq)

\* refreshAll succeeds: the view is the server's, and events are connected
\* again.  The start, opening a project and the refresh button do this.
RefreshAll ==
  /\ Spend("drops", MaxDrops)
  /\ shown' = committed /\ connected' = TRUE
  /\ ConnectEvents
  /\ UNCHANGED <<hubVars, socket, timers, lastEventSeq, esHistory>>

\* The reconnect timer an onclose armed two seconds ago.
TimerFires ==
  /\ timers > 0 /\ timers' = timers - 1
  /\ ConnectEvents
  /\ UNCHANGED <<hubVars, socket, connected, lastEventSeq, shown, esHistory, esUsed>>

\* A socket and what the server holds for it are wholly gone.
Free(s) == ws[s] \in {"none", "gone"} /\ s \notin subs /\ replay[s].pc \in {"none", "done"}

\* eventURL answers: the new socket takes the place of the old one.  Which
\* identity a connection has says nothing, so it takes the first that is free.
OpenSocket(s) ==
  /\ urls # << >> /\ Free(s) /\ s = CHOOSE t \in Sockets : Free(t)
  /\ socket' = s
  /\ ws' = [ws EXCEPT ![s] = "connecting"]
  /\ replay' = [replay EXCEPT ![s] = [Dead EXCEPT !.after = Head(urls)]]
  /\ urls' = Tail(urls)
  /\ chan' = [chan EXCEPT ![s] = << >>] /\ closed' = closed \ {s}
  /\ got' = [got EXCEPT ![s] = {}] /\ lost' = [lost EXCEPT ![s] = {}]
  /\ UNCHANGED <<committed, undispatched, subs, panicked, timers, connected, lastEventSeq,
                 shown, esUsed>>

\* eventURL throws: connectEvents returns and nothing calls it again.
TicketFails ==
  /\ urls # << >> /\ urls' = Tail(urls)
  /\ Spend("fails", MaxFails)
  /\ UNCHANGED <<hubVars, ws, socket, timers, connected, lastEventSeq, shown, esHistory>>

\* Mutant: the history is read before the subscriber is known to the hub.
SubscribeLate(s) ==
  /\ subs' = subs
  /\ replay' = [replay EXCEPT ![s].pc = "due"]

\* Subscribe: the channel is registered first, then its replay is started.
Subscribe(s) ==
  /\ subs' = subs \cup {s}
  /\ replay' = [replay EXCEPT ![s].pc = "due"]

\* The handshake: the handler subscribes, and the client's onopen runs.
Handshake(s) ==
  /\ ws[s] = "connecting"
  /\ Subscribe(s)
  /\ ws' = [ws EXCEPT ![s] = "open"] /\ connected' = TRUE
  /\ UNCHANGED <<committed, undispatched, chan, closed, panicked, socket, urls, timers,
                 lastEventSeq, shown, esHistory, esUsed>>

\* The network loses a connection, or the server refuses one.
Break(s) ==
  /\ ws[s] \in {"connecting", "open"}
  /\ Spend("drops", MaxDrops)
  /\ ws' = [ws EXCEPT ![s] = "closing"]
  /\ UNCHANGED <<hubVars, socket, urls, timers, connected, lastEventSeq, shown, esHistory>>

\* Mutant: a connection that closes is not tried again.
ArmNothing(s) == UNCHANGED timers

ArmTimer(s) == timers' = timers + 1

\* onclose, of whichever socket.
OnClose(s) ==
  /\ ws[s] = "closing"
  /\ ws' = [ws EXCEPT ![s] = "gone"]
  /\ connected' = FALSE
  /\ ArmTimer(s)
  /\ UNCHANGED <<hubVars, socket, urls, lastEventSeq, shown, esHistory, esUsed>>

\* The prefixes onEvent compares a frame's type with.
RefreshingTypes == {"approval.", "notification.", "run.", "stage.", "execution.",
                    "project.", "integration."}

\* The handler writes a frame and the client's onmessage takes it.  A frame
\* names its event's type in `channel'; onEvent is given its `type'.
Deliver(s) ==
  /\ s \in subs /\ chan[s] # << >>
  /\ chan' = [chan EXCEPT ![s] = Tail(@)]
  /\ LET frame == Head(chan[s])
     IN IF ws[s] # "open" THEN UNCHANGED <<lastEventSeq, shown, got>>
        ELSE /\ lastEventSeq' = IF frame.seq > 0 THEN frame.seq ELSE lastEventSeq
             /\ got' = [got EXCEPT ![s] = IF frame.seq > 0 THEN @ \cup {frame.seq} ELSE @]
             /\ shown' = IF frame.type \in RefreshingTypes THEN committed ELSE shown
  /\ UNCHANGED <<committed, undispatched, subs, closed, replay, panicked, ws, socket, urls,
                 timers, connected, lost, esUsed>>

-----------------------------------------------------------------------------
EsServer ==
  \/ Commit
  \/ \E e \in undispatched : Dispatch(e)
  \/ \E s \in Sockets : ReplayRead(s) \/ ReplaySend(s) \/ HandlerEnds(s)

EsClient ==
  \/ RefreshAll
  \/ TimerFires
  \/ TicketFails
  \/ \E s \in Sockets : OpenSocket(s) \/ Handshake(s) \/ Break(s) \/ OnClose(s) \/ Deliver(s)

EsNext == ~panicked /\ (EsServer \/ EsClient)

\* Goroutines, browser tasks and armed timers get their turn; commits,
\* refreshes and failures happen as they like.  A handshake is strongly fair:
\* the timer that may close a connecting socket waits two seconds, so it does
\* not forestall every handshake.
EsFairness ==
  /\ WF_esVars(~panicked /\ \E e \in undispatched : Dispatch(e))
  /\ WF_esVars(~panicked /\ TimerFires)
  /\ WF_esVars(~panicked /\ \E s \in Sockets : OpenSocket(s))
  /\ \A s \in Sockets :
       /\ WF_esVars(~panicked /\ ReplayRead(s))
       /\ WF_esVars(~panicked /\ ReplaySend(s))
       /\ WF_esVars(~panicked /\ HandlerEnds(s))
       /\ SF_esVars(~panicked /\ Handshake(s))
       /\ WF_esVars(~panicked /\ OnClose(s))
       /\ WF_esVars(~panicked /\ Deliver(s))

EsSpec == EsInit /\ [][EsNext]_esVars /\ EsFairness

-----------------------------------------------------------------------------
(* Properties. *)

EsTypeOK ==
  /\ undispatched \subseteq 1..committed /\ committed <= MaxEvents
  /\ subs \cap closed = {}
  /\ \A s \in Sockets :
       /\ Len(chan[s]) <= Cap
       /\ ws[s] \in {"none", "connecting", "open", "closing", "gone"}
       /\ s \in subs => ws[s] \in {"open", "closing", "gone"}
  /\ lastEventSeq <= committed /\ shown <= committed

InChannel(s) == {chan[s][i].seq : i \in DOMAIN chan[s]}
ToReplay(s)  == {replay[s].todo[i].seq : i \in DOMAIN replay[s].todo}

\* From the event a client resumes at, replay and live frames leave no gap
\* between them: what an open subscription has not delivered is on its way,
\* still to be read by the replay or dispatched by its hook, or was dropped
\* because the channel was full or the history too long.
NoGap ==
  \A s \in Sockets : ws[s] = "open" /\ replay[s].pc \in {"sending", "done"} =>
    (replay[s].after + 1)..committed
      \subseteq got[s] \cup InChannel(s) \cup ToReplay(s) \cup undispatched \cup lost[s]

\* A client whose ticket requests succeed gets its connection back, as often
\* as it loses it.
Reconnects == []<>(connected \/ panicked \/ esUsed.fails > 0)

\* When nothing breaks any more, the connection comes to stay.
StaysConnected == <>[](connected \/ panicked)

\* Disconnecting a client never stops the server.
ServerSurvivesClients == ~panicked

\* The view catches up with what the server committed.
ViewCatchesUp == <>[](shown = committed \/ panicked)
=============================================================================
