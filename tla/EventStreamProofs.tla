------------------------- MODULE EventStreamProofs --------------------------
(***************************************************************************)
(* For any number of sockets, events, drops and failures and any capacity: *)
(* replay and live frames leave no gap between them.                       *)
(***************************************************************************)
EXTENDS EventStream, TLAPS

(* A frame of an event that is committed, or a marker.                      *)
Frames(c) == [type : {"event", "live", "resync"}, seq : 0..c]

Replays(c) == [pc : {"none", "due", "sending", "done"}, after : 0..c, todo : Seq(Frames(c))]

ServerShape ==
  /\ committed \in Nat
  /\ undispatched \subseteq 1..committed
  /\ subs \subseteq Sockets /\ closed \subseteq Sockets
  /\ chan \in [Sockets -> Seq(Frames(committed))]
  /\ replay \in [Sockets -> Replays(committed)]

ClientShape ==
  /\ ws \in [Sockets -> {"none", "connecting", "open", "closing", "gone"}]
  /\ socket \in Sockets \cup {NoSocket}
  /\ urls \in Seq(0..committed)
  /\ lastEventSeq \in 0..committed /\ shown \in 0..committed

HistoryShape ==
  /\ got \in [Sockets -> SUBSET Nat] /\ lost \in [Sockets -> SUBSET Nat]

(* A connection that is open is subscribed until it closes, a subscriber's  *)
(* channel is open and not overfull, and a replay that sends has something  *)
(* left to send.                                                            *)
Connections ==
  \A s \in Sockets :
    /\ ws[s] = "open" => s \in subs
    /\ s \in subs => ws[s] \in {"open", "closing", "gone"} /\ s \notin closed
    /\ ws[s] = "connecting" => s \notin closed
    /\ Len(chan[s]) <= Cap
    /\ replay[s].pc = "sending" => replay[s].todo # << >>

EsInv == ServerShape /\ ClientShape /\ HistoryShape /\ Connections

-----------------------------------------------------------------------------
(* The sequence numbers in a queue of frames.                               *)
Seqs(q) == {q[i].seq : i \in DOMAIN q}

LEMMA Longer ==
  ASSUME NEW F, NEW q \in Seq(F), NEW x \in F
  PROVE  /\ Append(q, x) \in Seq(F) /\ Len(Append(q, x)) = Len(q) + 1
         /\ Append(q, x) # << >>
         /\ Seqs(Append(q, x)) = Seqs(q) \cup {x.seq}
<1>1. /\ Append(q, x) \in Seq(F) /\ Len(Append(q, x)) = Len(q) + 1 /\ Len(q) \in Nat
      /\ DOMAIN q = 1..Len(q) /\ DOMAIN Append(q, x) = 1..(Len(q) + 1)
      /\ Append(q, x)[Len(q) + 1] = x /\ \A i \in 1..Len(q) : Append(q, x)[i] = q[i]
  OBVIOUS
<1>2. Append(q, x) # << >>
  <2>1. Len(q) + 1 # 0
    BY <1>1
  <2>2. Append(q, x) = << >> => Len(Append(q, x)) = 0
    OBVIOUS
  <2> QED
    BY <1>1, <2>1, <2>2
<1>3. \A n \in Nat : \A i \in 1..(n + 1) : i = n + 1 \/ i \in 1..n
  OBVIOUS
<1>4. Seqs(Append(q, x)) = Seqs(q) \cup {x.seq}
  BY <1>1, <1>3 DEF Seqs
<1> QED
  BY <1>1, <1>2, <1>4

LEMMA Shorter ==
  ASSUME NEW F, NEW q \in Seq(F), q # << >>
  PROVE  /\ Head(q) \in F /\ Tail(q) \in Seq(F) /\ Len(Tail(q)) = Len(q) - 1 /\ Len(q) \in Nat
         /\ Len(q) # 1 => Tail(q) # << >>
         /\ Seqs(q) = {Head(q).seq} \cup Seqs(Tail(q))
<1>1. /\ Head(q) \in F /\ Tail(q) \in Seq(F) /\ Len(Tail(q)) = Len(q) - 1 /\ Len(q) \in Nat \ {0}
      /\ DOMAIN q = 1..Len(q) /\ DOMAIN Tail(q) = 1..(Len(q) - 1)
      /\ Head(q) = q[1] /\ \A i \in 1..(Len(q) - 1) : Tail(q)[i] = q[i + 1]
  OBVIOUS
<1>2. Len(q) # 1 => Tail(q) # << >>
  <2>1. Len(q) # 1 => Len(Tail(q)) # 0
    BY <1>1
  <2>2. Len(<< >>) = 0
    OBVIOUS
  <2>3. Tail(q) = << >> => Len(Tail(q)) = 0
    BY <2>2, Zenon
  <2> QED
    BY <2>1, <2>3
<1>3. Seqs(q) \subseteq {Head(q).seq} \cup Seqs(Tail(q))
  <2> SUFFICES ASSUME NEW i \in DOMAIN q
               PROVE  q[i].seq \in {Head(q).seq} \cup Seqs(Tail(q))
    BY DEF Seqs
  <2>1. CASE i = 1
    BY <1>1, <2>1
  <2>2. CASE i # 1
    <3>1. i - 1 \in DOMAIN Tail(q) /\ Tail(q)[i - 1] = q[i]
      BY <1>1, <2>2
    <3> QED
      BY <3>1 DEF Seqs
  <2> QED
    BY <2>1, <2>2
<1>4. {Head(q).seq} \cup Seqs(Tail(q)) \subseteq Seqs(q)
  <2>1. 1 \in DOMAIN q /\ \A i \in DOMAIN Tail(q) : i + 1 \in DOMAIN q /\ q[i + 1] = Tail(q)[i]
    BY <1>1
  <2> QED
    BY <1>1, <2>1 DEF Seqs
<1> QED
  BY <1>1, <1>2, <1>3, <1>4

LEMMA MoreFrames ==
  ASSUME NEW c \in Nat
  PROVE  /\ Frames(c) \subseteq Frames(c + 1)
         /\ Seq(Frames(c)) \subseteq Seq(Frames(c + 1))
         /\ Replays(c) \subseteq Replays(c + 1)
         /\ Seq(0..c) \subseteq Seq(0..(c + 1))
<1>1. 0..c \subseteq 0..(c + 1)
  OBVIOUS
<1>2. Frames(c) \subseteq Frames(c + 1)
  BY <1>1 DEF Frames
<1>3. \A S, T : S \subseteq T => Seq(S) \subseteq Seq(T)
  OBVIOUS
<1>4. Seq(Frames(c)) \subseteq Seq(Frames(c + 1)) /\ Seq(0..c) \subseteq Seq(0..(c + 1))
  BY <1>1, <1>2, <1>3
<1>5. Replays(c) \subseteq Replays(c + 1)
  BY <1>1, <1>4 DEF Replays
<1> QED
  BY <1>2, <1>4, <1>5

(* What a replay sends: every event up to the limit, then a marker.         *)
LEMMA HistorySent ==
  ASSUME committed \in Nat, NEW a \in 0..committed
  PROVE  /\ History(a) \in Seq(Frames(committed)) /\ History(a) # << >>
         /\ (a + 1)..committed \subseteq Seqs(History(a)) \cup (a + ReplayLimit + 1)..committed
         /\ <<Marker("resync")>> \in Seq(Frames(committed)) /\ <<Marker("resync")>> # << >>
<1> DEFINE b == Least(committed, a + ReplayLimit)
           n == IF b < a + 1 THEN 0 ELSE b - (a + 1) + 1
           q == Events(a + 1, b)
<1>1. b \in Nat /\ n \in Nat /\ b <= committed /\ (b = committed \/ b = a + ReplayLimit)
  BY EsSizesAssumption DEF Least
<1>2. q = [i \in 1..n |-> Event(a + 1 + i - 1)]
  BY DEF Events
<1>3. \A i \in 1..n : Event(a + 1 + i - 1) \in Frames(committed) /\ Event(a + 1 + i - 1).seq = a + i
  <2> SUFFICES ASSUME NEW i \in 1..n
               PROVE  a + 1 + i - 1 = a + i /\ a + i \in 0..committed
    BY DEF Event, Frames
  <2> QED
    BY <1>1
<1>4. q \in [1..n -> Frames(committed)]
  BY <1>2, <1>3
<1>5. q \in Seq(Frames(committed))
  BY <1>1, <1>4
<1>6. \A kind \in {"live", "resync"} : Marker(kind) \in Frames(committed)
  BY DEF Marker, Frames
<1>7. (a + 1)..b \subseteq Seqs(q)
  <2> SUFFICES ASSUME NEW e \in (a + 1)..b
               PROVE  e \in Seqs(q)
    OBVIOUS
  <2>1. e - a \in 1..n /\ a + (e - a) = e
    BY <1>1
  <2>2. e - a \in DOMAIN q /\ q[e - a].seq = e
    BY <1>2, <1>3, <2>1
  <2> QED
    BY <2>2 DEF Seqs
<1> HIDE DEF q
<1>8. History(a) = Append(q, Marker("live"))
  BY DEF History, q
<1>9. /\ History(a) \in Seq(Frames(committed)) /\ History(a) # << >>
      /\ Seqs(q) \subseteq Seqs(History(a))
  BY <1>5, <1>6, <1>8, Longer
<1>10. (a + 1)..committed \subseteq (a + 1)..b \cup (a + ReplayLimit + 1)..committed
  BY <1>1, EsSizesAssumption
<1>11. <<Marker("resync")>> \in Seq(Frames(committed)) /\ <<Marker("resync")>> # << >>
  BY <1>6
<1> QED
  BY <1>7, <1>9, <1>10, <1>11

-----------------------------------------------------------------------------
(* The initial state. *)

LEMMA EsInitInv == EsInit => EsInv /\ NoGap
<1> SUFFICES ASSUME EsInit
             PROVE  EsInv /\ NoGap
  OBVIOUS
<1>1. committed \in Nat
  BY EsBoundsAssumption DEF EsInit
<1>2. << >> \in Seq(Frames(committed)) /\ Len(<< >>) = 0 /\ <<0>> \in Seq(0..committed)
  BY <1>1
<1>3. Dead \in Replays(committed)
  BY <1>1, <1>2 DEF Dead, Replays
<1>4. ServerShape
  BY <1>1, <1>2, <1>3 DEF EsInit, ServerShape
<1>5. ClientShape
  BY <1>1, <1>2 DEF EsInit, ClientShape
<1>6. HistoryShape
  BY DEF EsInit, HistoryShape
<1>7. Connections
  BY <1>2, EsSizesAssumption DEF EsInit, Connections, Dead
<1>8. NoGap
  BY DEF EsInit, NoGap
<1> QED
  BY <1>4, <1>5, <1>6, <1>7, <1>8 DEF EsInv

(* An open connection has no gap: NoGap of one socket, for the lemmas.      *)
Whole(s) ==
  ws[s] = "open" /\ replay[s].pc \in {"sending", "done"} =>
    (replay[s].after + 1)..committed
      \subseteq got[s] \cup Seqs(chan[s]) \cup Seqs(replay[s].todo) \cup undispatched \cup lost[s]

LEMMA NoGapIsWhole == NoGap <=> \A s \in Sockets : Whole(s)
  BY DEF NoGap, Whole, InChannel, ToReplay, Seqs

LEMMA NoGapNext == NoGap' <=> \A s \in Sockets : Whole(s)'
  BY DEF NoGap, Whole, InChannel, ToReplay, Seqs

-----------------------------------------------------------------------------
(* The server's steps. *)

LEMMA CommitStep == EsInv /\ NoGap /\ Commit => EsInv' /\ NoGap'
<1> SUFFICES ASSUME EsInv, NoGap, Commit
             PROVE  EsInv' /\ NoGap'
  OBVIOUS
<1> USE DEF Commit, clientVars, esHistory
<1>1. committed \in Nat /\ 0..committed \subseteq 0..(committed + 1)
  BY DEF EsInv, ServerShape
<1>2. /\ Frames(committed) \subseteq Frames(committed + 1)
      /\ Seq(Frames(committed)) \subseteq Seq(Frames(committed + 1))
      /\ Replays(committed) \subseteq Replays(committed + 1)
      /\ Seq(0..committed) \subseteq Seq(0..(committed + 1))
  BY <1>1, MoreFrames
<1>3. undispatched' \subseteq 1..committed'
  BY <1>1 DEF EsInv, ServerShape
<1>4. ServerShape'
  BY <1>1, <1>2, <1>3 DEF EsInv, ServerShape
<1>5. ClientShape'
  BY <1>1, <1>2 DEF EsInv, ClientShape
<1>6. HistoryShape' /\ Connections'
  BY DEF EsInv, HistoryShape, Connections
<1>7. ASSUME NEW s \in Sockets
      PROVE  Whole(s)'
  <2>1. Whole(s)
    BY NoGapIsWhole
  <2>2. replay[s].after \in Nat
    BY <1>1 DEF EsInv, ServerShape, Replays
  <2>3. (replay[s].after + 1)..(committed + 1)
          \subseteq (replay[s].after + 1)..committed \cup {committed + 1}
    BY <1>1, <2>2
  <2> QED
    BY <2>1, <2>3 DEF Whole
<1> QED
  BY <1>4, <1>5, <1>6, <1>7, NoGapNext DEF EsInv

LEMMA DispatchStep ==
  ASSUME EsInv, NoGap, NEW e \in undispatched, Dispatch(e)
  PROVE  EsInv' /\ NoGap'
<1> USE DEF Dispatch, clientVars
<1>1. committed \in Nat /\ e \in 1..committed
  BY DEF EsInv, ServerShape
<1>2. Event(e) \in Frames(committed) /\ Event(e).seq = e
  BY <1>1 DEF Event, Frames
<1>3. ASSUME NEW s \in Sockets
      PROVE  /\ chan[s] \in Seq(Frames(committed)) /\ chan'[s] \in Seq(Frames(committed))
             /\ Len(chan'[s]) <= Cap
             /\ s \in subs => Seqs(chan[s]) \cup lost[s] \cup {e}
                                = Seqs(chan'[s]) \cup lost'[s]
             /\ lost[s] \in SUBSET Nat /\ lost'[s] \in SUBSET Nat
  <2>1. chan[s] \in Seq(Frames(committed)) /\ Len(chan[s]) <= Cap /\ lost[s] \in SUBSET Nat
    BY DEF EsInv, ServerShape, HistoryShape, Connections
  <2>2. Len(chan[s]) \in Nat /\ Cap \in Nat /\ e \in Nat
    BY <1>1, <2>1, EsSizesAssumption
  <2>3. CASE s \in subs /\ HasRoom(s)
    <3>1. chan'[s] = Append(chan[s], Event(e)) /\ lost'[s] = lost[s]
      BY <2>3 DEF EsInv, ServerShape, HistoryShape
    <3>2. Len(chan[s]) + 1 <= Cap
      BY <2>2, <2>3 DEF HasRoom
    <3> QED
      BY <1>2, <2>1, <3>1, <3>2, Longer
  <2>4. CASE s \in subs /\ ~HasRoom(s)
    <3>1. chan'[s] = chan[s] /\ lost'[s] = lost[s] \cup {e}
      BY <2>4 DEF EsInv, ServerShape, HistoryShape
    <3> QED
      BY <2>1, <2>2, <3>1
  <2>5. CASE s \notin subs
    <3>1. chan'[s] = chan[s] /\ lost'[s] = lost[s]
      BY <2>5 DEF EsInv, ServerShape, HistoryShape
    <3> QED
      BY <2>1, <2>5, <3>1
  <2> QED
    BY <2>3, <2>4, <2>5
<1>4. chan' \in [Sockets -> Seq(Frames(committed))] /\ lost' \in [Sockets -> SUBSET Nat]
  BY <1>3
<1>5. ServerShape'
  BY <1>4 DEF EsInv, ServerShape
<1>6. ClientShape'
  BY DEF EsInv, ClientShape
<1>7. HistoryShape'
  BY <1>4 DEF EsInv, HistoryShape
<1>8. Connections'
  BY <1>3 DEF EsInv, Connections
<1>9. ASSUME NEW s \in Sockets
      PROVE  Whole(s)'
  <2>1. Whole(s) /\ (ws[s] = "open" => s \in subs)
    BY NoGapIsWhole DEF EsInv, Connections
  <2>2. CASE ws[s] = "open"
    <3>1. Seqs(chan[s]) \cup lost[s] \cup {e} = Seqs(chan'[s]) \cup lost'[s]
      BY <1>3, <2>1, <2>2
    <3> QED
      BY <2>1, <3>1 DEF Whole
  <2>3. CASE ws[s] # "open"
    BY <2>3 DEF Whole
  <2> QED
    BY <2>2, <2>3
<1> QED
  BY <1>5, <1>6, <1>7, <1>8, <1>9, NoGapNext DEF EsInv

LEMMA ReplayReadStep ==
  ASSUME EsInv, NoGap, NEW t \in Sockets, ReplayRead(t)
  PROVE  EsInv' /\ NoGap'
<1> USE DEF ReplayRead, clientVars
<1>1. /\ committed \in Nat /\ replay[t] \in Replays(committed) /\ replay[t].after \in 0..committed
      /\ replay \in [Sockets -> Replays(committed)] /\ lost \in [Sockets -> SUBSET Nat]
  BY DEF EsInv, ServerShape, HistoryShape, Replays
<1> DEFINE a == replay[t].after
<1>2. /\ History(a) \in Seq(Frames(committed)) /\ History(a) # << >>
      /\ (a + 1)..committed \subseteq Seqs(History(a)) \cup (a + ReplayLimit + 1)..committed
      /\ <<Marker("resync")>> \in Seq(Frames(committed)) /\ <<Marker("resync")>> # << >>
  BY <1>1, HistorySent
<1>3. PICK todo \in Seq(Frames(committed)), missed \in SUBSET Nat :
        /\ todo # << >> /\ (a + 1)..committed \subseteq Seqs(todo) \cup missed
        /\ replay' = [replay EXCEPT ![t].pc = "sending", ![t].todo = todo]
        /\ lost' = [lost EXCEPT ![t] = @ \cup missed]
  <2>1. (a + ReplayLimit + 1)..committed \in SUBSET Nat /\ (a + 1)..committed \in SUBSET Nat
    BY <1>1, EsSizesAssumption
  <2>2. CASE /\ replay' = [replay EXCEPT ![t].pc = "sending", ![t].todo = History(a)]
             /\ lost' = [lost EXCEPT ![t] = @ \cup (a + ReplayLimit + 1)..committed]
    BY <1>2, <2>1, <2>2
  <2>3. CASE /\ replay' = [replay EXCEPT ![t].pc = "sending", ![t].todo = <<Marker("resync")>>]
             /\ lost' = [lost EXCEPT ![t] = @ \cup (a + 1)..committed]
    BY <1>2, <2>1, <2>3
  <2> QED
    BY <2>2, <2>3
<1>4. /\ replay'[t] = [replay[t] EXCEPT !.pc = "sending", !.todo = todo]
      /\ lost'[t] = lost[t] \cup missed
      /\ \A s \in Sockets \ {t} : replay'[s] = replay[s] /\ lost'[s] = lost[s]
  BY <1>1, <1>3
<1>5. replay'[t] \in Replays(committed) /\ replay'[t].todo = todo /\ replay'[t].after = a
  BY <1>1, <1>4 DEF Replays
<1>6. ServerShape'
  BY <1>1, <1>3, <1>5 DEF EsInv, ServerShape
<1>7. ClientShape' /\ HistoryShape'
  BY <1>1, <1>3, <1>4 DEF EsInv, ClientShape, HistoryShape
<1>8. Connections'
  BY <1>3, <1>4, <1>5 DEF EsInv, Connections
<1>9. ASSUME NEW s \in Sockets
      PROVE  Whole(s)'
  <2>1. CASE s = t
    BY <1>3, <1>4, <1>5, <2>1 DEF Whole
  <2>2. CASE s # t
    <3>1. Whole(s)
      BY NoGapIsWhole
    <3> QED
      BY <1>4, <2>2, <3>1 DEF Whole
  <2> QED
    BY <2>1, <2>2
<1> QED
  BY <1>6, <1>7, <1>8, <1>9, NoGapNext DEF EsInv

LEMMA ReplaySendStep ==
  ASSUME EsInv, NoGap, NEW t \in Sockets, ReplaySend(t)
  PROVE  EsInv' /\ NoGap'
<1> USE DEF ReplaySend, clientVars
<1> DEFINE frame == Head(replay[t].todo)
           rest == Tail(replay[t].todo)
<1>1. /\ committed \in Nat /\ replay[t] \in Replays(committed) /\ replay[t].todo \in Seq(Frames(committed))
      /\ replay \in [Sockets -> Replays(committed)] /\ lost \in [Sockets -> SUBSET Nat]
      /\ chan \in [Sockets -> Seq(Frames(committed))] /\ Len(chan[t]) <= Cap
      /\ replay[t].todo # << >>
  BY DEF EsInv, ServerShape, HistoryShape, Connections, Replays
<1>2. /\ frame \in Frames(committed) /\ frame.seq \in Nat /\ rest \in Seq(Frames(committed))
      /\ Len(replay[t].todo) # 1 => rest # << >>
      /\ Seqs(replay[t].todo) = {frame.seq} \cup Seqs(rest)
  <2>1. /\ frame \in Frames(committed) /\ rest \in Seq(Frames(committed))
        /\ Len(replay[t].todo) # 1 => rest # << >>
        /\ Seqs(replay[t].todo) = {frame.seq} \cup Seqs(rest)
    BY <1>1, Shorter
  <2> QED
    BY <1>1, <2>1 DEF Frames
<1>3. CASE t \in closed
  <2>1. UNCHANGED <<committed, undispatched, subs, chan, closed, replay, ws, socket, urls,
                    lastEventSeq, shown, got, lost>>
    BY <1>3
  <2> QED
    BY <2>1, NoGapIsWhole, NoGapNext
       DEF EsInv, ServerShape, ClientShape, HistoryShape, Connections, Whole
<1>4. CASE t \notin closed
  <2>1. PICK pc \in {"sending", "done"} :
          /\ replay' = [replay EXCEPT ![t].todo = rest, ![t].pc = pc]
          /\ pc = "sending" => Len(replay[t].todo) # 1
    <3>1. CASE Len(replay[t].todo) = 1
      BY <1>4, <3>1
    <3>2. CASE Len(replay[t].todo) # 1
      BY <1>4, <3>2
    <3> QED
      BY <3>1, <3>2
  <2>2. /\ replay'[t] = [replay[t] EXCEPT !.todo = rest, !.pc = pc]
        /\ \A s \in Sockets \ {t} : replay'[s] = replay[s]
        /\ replay' \in [Sockets -> Replays(committed)]
        /\ replay'[t].todo = rest /\ replay'[t].pc = pc /\ replay'[t].after = replay[t].after
    BY <1>1, <1>2, <2>1 DEF Replays
  <2>3. /\ chan' \in [Sockets -> Seq(Frames(committed))] /\ lost' \in [Sockets -> SUBSET Nat]
        /\ Len(chan'[t]) <= Cap
        /\ Seqs(chan'[t]) \cup lost'[t] = Seqs(chan[t]) \cup lost[t] \cup {frame.seq}
        /\ \A s \in Sockets \ {t} : chan'[s] = chan[s] /\ lost'[s] = lost[s]
    <3>1. CASE HasRoom(t)
      <4>1. chan' = [chan EXCEPT ![t] = Append(@, frame)] /\ lost' = lost
        BY <1>4, <3>1
      <4>2. /\ Append(chan[t], frame) \in Seq(Frames(committed))
            /\ Len(Append(chan[t], frame)) = Len(chan[t]) + 1
            /\ Seqs(Append(chan[t], frame)) = Seqs(chan[t]) \cup {frame.seq}
        BY <1>1, <1>2, Longer
      <4>3. Len(chan[t]) + 1 <= Cap
        BY <1>1, <3>1, EsSizesAssumption DEF HasRoom
      <4> QED
        BY <1>1, <4>1, <4>2, <4>3
    <3>2. CASE ~HasRoom(t)
      <4>1. lost' = [lost EXCEPT ![t] = @ \cup {frame.seq}] /\ chan' = chan
        BY <1>4, <3>2
      <4> QED
        BY <1>1, <1>2, <4>1
    <3> QED
      BY <3>1, <3>2
  <2>4. ServerShape'
    BY <2>2, <2>3 DEF EsInv, ServerShape
  <2>5. ClientShape' /\ HistoryShape'
    BY <2>3 DEF EsInv, ClientShape, HistoryShape
  <2>6. Connections'
    BY <1>2, <2>1, <2>2, <2>3 DEF EsInv, Connections
  <2>7. ASSUME NEW s \in Sockets
        PROVE  Whole(s)'
    <3>1. Whole(s)
      BY NoGapIsWhole
    <3>2. CASE s = t
      BY <1>2, <2>2, <2>3, <3>1, <3>2 DEF Whole
    <3>3. CASE s # t
      BY <2>2, <2>3, <3>1, <3>3 DEF Whole
    <3> QED
      BY <3>2, <3>3
  <2> QED
    BY <2>4, <2>5, <2>6, <2>7, NoGapNext DEF EsInv
<1> QED
  BY <1>3, <1>4

LEMMA HandlerEndsStep ==
  ASSUME EsInv, NoGap, NEW t \in Sockets, HandlerEnds(t)
  PROVE  EsInv' /\ NoGap'
<1> USE DEF HandlerEnds, clientVars
<1>1. << >> \in Seq(Frames(committed)) /\ Len(<< >>) = 0
  OBVIOUS
<1>2. ServerShape' /\ HistoryShape'
  BY <1>1 DEF EsInv, ServerShape, HistoryShape
<1>3. ClientShape'
  BY DEF EsInv, ClientShape
<1>4. Connections'
  <2> SUFFICES ASSUME NEW s \in Sockets
               PROVE  /\ ws[s] = "open" => s \in subs'
                      /\ s \in subs' => ws[s] \in {"open", "closing", "gone"} /\ s \notin closed'
                      /\ ws[s] = "connecting" => s \notin closed'
                      /\ Len(chan'[s]) <= Cap
                      /\ replay[s].pc = "sending" => replay[s].todo # << >>
    BY DEF Connections
  <2>1. Len(chan'[s]) <= Cap
    BY <1>1, EsSizesAssumption DEF EsInv, ServerShape, Connections
  <2> QED
    BY <2>1 DEF EsInv, Connections
<1>5. ASSUME NEW s \in Sockets
      PROVE  Whole(s)'
  <2>1. Whole(s)
    BY NoGapIsWhole
  <2>2. CASE s = t
    BY <2>2 DEF Whole
  <2>3. CASE s # t
    <3>1. got'[s] = got[s] /\ chan'[s] = chan[s]
      BY <2>3 DEF EsInv, ServerShape, HistoryShape
    <3> QED
      BY <2>1, <3>1 DEF Whole
  <2> QED
    BY <2>2, <2>3
<1> QED
  BY <1>2, <1>3, <1>4, <1>5, NoGapNext DEF EsInv

-----------------------------------------------------------------------------
(* The client's steps. *)

(* connectEvents closes a socket at most and queues one more URL.           *)
LEMMA ConnectEventsKeeps ==
  ASSUME EsInv, NoGap, ConnectEvents, UNCHANGED <<hubVars, socket, lastEventSeq, esHistory>>,
         shown' \in 0..committed
  PROVE  EsInv' /\ NoGap'
<1> USE DEF ConnectEvents, hubVars, esHistory
<1>1. ServerShape' /\ HistoryShape'
  BY DEF EsInv, ServerShape, HistoryShape
<1>2. /\ ws' \in [Sockets -> {"none", "connecting", "open", "closing", "gone"}]
      /\ \A s \in Sockets : ws'[s] = ws[s] \/ (ws'[s] = "closing" /\ ws[s] \in {"connecting", "open"})
  <2>1. ws \in [Sockets -> {"none", "connecting", "open", "closing", "gone"}]
        /\ socket \in Sockets \cup {NoSocket}
    BY DEF EsInv, ClientShape
  <2>2. CASE socket # NoSocket /\ ws[socket] \in {"connecting", "open"}
    BY <2>1, <2>2
  <2>3. CASE ~(socket # NoSocket /\ ws[socket] \in {"connecting", "open"})
    BY <2>1, <2>3
  <2> QED
    BY <2>2, <2>3
<1>3. urls' \in Seq(0..committed)
  BY DEF EsInv, ClientShape
<1>4. ClientShape'
  BY <1>2, <1>3 DEF EsInv, ClientShape
<1>5. Connections'
  BY <1>2 DEF EsInv, Connections
<1>6. ASSUME NEW s \in Sockets
      PROVE  Whole(s)'
  <2>1. Whole(s) /\ (ws'[s] = "open" => ws[s] = "open")
    BY <1>2, NoGapIsWhole
  <2> QED
    BY <2>1 DEF Whole
<1> QED
  BY <1>1, <1>4, <1>5, <1>6, NoGapNext DEF EsInv

LEMMA RefreshAllStep == EsInv /\ NoGap /\ RefreshAll => EsInv' /\ NoGap'
<1> SUFFICES ASSUME EsInv, NoGap, RefreshAll
             PROVE  EsInv' /\ NoGap'
  OBVIOUS
<1>1. committed \in 0..committed
  BY DEF EsInv, ServerShape
<1> QED
  BY <1>1, ConnectEventsKeeps DEF RefreshAll

LEMMA TimerStep == EsInv /\ NoGap /\ TimerFires => EsInv' /\ NoGap'
<1> SUFFICES ASSUME EsInv, NoGap, TimerFires
             PROVE  EsInv' /\ NoGap'
  OBVIOUS
<1>1. shown \in 0..committed
  BY DEF EsInv, ClientShape
<1> QED
  BY <1>1, ConnectEventsKeeps DEF TimerFires

LEMMA TicketFailsStep == EsInv /\ NoGap /\ TicketFails => EsInv' /\ NoGap'
<1> SUFFICES ASSUME EsInv, NoGap, TicketFails
             PROVE  EsInv' /\ NoGap'
  OBVIOUS
<1> USE DEF TicketFails, hubVars, esHistory
<1>1. urls \in Seq(0..committed) /\ urls # << >> /\ urls' = Tail(urls)
  BY DEF EsInv, ClientShape
<1>2. urls' \in Seq(0..committed)
  BY <1>1
<1>3. EsInv'
  BY <1>2 DEF EsInv, ServerShape, ClientShape, HistoryShape, Connections
<1> QED
  BY <1>3, NoGapIsWhole, NoGapNext DEF Whole

LEMMA OpenSocketStep ==
  ASSUME EsInv, NoGap, NEW t \in Sockets, OpenSocket(t)
  PROVE  EsInv' /\ NoGap'
<1> USE DEF OpenSocket
<1>1. /\ committed \in Nat /\ urls \in Seq(0..committed) /\ urls # << >>
      /\ << >> \in Seq(Frames(committed)) /\ Len(<< >>) = 0
  BY DEF EsInv, ServerShape, ClientShape
<1>2. Head(urls) \in 0..committed /\ urls' \in Seq(0..committed)
  BY <1>1
<1>3. [Dead EXCEPT !.after = Head(urls)] \in Replays(committed)
      /\ [Dead EXCEPT !.after = Head(urls)].pc = "none"
  BY <1>1, <1>2 DEF Dead, Replays
<1>4. ServerShape'
  BY <1>1, <1>3 DEF EsInv, ServerShape
<1>5. ClientShape' /\ HistoryShape'
  BY <1>2 DEF EsInv, ClientShape, HistoryShape
<1>6. /\ t \notin subs
      /\ ws'[t] = "connecting" /\ chan'[t] = << >> /\ replay'[t].pc = "none"
      /\ \A s \in Sockets \ {t} :
           /\ ws'[s] = ws[s] /\ chan'[s] = chan[s] /\ replay'[s] = replay[s]
           /\ got'[s] = got[s] /\ lost'[s] = lost[s]
  BY <1>3 DEF EsInv, ServerShape, ClientShape, HistoryShape, Free
<1>7. closed' = closed \ {t} /\ subs' = subs
  OBVIOUS
<1>8. Connections'
  <2> SUFFICES ASSUME NEW s \in Sockets
               PROVE  /\ ws'[s] = "open" => s \in subs'
                      /\ s \in subs' => ws'[s] \in {"open", "closing", "gone"} /\ s \notin closed'
                      /\ ws'[s] = "connecting" => s \notin closed'
                      /\ Len(chan'[s]) <= Cap
                      /\ replay'[s].pc = "sending" => replay'[s].todo # << >>
    BY DEF Connections
  <2> HIDE DEF OpenSocket
  <2>1. CASE s = t
    BY <1>1, <1>6, <1>7, <2>1, EsSizesAssumption
  <2>2. CASE s # t
    BY <1>6, <1>7, <2>2 DEF EsInv, Connections
  <2> QED
    BY <2>1, <2>2
<1>9. ASSUME NEW s \in Sockets
      PROVE  Whole(s)'
  BY <1>6, NoGapIsWhole DEF Whole
<1> QED
  BY <1>4, <1>5, <1>8, <1>9, NoGapNext DEF EsInv

LEMMA HandshakeStep ==
  ASSUME EsInv, NoGap, NEW t \in Sockets, Handshake(t)
  PROVE  EsInv' /\ NoGap'
<1> USE DEF Handshake, Subscribe, esHistory
<1>1. [replay[t] EXCEPT !.pc = "due"] \in Replays(committed)
  BY DEF EsInv, ServerShape, Replays
<1>2. /\ replay'[t] = [replay[t] EXCEPT !.pc = "due"] /\ replay'[t].pc = "due" /\ ws'[t] = "open"
      /\ \A s \in Sockets \ {t} : ws'[s] = ws[s] /\ replay'[s] = replay[s]
  BY DEF EsInv, ServerShape, ClientShape, Replays
<1>3. ServerShape'
  BY <1>1 DEF EsInv, ServerShape
<1>4. ClientShape' /\ HistoryShape'
  BY DEF EsInv, ClientShape, HistoryShape
<1>5. Connections'
  BY <1>2 DEF EsInv, Connections
<1>6. ASSUME NEW s \in Sockets
      PROVE  Whole(s)'
  BY <1>2, NoGapIsWhole DEF Whole
<1> QED
  BY <1>3, <1>4, <1>5, <1>6, NoGapNext DEF EsInv

(* A connection that breaks or closes is no longer open.                    *)
LEMMA ClosingStep ==
  ASSUME EsInv, NoGap, NEW t \in Sockets, Break(t) \/ OnClose(t)
  PROVE  EsInv' /\ NoGap'
<1>1. PICK state \in {"closing", "gone"} :
        /\ ws' = [ws EXCEPT ![t] = state] /\ (state = "gone" => ws[t] = "closing")
        /\ UNCHANGED <<hubVars, socket, urls, lastEventSeq, shown, esHistory>>
  BY DEF Break, OnClose
<1>2. /\ ws' \in [Sockets -> {"none", "connecting", "open", "closing", "gone"}]
      /\ ws'[t] \in {"closing", "gone"} /\ \A s \in Sockets \ {t} : ws'[s] = ws[s]
  BY <1>1 DEF EsInv, ClientShape
<1>3. ServerShape' /\ ClientShape' /\ HistoryShape'
  BY <1>1, <1>2 DEF EsInv, ServerShape, ClientShape, HistoryShape, hubVars, esHistory
<1>4. Connections'
  <2> SUFFICES ASSUME NEW s \in Sockets
               PROVE  /\ ws'[s] = "open" => s \in subs
                      /\ s \in subs => ws'[s] \in {"open", "closing", "gone"} /\ s \notin closed
                      /\ ws'[s] = "connecting" => s \notin closed
                      /\ Len(chan[s]) <= Cap
                      /\ replay[s].pc = "sending" => replay[s].todo # << >>
    BY <1>1 DEF Connections, hubVars
  <2> QED
    BY <1>2 DEF EsInv, Connections
<1>5. ASSUME NEW s \in Sockets
      PROVE  Whole(s)'
  BY <1>1, <1>2, NoGapIsWhole DEF Whole, hubVars, esHistory
<1> QED
  BY <1>3, <1>4, <1>5, NoGapNext DEF EsInv

LEMMA DeliverStep ==
  ASSUME EsInv, NoGap, NEW t \in Sockets, Deliver(t)
  PROVE  EsInv' /\ NoGap'
<1> USE DEF Deliver
<1> DEFINE frame == Head(chan[t])
<1>1. /\ committed \in Nat /\ chan[t] \in Seq(Frames(committed)) /\ chan[t] # << >>
      /\ chan' = [chan EXCEPT ![t] = Tail(@)] /\ Len(chan[t]) <= Cap
      /\ lastEventSeq \in 0..committed /\ shown \in 0..committed
      /\ chan \in [Sockets -> Seq(Frames(committed))] /\ got \in [Sockets -> SUBSET Nat]
  BY DEF EsInv, ServerShape, ClientShape, HistoryShape, Connections
<1>2. /\ frame \in Frames(committed) /\ Tail(chan[t]) \in Seq(Frames(committed))
      /\ Len(Tail(chan[t])) = Len(chan[t]) - 1 /\ Len(chan[t]) \in Nat
      /\ Seqs(chan[t]) = {frame.seq} \cup Seqs(Tail(chan[t]))
  BY <1>1, Shorter
<1>3. frame.seq \in 0..committed /\ frame.seq \in Nat
  BY <1>1, <1>2 DEF Frames
<1>4. /\ chan' \in [Sockets -> Seq(Frames(committed))] /\ Len(chan'[t]) <= Cap
      /\ chan'[t] = Tail(chan[t]) /\ \A s \in Sockets \ {t} : chan'[s] = chan[s]
  BY <1>1, <1>2, EsSizesAssumption
<1>5. /\ lastEventSeq' \in 0..committed /\ shown' \in 0..committed
      /\ got' \in [Sockets -> SUBSET Nat]
      /\ ws[t] = "open" /\ frame.seq > 0 => frame.seq \in got'[t]
      /\ \A s \in Sockets : got[s] \subseteq got'[s]
  <2>1. CASE ws[t] # "open"
    BY <1>1, <2>1
  <2>2. CASE ws[t] = "open"
    <3>1. /\ lastEventSeq' = IF frame.seq > 0 THEN frame.seq ELSE lastEventSeq
          /\ shown' \in {shown, committed}
      BY <2>2
    <3>2. got' = [got EXCEPT ![t] = IF frame.seq > 0 THEN @ \cup {frame.seq} ELSE @]
      BY <2>2
    <3> HIDE DEF frame
    <3> QED
      BY <1>1, <1>3, <3>1, <3>2
  <2> QED
    BY <2>1, <2>2
<1>6. ServerShape' /\ HistoryShape'
  BY <1>4, <1>5 DEF EsInv, ServerShape, HistoryShape
<1>7. ClientShape'
  BY <1>5 DEF EsInv, ClientShape
<1>8. Connections'
  BY <1>4 DEF EsInv, Connections
<1>9. ASSUME NEW s \in Sockets
      PROVE  Whole(s)'
  <2>1. Whole(s) /\ replay[s].after \in Nat
    BY <1>1, NoGapIsWhole DEF EsInv, ServerShape, Replays
  <2>2. CASE s = t
    <3> SUFFICES ASSUME ws[t] = "open", replay[t].pc \in {"sending", "done"},
                        NEW e \in (replay[t].after + 1)..committed
                 PROVE  e \in got'[t] \cup Seqs(chan'[t]) \cup Seqs(replay[t].todo)
                               \cup undispatched \cup lost[t]
      BY <2>2 DEF Whole
    <3>1. e > 0
      BY <1>1, <2>1, <2>2
    <3>2. e \in got[t] \cup {frame.seq} \cup Seqs(chan'[t]) \cup Seqs(replay[t].todo)
                 \cup undispatched \cup lost[t]
      BY <1>2, <1>4, <2>1, <2>2 DEF Whole
    <3> QED
      BY <1>5, <3>1, <3>2
  <2>3. CASE s # t
    BY <1>4, <1>5, <2>1, <2>3 DEF Whole
  <2> QED
    BY <2>2, <2>3
<1> QED
  BY <1>6, <1>7, <1>8, <1>9, NoGapNext DEF EsInv

-----------------------------------------------------------------------------
(* The theorems. *)

LEMMA EsStutter == EsInv /\ NoGap /\ UNCHANGED esVars => EsInv' /\ NoGap'
  BY NoGapIsWhole, NoGapNext
     DEF EsInv, ServerShape, ClientShape, HistoryShape, Connections, Whole,
         esVars, hubVars, clientVars, esHistory

LEMMA EsStep == EsInv /\ NoGap /\ [EsNext]_esVars => EsInv' /\ NoGap'
<1> SUFFICES ASSUME EsInv, NoGap, [EsNext]_esVars
             PROVE  EsInv' /\ NoGap'
  OBVIOUS
<1>1. CASE EsServer
  BY <1>1, CommitStep, DispatchStep, ReplayReadStep, ReplaySendStep, HandlerEndsStep DEF EsServer
<1>2. CASE EsClient
  BY <1>2, RefreshAllStep, TimerStep, TicketFailsStep, OpenSocketStep, HandshakeStep,
     ClosingStep, DeliverStep DEF EsClient
<1>3. CASE UNCHANGED esVars
  BY <1>3, EsStutter
<1> QED
  BY <1>1, <1>2, <1>3 DEF EsNext

(* Whatever breaks, and however fast events come, a client that resumes     *)
(* after an event misses none between what is replayed and what is sent     *)
(* live, unless its channel was full or the history too long (hub.go:       *)
(* Subscribe registers the channel before replay reads the event log).      *)
THEOREM NoEventSkipped == EsSpec => []NoGap
<1>1. EsInit => EsInv /\ NoGap
  BY EsInitInv
<1>2. EsInv /\ NoGap /\ [EsNext]_esVars => (EsInv /\ NoGap)'
  BY EsStep
<1> QED
  BY <1>1, <1>2, PTL DEF EsSpec

LEMMA EsWithinBound ==
  ASSUME PastEvents <= MaxEvents
  PROVE  EsSpec => [](committed <= MaxEvents)
<1>1. EsInit => committed <= MaxEvents /\ committed \in Nat
  <2>1. PastEvents \in {PastEvents, MaxEvents, MaxDrops, MaxFails}
    OBVIOUS
  <2>2. PastEvents \in Nat
    BY <2>1, EsBoundsAssumption
  <2> QED
    BY <2>2 DEF EsInit
<1>2. committed <= MaxEvents /\ committed \in Nat /\ [EsNext]_esVars
        => (committed <= MaxEvents /\ committed \in Nat)'
  <2> SUFFICES ASSUME committed <= MaxEvents, committed \in Nat, [EsNext]_esVars
               PROVE  committed' <= MaxEvents /\ committed' \in Nat
    OBVIOUS
  <2>1. MaxEvents \in {PastEvents, MaxEvents, MaxDrops, MaxFails}
    OBVIOUS
  <2>2. MaxEvents \in Nat
    BY <2>1, EsBoundsAssumption
  <2>3. CASE Commit
    BY <2>2, <2>3 DEF Commit
  <2>4. CASE EsServer /\ ~Commit
    BY <2>4 DEF EsServer, Dispatch, ReplayRead, ReplaySend, HandlerEnds
  <2>5. CASE EsClient
    <3>1. CASE RefreshAll \/ TimerFires \/ TicketFails
      BY <3>1 DEF RefreshAll, TimerFires, TicketFails, hubVars
    <3>2. ASSUME NEW s \in Sockets,
                 OpenSocket(s) \/ Handshake(s) \/ Break(s) \/ OnClose(s) \/ Deliver(s)
          PROVE  committed' = committed
      BY <3>2 DEF OpenSocket, Handshake, Break, OnClose, Deliver, hubVars
    <3> QED
      BY <2>5, <3>1, <3>2 DEF EsClient
  <2>6. CASE UNCHANGED esVars
    BY <2>6 DEF esVars, hubVars
  <2> QED
    BY <2>3, <2>4, <2>5, <2>6 DEF EsNext
<1> QED
  BY <1>1, <1>2, PTL DEF EsSpec

(* The shape the code relies on: a channel is never over its capacity, a    *)
(* subscriber's channel is never closed, and neither the client's resume    *)
(* point nor its view is ahead of the event log.                            *)
THEOREM StreamTypeCorrect ==
  ASSUME PastEvents <= MaxEvents
  PROVE  EsSpec => []EsTypeOK
<1>1. EsInit => EsInv /\ NoGap
  BY EsInitInv
<1>2. EsInv /\ NoGap /\ [EsNext]_esVars => (EsInv /\ NoGap)'
  BY EsStep
<1>3. EsInv /\ committed <= MaxEvents => EsTypeOK
  BY DEF EsInv, ServerShape, ClientShape, Connections, EsTypeOK
<1> QED
  BY <1>1, <1>2, <1>3, EsWithinBound, PTL DEF EsSpec

=============================================================================
