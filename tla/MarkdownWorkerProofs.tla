------------------------ MODULE MarkdownWorkerProofs ------------------------
(***************************************************************************)
(* Proofs about MarkdownWorker: in every reachable state the promises of   *)
(* the page, the requests and answers on the two ports and the worker's    *)
(* queue fit together, and so do the tokens the page holds, the streams    *)
(* the worker continues and the elements that are shown.                   *)
(*                                                                         *)
(* The inductive invariant has four parts, each kept by lemmas of its own: *)
(*   TransportOK  every promise is that of the active or of the waiting    *)
(*                request of its key; the active one is in one place, the  *)
(*                waiting one in none;                                     *)
(*   InStep       a disposal follows every request that is not live, so    *)
(*                that the stream the worker holds of a key is what the    *)
(*                page holds, or an answer between them makes it so;       *)
(*   Numbered     requests of a key are numbered in the order they were    *)
(*                made, so that the state of a block is never released     *)
(*                under a waiting request;                                 *)
(*   ViewOK       what a view awaits is a promise of its text, and what it *)
(*                shows is a version its text starts with.                 *)
(***************************************************************************)
EXTENDS MarkdownWorker, WellFoundedInduction, FiniteSetTheorems, SequenceTheorems, TLAPS

(***************************************************************************)
(* Numbers and sequences. *)

\* A nonempty set of naturals has a least element.
LEMMA MdLeast ==
  ASSUME NEW S \in SUBSET Nat, S # {}
  PROVE  \E n \in S : \A m \in S : n <= m
<1> DEFINE R == OpToRel(<, Nat)
<1>1. IsWellFoundedOn(R, Nat)
  BY NatLessThanWellFounded
<1>2. R = {p \in Nat \X Nat : p[1] < p[2]}
  BY DEF OpToRel
<1> HIDE DEF R
<1>3. \E x \in S : \A y \in S : ~ (<<y, x>> \in R)
  BY <1>1, WFMin
<1>4. PICK n \in S : \A y \in S : ~ (<<y, n>> \in R)
  BY <1>3
<1>5. \A m \in S : n <= m
  <2> TAKE m \in S
  <2>1. <<m, n>> \notin R
    BY <1>4
  <2>2. m \in Nat /\ n \in Nat
    OBVIOUS
  <2> QED
    BY <2>1, <2>2, <1>2
<1> QED
  BY <1>5

\* A nonempty set of naturals that is bounded has a greatest element.
LEMMA MdGreatest ==
  ASSUME NEW S \in SUBSET Nat, S # {}, NEW b \in Nat, \A x \in S : x <= b
  PROVE  \E n \in S : \A m \in S : m <= n
<1> DEFINE T == {b - x : x \in S}
<1>1. T \in SUBSET Nat /\ T # {}
  <2>1. \A x \in S : x \in Nat /\ x <= b /\ b - x \in Nat
    OBVIOUS
  <2>2. PICK x \in S : TRUE
    OBVIOUS
  <2>3. b - x \in T
    OBVIOUS
  <2>4. \A t \in T : t \in Nat
    BY <2>1
  <2> QED
    BY <2>3, <2>4
<1>2. PICK t \in T : \A u \in T : t <= u
  BY <1>1, MdLeast
<1>3. PICK n \in S : t = b - n
  BY <1>2
<1>4. \A m \in S : m <= n
  <2> TAKE m \in S
  <2>1. b - m \in T
    OBVIOUS
  <2>2. b - n <= b - m
    BY <2>1, <1>2, <1>3
  <2>3. m \in Nat /\ n \in Nat
    OBVIOUS
  <2> QED
    BY <2>2, <2>3
<1> QED
  BY <1>4

\* The greatest of the ids that were lost is one of them.
LEMMA MdMaxIn ==
  ASSUME NEW S \in SUBSET Nat, S # {}, NEW b \in Nat, \A x \in S : x <= b
  PROVE  Max(S) \in S
<1>1. \E n \in S : \A m \in S : m <= n
  BY MdGreatest
<1>2. PICK n \in S : \A m \in S : m <= n
  BY <1>1
<1>3. \A m \in S : n >= m
  BY <1>2
<1> QED
  BY <1>3 DEF Max

\* The longest common prefix of two sequences is a prefix of both.
LEMMA MdCommonPrefix ==
  ASSUME NEW X, NEW s \in Seq(X), NEW t \in Seq(X)
  PROVE  LET p == LongestCommonPrefix({s, t})
         IN /\ p \in Seq(X)
            /\ Len(p) <= Len(s) /\ Len(p) <= Len(t)
            /\ \A i \in 1..Len(p) : p[i] = s[i] /\ p[i] = t[i]
<1> DEFINE C == CommonPrefixes({s, t})
           p == LongestCommonPrefix({s, t})
<1>1. \A q \in C : (\E r \in {s, t} : \E i \in 0..Len(r) : q = SubSeq(r, 1, i))
                   /\ IsPrefix(q, s) /\ IsPrefix(q, t)
  BY DEF CommonPrefixes, Prefixes
<1>2. << >> \in C
  <2>1. << >> = SubSeq(s, 1, 0)
    OBVIOUS
  <2>2. << >> \in Prefixes(s)
    BY <2>1 DEF Prefixes
  <2>3. IsPrefix(<< >>, s) /\ IsPrefix(<< >>, t)
    BY DEF IsPrefix
  <2> QED
    BY <2>2, <2>3 DEF CommonPrefixes
<1>3. \A q \in C : q \in Seq(X) /\ Len(q) <= Len(s) /\ Len(q) <= Len(t)
  <2> TAKE q \in C
  <2>1. PICK r \in {s, t} : \E i \in 0..Len(r) : q = SubSeq(r, 1, i)
    BY <1>1
  <2>2. r \in Seq(X)
    OBVIOUS
  <2>3. q \in Seq(X)
    BY <2>1, <2>2
  <2>4. Len(q) <= Len(s) /\ Len(q) <= Len(t)
    BY <1>1 DEF IsPrefix
  <2> QED
    BY <2>3, <2>4
<1> DEFINE L == {Len(q) : q \in C}
<1> HIDE DEF C
<1>4. L \in SUBSET Nat /\ L # {} /\ \A x \in L : x <= Len(s)
  <2>1. \A q \in C : Len(q) \in Nat /\ Len(q) <= Len(s)
    BY <1>3
  <2>2. Len(<< >>) \in L
    BY <1>2
  <2> QED
    BY <2>1, <2>2
<1>5. Len(s) \in Nat
  OBVIOUS
<1>6. PICK n \in L : \A m \in L : m <= n
  BY <1>4, <1>5, MdGreatest
<1>7. \E longest \in C : \A other \in C : Len(other) <= Len(longest)
  BY <1>6
<1>8. p \in C
  BY <1>7 DEF LongestCommonPrefix, C
<1> HIDE DEF p
<1>9. p \in Seq(X) /\ Len(p) <= Len(s) /\ Len(p) <= Len(t)
  BY <1>8, <1>3
<1>10. IsPrefix(p, s) /\ IsPrefix(p, t)
  BY <1>8, <1>1
<1>11. \A i \in 1..Len(p) : p[i] = s[i] /\ p[i] = t[i]
  <2> TAKE i \in 1..Len(p)
  <2>1. SubSeq(p, 1, Len(p)) = SubSeq(s, 1, Len(p)) /\ SubSeq(p, 1, Len(p)) = SubSeq(t, 1, Len(p))
    BY <1>10, <1>9 DEF IsPrefix
  <2>2. SubSeq(p, 1, Len(p))[i] = p[i] /\ SubSeq(s, 1, Len(p))[i] = s[i]
         /\ SubSeq(t, 1, Len(p))[i] = t[i]
    BY <1>9
  <2> QED
    BY <2>1, <2>2
<1> QED
  BY <1>9, <1>11 DEF p

-----------------------------------------------------------------------------
(***************************************************************************)
(* Types. *)

Promises   == [key : Keys, code : Codes]
PromiseMaps == UNION {[S -> Promises] : S \in SUBSET Nat}

\* A block, or the elements made of one, that spell a version of the source.
Spelt(b) == \/ b.stable = << >> /\ b.unstable = PlainTokens(b.code)
            \/ b.stable = StableTokens(b.code) /\ b.unstable = UnstableTokens(b.code)

Drawn(d) == \/ /\ d.stableCount = 0 /\ d.unstable = PlainTokens(d.code)
               /\ d.spans = d.unstable
            \/ /\ d.stableCount = Len(StableTokens(d.code))
               /\ d.unstable = UnstableTokens(d.code)
               /\ d.spans = StableTokens(d.code) \o d.unstable

SpeltBlocks == {b \in Blocks : Spelt(b)}
DrawnBlocks == {d \in DomBlocks : Drawn(d)}

Views == [text : Codes \cup {None}, fetch : Int, result : SpeltBlocks \cup {None},
          cached : SpeltBlocks \cup {None}, dom : DrawnBlocks \cup {None}]

Disposals == [type : {"dispose"}, key : Keys]
Empties   == [type : {"empty"}, key : Keys]
Deltas    == [type : {"highlight"}, id : Nat, key : Keys, reset : BOOLEAN,
              stable : Seq(Tokens), unstable : Seq(Tokens)]
Refusals  == [type : {"superseded", "error"}, id : Nat, key : Keys]

Posts   == HighlightRequests \cup Disposals
Jobs    == Posts \cup Empties
Answers == Deltas \cup Refusals

Mains == [disabled : BOOLEAN, nextID : Nat, pending : PromiseMaps,
          keys : SUBSET Keys, latest : [Keys -> Nat],
          active : [Keys -> HighlightRequests \cup {None}],
          queued : [Keys -> HighlightRequests \cup {None}],
          states : [Keys -> TokenStates \cup {None}],
          views : [Keys -> Views], out : Seq(Posts)]

WorkerStates == [jobs : Seq(Jobs), running : HighlightRequests \cup {None},
                 streams : [Keys -> {c \in Codes : ~c.complete} \cup {None}],
                 out : Seq(Answers)]

(***************************************************************************)
(* The transport. *)

\* Requests and answers on a port or in the worker's queue.
IsHeld(x) == x.type \notin {"dispose", "empty"}
Held(s)   == {i \in DOMAIN s : IsHeld(s[i])}
Items(s)  == {s[i] : i \in Held(s)}
Ids(s)    == {r.id : r \in Items(s)}
Distinct(s) == \A i, j \in Held(s) : s[i].id = s[j].id => i = j
RunningIds(w) == IF w.running = None THEN {} ELSE {w.running.id}

\* Nothing is on its way twice.
OneEach(m, tw, w, tm) ==
  /\ Distinct(tw) /\ Distinct(w.jobs) /\ Distinct(tm)
  /\ Ids(tw) \cap Ids(w.jobs) = {} /\ Ids(tw) \cap Ids(tm) = {}
  /\ Ids(w.jobs) \cap Ids(tm) = {}
  /\ RunningIds(w) \cap (Ids(tw) \cup Ids(w.jobs) \cup Ids(tm)) = {}
  /\ Ids(tw) \cup Ids(w.jobs) \cup Ids(tm) \cup RunningIds(w) \subseteq 1..m.nextID

\* A promise is that of the active or of the waiting request of its key.
Asks(m, r, k) ==
  /\ r.key = k /\ r.id \in DOMAIN m.pending
  /\ m.pending[r.id] = [key |-> k, code |-> r.code]

Slotted(m, k) ==
  /\ m.active[k] # None => Asks(m, m.active[k], k) /\ k \in m.keys
  /\ m.queued[k] # None => /\ m.active[k] # None /\ Asks(m, m.queued[k], k)
                           /\ m.active[k].id < m.queued[k].id

Matched(m) ==
  \A id \in DOMAIN m.pending :
    LET k == m.pending[id].key
    IN \/ m.active[k] # None /\ m.active[k].id = id
       \/ m.queued[k] # None /\ m.queued[k].id = id

\* A request on its way that still matters is the active one, an answer is one to it.
Live(m, r) == m.active[r.key] = r
AnswersActive(m, a) == m.active[a.key] # None /\ m.active[a.key].id = a.id

Known(m, tw, w, tm) ==
  /\ \A r \in Items(tw) \cup Items(w.jobs) : r.id \in DOMAIN m.pending => Live(m, r)
  /\ w.running # None => (w.running.id \in DOMAIN m.pending => Live(m, w.running))
  /\ \A r \in Items(tm) : r.id \in DOMAIN m.pending => AnswersActive(m, r)

Present(m, tw, w, tm) ==
  \A k \in Keys : m.active[k] # None =>
    m.active[k].id \in Ids(tw) \cup Ids(w.jobs) \cup RunningIds(w) \cup Ids(tm)

\* Without a worker nothing is on its way.
Alone(m, tw, w, tm) ==
  ~ WorkerUp(m) => /\ tw = << >> /\ w = IdleWorker /\ tm = << >>
                   /\ \A k \in Keys : m.active[k] = None

TransportOK(m, tw, w, tm) ==
  /\ \A k \in Keys : Slotted(m, k)
  /\ Matched(m)
  /\ OneEach(m, tw, w, tm)
  /\ Known(m, tw, w, tm)
  /\ Present(m, tw, w, tm)
  /\ Alone(m, tw, w, tm)

\* What is on its way has its type.
WayTyped(tw, w, tm) == tw \in Seq(Posts) /\ w \in WorkerStates /\ tm \in Seq(Answers)

(***************************************************************************)
(* Deltas. *)

DisposalIn(s, k) == \E i \in DOMAIN s : s[i].type = "dispose" /\ s[i].key = k
DisposalAfter(s, i, k) == \E j \in DOMAIN s : j > i /\ s[j].type = "dispose" /\ s[j].key = k

\* A request that is not live has a disposal behind it, a live one has none.
Ordered(m, tw, w, k) ==
  /\ \A i \in DOMAIN tw : tw[i].type = "highlight" /\ tw[i].key = k =>
       (Live(m, tw[i]) <=> ~ DisposalAfter(tw, i, k))
  /\ \A i \in DOMAIN w.jobs : w.jobs[i].type = "highlight" /\ w.jobs[i].key = k =>
       /\ ~ DisposalAfter(w.jobs, i, k)
       /\ Live(m, w.jobs[i]) <=> ~ DisposalIn(tw, k)
       /\ \A j \in DOMAIN w.jobs : w.jobs[j].type = "highlight" /\ w.jobs[j].key = k => i = j
  /\ w.running # None /\ w.running.key = k =>
       (Live(m, w.running) <=> ~ (DisposalIn(tw, k) \/ DisposalIn(w.jobs, k)))

Undisposed(tw, w, k) == ~ DisposalIn(tw, k) /\ ~ DisposalIn(w.jobs, k)

LiveAnswer(m, tm, i, k) ==
  i \in DOMAIN tm /\ tm[i].key = k /\ m.active[k] # None /\ tm[i].id = m.active[k].id

Continues(m, w, k) ==
  w.streams[k] # None => /\ m.states[k] # None
                         /\ m.states[k].stable = StableTokens(w.streams[k])

Fits(m, w, a, k) ==
  LET c == m.active[k].code
  IN /\ a.unstable = UnstableTokens(c)
     /\ a.reset => a.stable = StableTokens(c)
     /\ ~ a.reset => /\ m.states[k] # None
                     /\ m.states[k].stable \o a.stable = StableTokens(c)
     /\ w.streams[k] = IF c.complete THEN None ELSE c

InStep(m, tw, w, tm, k) ==
  /\ Ordered(m, tw, w, k)
  /\ \A i \in DOMAIN tm : LiveAnswer(m, tm, i, k) =>
       Undisposed(tw, w, k) /\ (tm[i].type = "highlight" => Fits(m, w, tm[i], k))
  /\ Undisposed(tw, w, k) /\ (\A i \in DOMAIN tm : LiveAnswer(m, tm, i, k) => tm[i].type # "highlight")
       => Continues(m, w, k)

\* The requests of a key are numbered in the order they were made.
Numbered(m, k) ==
  /\ m.states[k] # None => /\ m.states[k].id <= m.nextID
                           /\ m.active[k] # None => m.states[k].id < m.active[k].id
  /\ m.latest[k] <= m.nextID
  /\ m.active[k] # None => m.latest[k] = IF m.queued[k] = None THEN m.active[k].id
                                         ELSE m.queued[k].id

(***************************************************************************)
(* Views. *)

ViewOK(m, k) ==
  LET view == m.views[k]
  IN /\ view.fetch # 0 => /\ view.text # None
                          /\ view.fetch \in DOMAIN m.pending
                          /\ m.pending[view.fetch] = [key |-> k, code |-> view.text]
     /\ view.dom # None => /\ view.text # None
                           /\ StartsWith(view.text, view.dom.code)
                           /\ view.fetch = 0 => view.dom.code = view.text

(***************************************************************************)
(* What a step of the page may do to promises and views. *)

MainOK(m) == m \in Mains /\ DOMAIN m.pending \subseteq 1..m.nextID

\* The promises `ids' are settled, the others stand.
Loses(m, n, ids) ==
  /\ DOMAIN n.pending = DOMAIN m.pending \ ids
  /\ \A i \in DOMAIN n.pending : n.pending[i] = m.pending[i]

\* A view that was right stays right, one whose promise is not settled stays as it is.
ViewsKeep(m, n) ==
  \A j \in Keys :
    /\ ViewOK(m, j) => ViewOK(n, j)
    /\ n.views[j].text = m.views[j].text
    /\ (m.views[j].fetch \notin DOMAIN m.pending \/ m.views[j].fetch \in DOMAIN n.pending) =>
         n.views[j].fetch = m.views[j].fetch /\ n.views[j].dom = m.views[j].dom

SameRest(m, n) ==
  /\ n.disabled = m.disabled /\ n.nextID = m.nextID /\ n.keys = m.keys
  /\ n.latest = m.latest /\ n.active = m.active /\ n.queued = m.queued
  /\ n.states = m.states /\ n.out = m.out

\* The block's promises are settled, and nothing is left of it.
Disposed(m, n, k) ==
  /\ MainOK(n) /\ ViewsKeep(m, n)
  /\ Loses(m, n, {id \in DOMAIN m.pending : m.pending[id].key = k})
  /\ n.disabled = m.disabled /\ n.nextID = m.nextID /\ n.keys = m.keys \ {k}
  /\ n.latest = [m.latest EXCEPT ![k] = 0]
  /\ n.active = [m.active EXCEPT ![k] = None]
  /\ n.queued = [m.queued EXCEPT ![k] = None]
  /\ n.states = [m.states EXCEPT ![k] = None]
  /\ n.out = IF WorkerUp(m) THEN Append(m.out, [type |-> "dispose", key |-> k])
             ELSE m.out

\* The request is posted, or waits in the place of the one that did.
Sent(m, n, req) ==
  LET k    == req.key
      gone == {r.id : r \in {m.queued[k]} \ {None}} \cap DOMAIN m.pending
  IN /\ MainOK(n) /\ ViewsKeep(m, n)
     /\ n.disabled = m.disabled /\ n.nextID = m.nextID /\ n.keys = m.keys
     /\ n.latest = m.latest /\ n.states = m.states
     /\ m.active[k] = None =>
          /\ Loses(m, n, {}) /\ n.queued = m.queued
          /\ n.active = [m.active EXCEPT ![k] = req] /\ n.out = Append(m.out, req)
     /\ m.active[k] # None =>
          /\ Loses(m, n, gone) /\ n.active = m.active
          /\ n.queued = [m.queued EXCEPT ![k] = req] /\ n.out = m.out

\* The active request is done with, and the waiting one takes its place.
Completed(m, n, k, id) ==
  /\ MainOK(n) /\ n.views = m.views /\ n.pending = m.pending
  /\ n.disabled = m.disabled /\ n.nextID = m.nextID /\ n.keys = m.keys
  /\ n.latest = m.latest /\ n.states = m.states
  /\ IF m.active[k] = None \/ m.active[k].id # id
     THEN n.active = m.active /\ n.queued = m.queued /\ n.out = m.out
     ELSE /\ n.active = [m.active EXCEPT ![k] = m.queued[k]]
          /\ n.queued = [m.queued EXCEPT ![k] = None]
          /\ n.out = IF m.queued[k] = None THEN m.out ELSE Append(m.out, m.queued[k])

\* The answer of request `id' is taken from the port.
Taken(m, b, n, tm, k, id) ==
  /\ tm # << >> /\ k = Head(tm).key /\ id = Head(tm).id
  /\ MainOK(b) /\ Loses(m, b, {id} \cap DOMAIN m.pending)
  /\ b.active = m.active /\ b.queued = m.queued /\ b.nextID = m.nextID
  /\ b.disabled = m.disabled
  /\ \/ b.keys = m.keys
     \/ b.keys = m.keys \ {k} /\ m.queued[k] = None /\ id \in DOMAIN m.pending
  /\ Completed(b, n, k, id)

Disposal(k) == [type |-> "dispose", key |-> k]
Request(id, k, c) == [type |-> "highlight", id |-> id, key |-> k, code |-> c]

\* The state before a block asks for its highlighting, and when its promise is noted.
Asking(m, k) == [m EXCEPT !.nextID = m.nextID + 1, !.latest[k] = m.nextID + 1,
                          !.keys = @ \cup {k}, !.views[k].fetch = m.nextID + 1]
Noted(m, k, c) == [m EXCEPT !.pending = Recorded(@, m.nextID, [key |-> k, code |-> c])]

-----------------------------------------------------------------------------
(* Tokens and blocks. *)

\* The tokens of a version are sequences of tokens, the stable ones line by line.
LEMMA MdTokensTyped ==
  ASSUME NEW c \in Codes
  PROVE  /\ StableTokens(c) \in Seq(Tokens) /\ UnstableTokens(c) \in Seq(Tokens)
         /\ PlainTokens(c) \in Seq(Tokens)
         /\ Len(StableTokens(c)) = IF c.complete THEN c.n ELSE c.n - 1
         /\ \A i \in 1..Len(StableTokens(c)) : StableTokens(c)[i] = <<c.v, i>>
<1>1. c.v \in Nat /\ c.n \in Nat \ {0} /\ c.complete \in BOOLEAN
  BY MdCodesAssumption
<1> DEFINE n == IF c.complete THEN c.n ELSE c.n - 1
<1>2. n \in Nat
  BY <1>1
<1>3. <<c.v, c.n, "tail">> \in Tokens /\ <<c.v, c.n, "plain">> \in Tokens
  BY <1>1 DEF Tokens
<1>4. \A i \in 1..n : <<c.v, i>> \in Tokens
  BY <1>1, <1>2 DEF Tokens
<1> HIDE DEF n
<1>5. [i \in 1..n |-> <<c.v, i>>] \in Seq(Tokens)
  BY <1>2, <1>4
<1>6. StableTokens(c) = [i \in 1..n |-> <<c.v, i>>]
  BY DEF StableTokens, n
<1>7. Len(StableTokens(c)) = n /\ \A i \in 1..n : StableTokens(c)[i] = <<c.v, i>>
  BY <1>2, <1>6, <1>5
<1>8. UnstableTokens(c) \in Seq(Tokens) /\ PlainTokens(c) \in Seq(Tokens)
  BY <1>3, <1>1 DEF UnstableTokens, PlainTokens
<1> QED
  BY <1>5, <1>6, <1>7, <1>8 DEF n

\* The tokens that no longer change stay what they are when the text grows.
LEMMA MdStableGrows ==
  ASSUME NEW a \in Codes, NEW b \in Codes, StartsWith(a, b)
  PROVE  /\ Len(StableTokens(b)) <= Len(StableTokens(a))
         /\ \A i \in 1..Len(StableTokens(b)) : StableTokens(a)[i] = StableTokens(b)[i]
<1>1. a.n \in Nat \ {0} /\ b.n \in Nat \ {0}
      /\ a.complete \in BOOLEAN /\ b.complete \in BOOLEAN
  BY MdCodesAssumption
<1>2. a.v = b.v /\ (b.complete => a.complete /\ a.n = b.n) /\ (~b.complete => a.n >= b.n)
  BY DEF StartsWith
<1>3. Len(StableTokens(b)) <= Len(StableTokens(a))
  BY <1>1, <1>2, MdTokensTyped
<1>4. Len(StableTokens(b)) \in Nat /\ Len(StableTokens(a)) \in Nat
  BY MdTokensTyped
<1>5. ASSUME NEW i \in 1..Len(StableTokens(b))
      PROVE  StableTokens(a)[i] = StableTokens(b)[i]
  <2>1. i \in 1..Len(StableTokens(a))
    BY <1>3, <1>4
  <2>2. StableTokens(a)[i] = <<a.v, i>> /\ StableTokens(b)[i] = <<b.v, i>>
    BY <2>1, MdTokensTyped
  <2> QED
    BY <2>2, <1>2
<1> QED
  BY <1>3, <1>5

\* A version starts with itself.
LEMMA MdStartsWithItself ==
  ASSUME NEW c \in Codes
  PROVE  StartsWith(c, c)
  BY MdCodesAssumption DEF StartsWith

\* What the page has and the delta after it make up the tokens of the version.
LEMMA MdDeltaFits ==
  ASSUME NEW a \in Codes, NEW b \in Codes, StartsWith(a, b)
  PROVE  StableTokens(b) \o SubSeq(StableTokens(a), Len(StableTokens(b)) + 1,
                                   Len(StableTokens(a)))
           = StableTokens(a)
<1> DEFINE s == StableTokens(a)
           t == StableTokens(b)
<1>1. s \in Seq(Tokens) /\ t \in Seq(Tokens)
  BY MdTokensTyped
<1>2. Len(t) <= Len(s) /\ \A i \in 1..Len(t) : s[i] = t[i]
  BY MdStableGrows
<1> HIDE DEF s, t
<1>3. t \o SubSeq(s, Len(t) + 1, Len(s)) = s
  <2> DEFINE u == SubSeq(s, Len(t) + 1, Len(s))
  <2>1. u \in Seq(Tokens) /\ Len(u) = Len(s) - Len(t)
        /\ \A i \in 1..Len(u) : u[i] = s[Len(t) + i]
    BY <1>1, <1>2
  <2> HIDE DEF u
  <2>2. t \o u \in Seq(Tokens) /\ Len(t \o u) = Len(s)
    BY <1>1, <1>2, <2>1
  <2>3. \A i \in 1..Len(s) : (t \o u)[i] = s[i]
    <3> TAKE i \in 1..Len(s)
    <3>1. CASE i <= Len(t)
      BY <3>1, <1>1, <1>2, <2>1
    <3>2. CASE i > Len(t)
      <4>1. i - Len(t) \in 1..Len(u)
        BY <3>2, <1>1, <2>1
      <4>2. (t \o u)[i] = u[i - Len(t)]
        BY <3>2, <1>1, <2>1
      <4>3. u[i - Len(t)] = s[Len(t) + (i - Len(t))]
        BY <4>1, <2>1
      <4> QED
        BY <4>2, <4>3, <1>1
    <3>3. i <= Len(t) \/ i > Len(t)
      BY <1>1
    <3> QED
      BY <3>1, <3>2, <3>3
  <2>4. t \o u = s
    BY <1>1, <2>2, <2>3, SeqEqual
  <2> QED
    BY <2>4 DEF u
<1> QED
  BY <1>3 DEF s, t

\* The bare text of a version is a block that spells it.
LEMMA MdPlainTyped ==
  ASSUME NEW c \in Codes
  PROVE  /\ PlainBlock(c) \in SpeltBlocks
         /\ PlainBlock(c).code = c /\ PlainBlock(c) # None
<1>1. PlainTokens(c) \in Seq(Tokens)
  BY MdTokensTyped
<1>2. PlainBlock(c) = [code |-> c, gen |-> 0, stable |-> << >>, unstable |-> PlainTokens(c)]
  BY DEF PlainBlock, Rendered
<1>3. PlainBlock(c) \in Blocks
  BY <1>1, <1>2 DEF Blocks
<1> QED
  BY <1>2, <1>3, MdNoneAssumption DEF Spelt, SpeltBlocks

-----------------------------------------------------------------------------
(* The elements on the page. *)

\* Whatever is kept of the elements, the new ones spell the new block.
LEMMA MdUpdate ==
  ASSUME NEW d \in DrawnBlocks \cup {None}, NEW b \in SpeltBlocks
  PROVE  LET e == UpdateCodeBlock(d, b)
         IN e \in DrawnBlocks /\ e # None /\ e.code = b.code
<1> DEFINE e     == UpdateCodeBlock(d, b)
           whole == b.stable \o b.unstable
<1>0. /\ b.code \in Codes /\ b.gen \in Nat
      /\ b.stable \in Seq(Tokens) /\ b.unstable \in Seq(Tokens)
      /\ Len(b.stable) \in Nat /\ Len(b.unstable) \in Nat
  BY DEF Blocks, SpeltBlocks
<1>00. /\ whole \in Seq(Tokens) /\ Len(whole) = Len(b.stable) + Len(b.unstable)
       /\ \A i \in 1..Len(whole) :
            whole[i] = IF i <= Len(b.stable) THEN b.stable[i]
                       ELSE b.unstable[i - Len(b.stable)]
  <2>1. b.stable \in Seq(Tokens) /\ b.unstable \in Seq(Tokens)
    BY <1>0
  <2>2. \A i \in 1..Len(b.stable) + Len(b.unstable) :
          whole[i] = IF i <= Len(b.stable) THEN b.stable[i]
                     ELSE b.unstable[i - Len(b.stable)]
    BY <2>1, ConcatProperties
  <2>3. whole \in Seq(Tokens) /\ Len(whole) = Len(b.stable) + Len(b.unstable)
    BY <2>1, ConcatProperties
  <2> QED
    BY <2>2, <2>3
<1>1. SUFFICES e = [code |-> b.code, gen |-> b.gen, stableCount |-> Len(b.stable),
                    unstable |-> b.unstable, spans |-> whole]
  <2>1. ASSUME e = [code |-> b.code, gen |-> b.gen, stableCount |-> Len(b.stable),
                    unstable |-> b.unstable, spans |-> whole]
        PROVE  e \in DrawnBlocks /\ e # None /\ e.code = b.code
    <3>1. e \in DomBlocks
      BY <2>1, <1>0, <1>00 DEF DomBlocks
    <3>2. CASE b.stable = << >> /\ b.unstable = PlainTokens(b.code)
      <4>1. whole = b.unstable /\ Len(b.stable) = 0
        BY <3>2, <1>0
      <4> HIDE DEF e, whole
      <4> QED
        BY <3>1, <3>2, <2>1, <4>1, MdNoneAssumption DEF Drawn, DrawnBlocks
    <3>3. CASE b.stable = StableTokens(b.code) /\ b.unstable = UnstableTokens(b.code)
      <4>1. /\ e.stableCount = Len(StableTokens(e.code)) /\ e.code = b.code
            /\ e.unstable = UnstableTokens(e.code)
            /\ e.spans = StableTokens(e.code) \o e.unstable
        BY <3>3, <2>1
      <4> HIDE DEF e, whole
      <4>2. e \in DrawnBlocks
        BY <3>1, <4>1 DEF Drawn, DrawnBlocks
      <4> QED
        BY <3>1, <4>1, <4>2, MdNoneAssumption
    <3> QED
      BY <3>2, <3>3 DEF Spelt, SpeltBlocks
  <2> QED
    BY <2>1
<1>2. CASE d = None
  BY <1>2 DEF UpdateCodeBlock
<1>3. CASE d # None
  <2> DEFINE reset  == ShouldResetCodeTokens(d, b)
             stable == IF reset THEN 0 ELSE d.stableCount
             prior  == IF reset THEN << >> ELSE d.unstable
             rest   == SubSeq(b.stable, stable + 1, Len(b.stable))
             tail   == rest \o b.unstable
             common == LongestCommonPrefix({prior, tail})
             keep   == stable + Len(common)
             more   == SubSeq(tail, keep - stable + 1, Len(tail))
             kept   == SubSeq(d.spans, 1, keep)
  <2>1. e = [code |-> b.code, gen |-> b.gen, stableCount |-> Len(b.stable),
             unstable |-> b.unstable, spans |-> kept \o more]
    BY <1>3 DEF UpdateCodeBlock
  <2>2. /\ d.code \in Codes /\ d.stableCount \in Nat /\ Drawn(d)
        /\ d.unstable \in Seq(Tokens) /\ d.spans \in Seq(Tokens)
    BY <1>3 DEF DomBlocks, DrawnBlocks
  <2>3. /\ ~reset => d.stableCount <= Len(b.stable) /\ StartsWith(b.code, d.code)
        /\ stable \in Nat /\ stable <= Len(b.stable)
    BY <2>2, <1>0 DEF ShouldResetCodeTokens
  <2>4. /\ prior \in Seq(Tokens)
        /\ reset => prior = << >> /\ stable = 0
        /\ ~reset => prior = d.unstable /\ stable = d.stableCount
    BY <2>2
  <2> HIDE DEF e, whole, reset, stable, prior
  <2>5. /\ rest \in Seq(Tokens) /\ Len(rest) = Len(b.stable) - stable
        /\ \A i \in 1..Len(rest) : rest[i] = b.stable[stable + i]
    BY <1>0, <2>3
  <2> HIDE DEF rest
  <2>6. /\ tail \in Seq(Tokens) /\ Len(tail) = Len(rest) + Len(b.unstable)
        /\ \A i \in 1..Len(tail) :
             tail[i] = IF i <= Len(rest) THEN rest[i] ELSE b.unstable[i - Len(rest)]
    <3>1. rest \in Seq(Tokens) /\ b.unstable \in Seq(Tokens)
      BY <1>0, <2>5
    <3>2. \A i \in 1..Len(rest) + Len(b.unstable) :
            tail[i] = IF i <= Len(rest) THEN rest[i] ELSE b.unstable[i - Len(rest)]
      BY <3>1, ConcatProperties
    <3>3. tail \in Seq(Tokens) /\ Len(tail) = Len(rest) + Len(b.unstable)
      BY <3>1, ConcatProperties
    <3> QED
      BY <3>2, <3>3
  <2> HIDE DEF tail
  <2>7. /\ common \in Seq(Tokens) /\ Len(common) <= Len(prior) /\ Len(common) <= Len(tail)
        /\ \A i \in 1..Len(common) : common[i] = prior[i] /\ common[i] = tail[i]
    <3>1. prior \in Seq(Tokens) /\ tail \in Seq(Tokens)
      BY <2>4, <2>6
    <3> QED
      BY <3>1, MdCommonPrefix
  <2> HIDE DEF common
  <2>8. /\ Len(tail) = Len(whole) - stable /\ Len(tail) \in Nat /\ Len(rest) \in Nat
        /\ Len(whole) \in Nat
    <3>1. Len(tail) \in Nat /\ Len(rest) \in Nat /\ Len(whole) \in Nat
      BY <2>5, <2>6, <1>00, LenProperties
    <3>2. Len(tail) = (Len(b.stable) - stable) + Len(b.unstable)
      BY <2>5, <2>6
    <3>3. Len(whole) = Len(b.stable) + Len(b.unstable)
      BY <1>00
    <3>4. stable \in Nat /\ Len(b.stable) \in Nat /\ Len(b.unstable) \in Nat
      BY <1>0, <2>3
    <3>5. Len(tail) = Len(whole) - stable
      BY <3>2, <3>3, <3>4
    <3> QED
      BY <3>1, <3>5
  <2>9. ASSUME NEW i \in 1..Len(tail)
        PROVE  tail[i] = whole[stable + i]
    <3>1. stable + i \in 1..Len(whole)
      BY <2>8, <2>3
    <3>2. CASE i <= Len(rest)
      <4>1. tail[i] = b.stable[stable + i]
        BY <3>2, <2>5, <2>6, <2>8
      <4>2. stable + i <= Len(b.stable)
        BY <3>2, <2>5, <2>3, <1>0
      <4> QED
        BY <3>1, <4>1, <4>2, <1>00
    <3>3. CASE i > Len(rest)
      <4>1. tail[i] = b.unstable[i - Len(rest)]
        BY <3>3, <2>6, <2>8
      <4>2. ~ (stable + i <= Len(b.stable)) /\ i - Len(rest) = (stable + i) - Len(b.stable)
        BY <3>3, <2>5, <2>3, <1>0
      <4>3. whole[stable + i] = b.unstable[(stable + i) - Len(b.stable)]
        BY <3>1, <4>2, <1>00
      <4> QED
        BY <4>1, <4>2, <4>3
    <3> QED
      BY <3>2, <3>3, <2>5, <2>3, <1>0
  <2>10. /\ Len(common) \in Nat /\ keep \in Nat /\ keep - stable = Len(common)
         /\ keep <= Len(whole)
    BY <2>3, <2>7, <2>8
  <2>11. /\ keep <= Len(d.spans)
         /\ \A i \in 1..keep : d.spans[i] = whole[i]
    <3>1. CASE reset
      <4>1. keep = 0
        BY <3>1, <2>4, <2>7, <2>10
      <4> QED
        BY <4>1, <2>2
    <3>2. CASE ~reset
      <4>1. /\ Len(d.spans) = stable + Len(prior)
            /\ \A i \in 1..stable : d.spans[i] = b.stable[i]
            /\ \A i \in 1..Len(prior) : d.spans[stable + i] = prior[i]
        <5>1. CASE d.stableCount = 0 /\ d.unstable = PlainTokens(d.code)
                   /\ d.spans = d.unstable
          BY <5>1, <3>2, <2>4, <2>2
        <5>2. CASE /\ d.stableCount = Len(StableTokens(d.code))
                   /\ d.unstable = UnstableTokens(d.code)
                   /\ d.spans = StableTokens(d.code) \o d.unstable
          <6> DEFINE old == StableTokens(d.code)
          <6>1. old \in Seq(Tokens) /\ Len(old) = stable
            BY <5>2, <3>2, <2>4, <2>2, MdTokensTyped
          <6>2. \A i \in 1..stable : old[i] = b.stable[i]
            <7>1. CASE b.stable = << >>
              BY <7>1, <2>3, <1>0
            <7>2. CASE b.stable = StableTokens(b.code)
              BY <7>2, <3>2, <2>3, <2>2, <1>0, <6>1, MdStableGrows
            <7> QED
              BY <7>1, <7>2 DEF Spelt, SpeltBlocks
          <6> HIDE DEF old
          <6>3. d.spans = old \o prior /\ prior \in Seq(Tokens)
            BY <5>2, <3>2, <2>4, <2>2 DEF old
          <6>4. Len(d.spans) = stable + Len(prior)
            BY <6>1, <6>3, ConcatProperties
          <6>5. \A i \in 1..stable : d.spans[i] = old[i]
            BY <6>1, <6>3
          <6>6. \A i \in 1..Len(prior) : d.spans[stable + i] = prior[i]
            BY <6>1, <6>3
          <6> QED
            BY <6>2, <6>4, <6>5, <6>6
        <5> QED
          BY <5>1, <5>2, <2>2 DEF Drawn
      <4>2. keep <= Len(d.spans)
        BY <4>1, <2>7, <2>3, <2>4
      <4>3. ASSUME NEW i \in 1..keep
            PROVE  d.spans[i] = whole[i]
        <5>1. i \in 1..Len(whole)
          BY <2>10, <2>8
        <5>2. CASE i <= stable
          <6>1. d.spans[i] = b.stable[i]
            BY <5>2, <4>1, <2>3
          <6>2. i <= Len(b.stable)
            BY <5>2, <2>3, <1>0
          <6>3. whole[i] = b.stable[i]
            BY <5>1, <6>2, <1>00
          <6> QED
            BY <6>1, <6>3
        <5>3. CASE i > stable
          <6>1. i - stable \in 1..Len(common) /\ i - stable \in 1..Len(prior)
                /\ i - stable \in 1..Len(tail) /\ stable + (i - stable) = i
            BY <5>3, <2>10, <2>7, <2>3, <2>4, <2>8
          <6>2. d.spans[stable + (i - stable)] = prior[i - stable]
            BY <6>1, <4>1
          <6>3. prior[i - stable] = tail[i - stable]
            BY <6>1, <2>7
          <6>4. tail[i - stable] = whole[stable + (i - stable)]
            BY <6>1, <2>9
          <6> QED
            BY <6>1, <6>2, <6>3, <6>4
        <5> QED
          BY <5>2, <5>3, <2>3
      <4> QED
        BY <4>2, <4>3
    <3> QED
      BY <3>1, <3>2
  <2> HIDE DEF keep
  <2>12. /\ kept \in Seq(Tokens) /\ Len(kept) = keep
         /\ \A i \in 1..keep : kept[i] = d.spans[i]
    BY <2>2, <2>10, <2>11
  <2>13. /\ more \in Seq(Tokens) /\ Len(more) = Len(tail) - Len(common)
         /\ \A i \in 1..Len(more) : more[i] = tail[Len(common) + i]
    <3>1. more = SubSeq(tail, Len(common) + 1, Len(tail))
      BY <2>10
    <3>2. \A i \in Len(common) + 1..Len(tail) : tail[i] \in Tokens
      BY <2>6, <2>8, <2>10
    <3>3. Len(common) + 1 \in Int /\ Len(tail) \in Int /\ Len(common) <= Len(tail)
      BY <2>7, <2>8, <2>10
    <3> HIDE DEF more
    <3>4. /\ more \in Seq(Tokens)
          /\ Len(more) = IF Len(common) + 1 <= Len(tail)
                         THEN Len(tail) - (Len(common) + 1) + 1 ELSE 0
          /\ \A i \in 1..Len(tail) - (Len(common) + 1) + 1 :
               more[i] = tail[(Len(common) + 1) + i - 1]
      BY <3>1, <3>2, <3>3, SubSeqProperties
    <3>5. Len(more) = Len(tail) - Len(common)
      BY <3>3, <3>4, <2>8, <2>10
    <3>6. ASSUME NEW i \in 1..Len(more) PROVE more[i] = tail[Len(common) + i]
      <4>1. i \in 1..Len(tail) - (Len(common) + 1) + 1
            /\ (Len(common) + 1) + i - 1 = Len(common) + i
        BY <3>5, <2>8, <2>10
      <4> QED
        BY <4>1, <3>4
    <3> QED
      BY <3>4, <3>5, <3>6
  <2> HIDE DEF kept, more
  <2>14. kept \o more \in Seq(Tokens) /\ Len(kept \o more) = Len(whole)
    <3>1. kept \o more \in Seq(Tokens) /\ Len(kept \o more) = Len(kept) + Len(more)
      BY <2>12, <2>13, ConcatProperties
    <3>2. Len(kept) + Len(more) = Len(whole)
      <4>1. Len(kept) = keep /\ Len(more) = Len(tail) - Len(common)
        BY <2>12, <2>13
      <4>2. keep - stable = Len(common) /\ Len(tail) = Len(whole) - stable
        BY <2>8, <2>10
      <4>3. /\ keep \in Nat /\ stable \in Nat /\ Len(common) \in Nat
            /\ Len(tail) \in Nat /\ Len(whole) \in Nat
        BY <2>3, <2>8, <2>10
      <4> QED
        BY <4>1, <4>2, <4>3
    <3> QED
      BY <3>1, <3>2
  <2>15. ASSUME NEW i \in 1..Len(whole)
         PROVE  (kept \o more)[i] = whole[i]
    <3>1. CASE i <= keep
      <4>1. (kept \o more)[i] = kept[i]
        BY <3>1, <2>12, <2>13, <2>14, <2>10
      <4> QED
        BY <3>1, <4>1, <2>12, <2>11, <2>10
    <3>2. CASE i > keep
      <4>1. (kept \o more)[i] = more[i - keep]
        BY <3>2, <2>12, <2>13, <2>14, <2>10
      <4>2. i - keep \in 1..Len(more) /\ Len(common) + (i - keep) \in 1..Len(tail)
            /\ stable + (Len(common) + (i - keep)) = i
        <5>1. Len(more) \in Nat /\ i \in Nat /\ i <= Len(whole)
          BY <2>13, <2>8
        <5> QED
          BY <5>1, <3>2, <2>13, <2>8, <2>10, <2>3 DEF keep
      <4>3. more[i - keep] = tail[Len(common) + (i - keep)]
        BY <4>2, <2>13
      <4>4. tail[Len(common) + (i - keep)] = whole[stable + (Len(common) + (i - keep))]
        BY <4>2, <2>9
      <4> QED
        BY <4>1, <4>2, <4>3, <4>4
    <3>3. i <= keep \/ i > keep
      BY <2>10, <2>8
    <3> QED
      BY <3>1, <3>2, <3>3
  <2>16. kept \o more = whole
    BY <2>14, <2>15, <1>00, SeqEqual
  <2> QED
    BY <2>1, <2>16
<1> QED
  BY <1>2, <1>3

-----------------------------------------------------------------------------
(* Views. *)

\* A view that is shown has elements: those of its result, or of a version its text
\* starts with while an answer is awaited.
LEMMA MdShown ==
  ASSUME NEW v \in Views, v.fetch = 0 => v.result # None, v.fetch # 0 => v.text # None
  PROVE  LET s == Shown(v)
         IN /\ s \in Views /\ s.text = v.text /\ s.fetch = v.fetch
            /\ s.dom # None
            /\ v.fetch = 0 => s.dom.code = v.result.code
            /\ v.fetch # 0 => StartsWith(v.text, s.dom.code)
<1> DEFINE b == PendingBlock(v)
           e == UpdateCodeBlock(v.dom, b)
<1>0. /\ v.text \in Codes \cup {None} /\ v.fetch \in Int
      /\ v.result \in SpeltBlocks \cup {None} /\ v.cached \in SpeltBlocks \cup {None}
      /\ v.dom \in DrawnBlocks \cup {None}
  BY DEF Views
<1>1. b \in SpeltBlocks /\ (v.fetch = 0 => b = v.result)
      /\ (v.fetch # 0 => StartsWith(v.text, b.code))
  <2>1. CASE v.fetch = 0
    BY <2>1, <1>0 DEF PendingBlock
  <2>2. CASE v.fetch # 0 /\ v.result # None /\ StartsWith(v.text, v.result.code)
    BY <2>2, <1>0 DEF PendingBlock
  <2>3. CASE v.fetch # 0 /\ ~ (v.result # None /\ StartsWith(v.text, v.result.code))
    <3>1. v.text \in Codes
      BY <2>3, <1>0
    <3>2. b = PlainBlock(v.text)
      BY <2>3 DEF PendingBlock
    <3> QED
      BY <2>3, <3>1, <3>2, MdPlainTyped, MdStartsWithItself
  <2> QED
    BY <2>1, <2>2, <2>3
<1> HIDE DEF b
<1>2. e \in DrawnBlocks /\ e # None /\ e.code = b.code
  BY <1>0, <1>1, MdUpdate
<1>3. Shown(v) = [v EXCEPT !.dom = e]
  BY DEF Shown, b
<1> HIDE DEF e
<1>4. /\ Shown(v) \in Views /\ Shown(v).text = v.text /\ Shown(v).fetch = v.fetch
      /\ Shown(v).dom = e
  BY <1>2, <1>3, <1>0 DEF Views
<1> QED
  BY <1>1, <1>2, <1>4

\* A promise that resolves changes the view that awaits it, and no other.
LEMMA MdResolved ==
  ASSUME NEW v \in Views, NEW id \in Int, NEW b \in SpeltBlocks
  PROVE  LET r == Resolved(v, id, b)
         IN /\ r \in Views /\ r.text = v.text
            /\ v.fetch = id => r.fetch = 0 /\ r.dom # None /\ r.dom.code = b.code
            /\ v.fetch # id => r.fetch = v.fetch /\ r.dom = v.dom
<1> DEFINE known == IF b.code.complete THEN [v EXCEPT !.cached = b] ELSE v
           next  == [known EXCEPT !.result = b, !.fetch = 0]
<1>0. /\ v.text \in Codes \cup {None} /\ v.fetch \in Int
      /\ v.result \in SpeltBlocks \cup {None} /\ v.cached \in SpeltBlocks \cup {None}
      /\ v.dom \in DrawnBlocks \cup {None}
  BY DEF Views
<1>1. b # None /\ b \in SpeltBlocks \cup {None}
  BY MdNoneAssumption DEF SpeltBlocks
<1>2. /\ known \in Views /\ known.text = v.text /\ known.fetch = v.fetch
      /\ known.dom = v.dom
  BY <1>0 DEF Views
<1>3. Resolved(v, id, b) = IF v.fetch = id THEN Shown(next) ELSE known
  BY DEF Resolved
<1> HIDE DEF known
<1>4. /\ next \in Views /\ next.text = v.text /\ next.fetch = 0 /\ next.result = b
  <2>1. b \in SpeltBlocks \cup {None} /\ 0 \in Int
    BY <1>1
  <2> QED
    BY <1>2, <2>1 DEF Views
<1> HIDE DEF next
<1>5. /\ Shown(next) \in Views /\ Shown(next).text = next.text
      /\ Shown(next).fetch = 0 /\ Shown(next).dom # None /\ Shown(next).dom.code = b.code
  BY <1>4, <1>1, MdShown
<1> QED
  BY <1>2, <1>3, <1>4, <1>5

\* A view whose promise is rejected shows the bare text of that promise.
LEMMA MdAfterLoss ==
  ASSUME NEW v \in Views, NEW p \in PromiseMaps, NEW n \in Nat, DOMAIN p \subseteq 1..n,
         NEW lost \in SUBSET DOMAIN p
  PROVE  LET r == AfterLoss(v, p, lost)
         IN /\ r \in Views /\ r.text = v.text
            /\ v.fetch \in lost =>
                 r.fetch = 0 /\ r.dom # None /\ r.dom.code = p[v.fetch].code
            /\ v.fetch \notin lost => r.fetch = v.fetch /\ r.dom = v.dom
<1> DEFINE done  == {id \in lost : p[id].code.complete}
           last  == PlainBlock(p[Max(done)].code)
           known == IF done = {} THEN v ELSE [v EXCEPT !.cached = last]
           b     == PlainBlock(p[v.fetch].code)
           next  == [known EXCEPT !.result = b, !.fetch = 0]
<1>0. /\ v.text \in Codes \cup {None} /\ v.fetch \in Int
      /\ v.result \in SpeltBlocks \cup {None} /\ v.cached \in SpeltBlocks \cup {None}
      /\ v.dom \in DrawnBlocks \cup {None}
  BY DEF Views
<1>1. \A i \in DOMAIN p : p[i].code \in Codes
  BY DEF PromiseMaps, Promises
<1>2. AfterLoss(v, p, lost) = IF v.fetch \in lost THEN Shown(next) ELSE known
  BY DEF AfterLoss
<1>3. done # {} => last \in SpeltBlocks
  <2> SUFFICES ASSUME done # {} PROVE last \in SpeltBlocks
    OBVIOUS
  <2>1. done \in SUBSET Nat /\ \A x \in done : x <= n
    OBVIOUS
  <2>2. Max(done) \in done
    <3> HIDE DEF done
    <3> QED
      BY <2>1, MdMaxIn
  <2> QED
    BY <2>2, <1>1, MdPlainTyped
<1> HIDE DEF done, last
<1>4. /\ known \in Views /\ known.text = v.text /\ known.fetch = v.fetch
      /\ known.dom = v.dom
  BY <1>0, <1>3 DEF Views
<1> HIDE DEF known
<1>5. v.fetch \in lost =>
        /\ Shown(next) \in Views /\ Shown(next).text = v.text
        /\ Shown(next).fetch = 0 /\ Shown(next).dom # None
        /\ Shown(next).dom.code = p[v.fetch].code
  <2> SUFFICES ASSUME v.fetch \in lost
               PROVE  /\ Shown(next) \in Views /\ Shown(next).text = v.text
                      /\ Shown(next).fetch = 0 /\ Shown(next).dom # None
                      /\ Shown(next).dom.code = p[v.fetch].code
    OBVIOUS
  <2>1. b \in SpeltBlocks /\ b # None /\ b.code = p[v.fetch].code
    BY <1>1, MdPlainTyped
  <2> HIDE DEF b
  <2>2. next \in Views /\ next.text = v.text /\ next.fetch = 0 /\ next.result = b
    <3>1. b \in SpeltBlocks \cup {None} /\ 0 \in Int
      BY <2>1
    <3> QED
      BY <1>4, <1>0, <3>1 DEF Views
  <2> HIDE DEF next
  <2> QED
    BY <2>1, <2>2, MdShown
<1> QED
  BY <1>2, <1>4, <1>5

-----------------------------------------------------------------------------
(* What the operations of the page do to its state. *)

\* A promise has an id, a key and a version.
LEMMA MdPromises ==
  ASSUME NEW p \in PromiseMaps
  PROVE  /\ DOMAIN p \in SUBSET Nat
         /\ \A i \in DOMAIN p : p[i] \in Promises /\ p[i].key \in Keys /\ p[i].code \in Codes
         /\ \A i \in DOMAIN p : p[i] = [key |-> p[i].key, code |-> p[i].code]
  BY DEF PromiseMaps, Promises

\* Rejecting promises settles them and keeps the other views as they are.
LEMMA MdRejectAll ==
  ASSUME NEW m, MainOK(m), NEW ids \in SUBSET DOMAIN m.pending
  PROVE  LET n == RejectAll(m, ids)
         IN MainOK(n) /\ Loses(m, n, ids) /\ ViewsKeep(m, n) /\ SameRest(m, n)
<1> DEFINE p       == m.pending
           q       == Restrict(p, DOMAIN p \ ids)
           lost(j) == {id \in ids : p[id].key = j}
           vs      == [j \in Keys |-> AfterLoss(m.views[j], p, lost(j))]
           n       == RejectAll(m, ids)
<1>0. /\ m \in Mains /\ DOMAIN p \subseteq 1..m.nextID /\ m.nextID \in Nat
      /\ p \in PromiseMaps /\ m.views \in [Keys -> Views]
  BY DEF MainOK, Mains
<1>1. n = [[m EXCEPT !.pending = q] EXCEPT !.views = vs]
  BY <1>0 DEF RejectAll, Settle, Mains
<1>2. /\ DOMAIN q = DOMAIN p \ ids /\ \A i \in DOMAIN q : q[i] = p[i]
      /\ q \in PromiseMaps
  <2>1. DOMAIN q = DOMAIN p \ ids /\ \A i \in DOMAIN q : q[i] = p[i]
    BY DEF Restrict
  <2>2. q \in [DOMAIN p \ ids -> Promises]
    BY <1>0, MdPromises DEF Restrict
  <2>3. DOMAIN p \ ids \in SUBSET Nat
    BY <1>0, MdPromises
  <2> HIDE DEF p, q
  <2> QED
    BY <2>1, <2>2, <2>3 DEF PromiseMaps
<1>3. ASSUME NEW j \in Keys
      PROVE  LET v == m.views[j]
                 r == AfterLoss(v, p, lost(j))
             IN /\ r \in Views /\ r.text = v.text
                /\ v.fetch \in lost(j) =>
                     r.fetch = 0 /\ r.dom # None /\ r.dom.code = p[v.fetch].code
                /\ v.fetch \notin lost(j) => r.fetch = v.fetch /\ r.dom = v.dom
  <2>1. m.views[j] \in Views /\ lost(j) \in SUBSET DOMAIN p
    BY <1>0
  <2> HIDE DEF lost, p
  <2> QED
    BY <1>0, <2>1, MdAfterLoss
<1>4. vs \in [Keys -> Views]
  BY <1>3
<1>5. /\ \A j \in Keys : vs[j] = AfterLoss(m.views[j], p, lost(j))
  OBVIOUS
<1> HIDE DEF q, vs, lost
<1>6. /\ n \in Mains /\ n.pending = q /\ n.views = vs /\ SameRest(m, n)
  BY <1>0, <1>1, <1>2, <1>4 DEF Mains, SameRest
<1>7. MainOK(n) /\ Loses(m, n, ids)
  BY <1>0, <1>2, <1>6 DEF MainOK, Loses, SameRest
<1>8. ViewsKeep(m, n)
  <2> SUFFICES ASSUME NEW j \in Keys
               PROVE  /\ ViewOK(m, j) => ViewOK(n, j)
                      /\ n.views[j].text = m.views[j].text
                      /\ (m.views[j].fetch \notin DOMAIN m.pending
                            \/ m.views[j].fetch \in DOMAIN n.pending) =>
                           /\ n.views[j].fetch = m.views[j].fetch
                           /\ n.views[j].dom = m.views[j].dom
    BY DEF ViewsKeep
  <2> DEFINE v == m.views[j]
             r == n.views[j]
  <2>1. /\ r.text = v.text
        /\ v.fetch \in lost(j) =>
             r.fetch = 0 /\ r.dom # None /\ r.dom.code = p[v.fetch].code
        /\ v.fetch \notin lost(j) => r.fetch = v.fetch /\ r.dom = v.dom
    BY <1>3, <1>5, <1>6
  <2>2. (v.fetch \notin DOMAIN p \/ v.fetch \in DOMAIN n.pending) =>
           r.fetch = v.fetch /\ r.dom = v.dom
    <3>1. v.fetch \in DOMAIN n.pending => v.fetch \notin ids
      BY <1>7 DEF Loses
    <3> QED
      BY <2>1, <3>1 DEF lost
  <2>3. ASSUME ViewOK(m, j) PROVE ViewOK(n, j)
    <3>0. /\ v.fetch # 0 => /\ v.text # None /\ v.fetch \in DOMAIN p
                            /\ p[v.fetch] = [key |-> j, code |-> v.text]
          /\ v.dom # None => /\ v.text # None /\ StartsWith(v.text, v.dom.code)
                             /\ v.fetch = 0 => v.dom.code = v.text
      BY <2>3 DEF ViewOK
    <3>1. CASE v.fetch \in lost(j)
      <4>1. v.fetch \in DOMAIN p /\ v.fetch # 0
        BY <3>1, <1>0 DEF lost
      <4>2. r.fetch = 0 /\ r.dom.code = v.text /\ r.text = v.text /\ v.text # None
        BY <3>0, <3>1, <4>1, <2>1
      <4>3. v.text \in Codes
        BY <4>2, <1>0 DEF Views
      <4> QED
        BY <4>2, <4>3, MdStartsWithItself DEF ViewOK
    <3>2. CASE v.fetch \notin lost(j)
      <4>1. r.fetch = v.fetch /\ r.dom = v.dom /\ r.text = v.text
        BY <3>2, <2>1
      <4>2. v.fetch # 0 => v.fetch \notin ids
        BY <3>0, <3>2 DEF lost
      <4>3. v.fetch # 0 => v.fetch \in DOMAIN n.pending /\ n.pending[v.fetch] = p[v.fetch]
        BY <3>0, <4>2, <1>2, <1>6
      <4> HIDE DEF r, v, p, n
      <4>4. /\ r.fetch # 0 => /\ r.text # None /\ r.fetch \in DOMAIN n.pending
                              /\ n.pending[r.fetch] = [key |-> j, code |-> r.text]
            /\ r.dom # None => /\ r.text # None /\ StartsWith(r.text, r.dom.code)
                               /\ r.fetch = 0 => r.dom.code = r.text
        BY <3>0, <4>1, <4>3
      <4> QED
        BY <4>4 DEF ViewOK, r
    <3> QED
      BY <3>1, <3>2
  <2> QED
    BY <2>1, <2>2, <2>3
<1> QED
  BY <1>6, <1>7, <1>8

\* So does superseding requests: those that have a promise lose it.
LEMMA MdSupersede ==
  ASSUME NEW m, MainOK(m), NEW reqs
  PROVE  LET n   == Supersede(m, reqs)
             ids == {r.id : r \in reqs \ {None}} \cap DOMAIN m.pending
         IN MainOK(n) /\ Loses(m, n, ids) /\ ViewsKeep(m, n) /\ SameRest(m, n)
<1> DEFINE ids == {r.id : r \in reqs \ {None}} \cap DOMAIN m.pending
<1>1. ids \in SUBSET DOMAIN m.pending
  OBVIOUS
<1>2. Supersede(m, reqs) = RejectAll(m, ids)
  BY DEF Supersede
<1> HIDE DEF ids
<1>3. LET n == RejectAll(m, ids)
      IN MainOK(n) /\ Loses(m, n, ids) /\ ViewsKeep(m, n) /\ SameRest(m, n)
  BY <1>1, MdRejectAll
<1> QED
  BY <1>2, <1>3 DEF ids

\* Fields that neither promises nor views depend on may change.
LEMMA MdViewsFrom ==
  ASSUME NEW l, NEW m, NEW n, m.views = l.views, m.pending = l.pending, ViewsKeep(m, n)
  PROVE  ViewsKeep(l, n)
  BY DEF ViewsKeep, ViewOK

\* What a step leaves alone after another one that keeps the views.
LEMMA MdViewsTo ==
  ASSUME NEW l, NEW m, NEW n, n.views = m.views, n.pending = m.pending, ViewsKeep(l, m)
  PROVE  ViewsKeep(l, n)
  BY DEF ViewsKeep, ViewOK

\* Two steps that keep the views do so together.
LEMMA MdViewsTwice ==
  ASSUME NEW l, NEW m, NEW n, ViewsKeep(l, m), ViewsKeep(m, n),
         DOMAIN n.pending \subseteq DOMAIN m.pending,
         DOMAIN m.pending \subseteq DOMAIN l.pending
  PROVE  ViewsKeep(l, n)
<1> SUFFICES ASSUME NEW j \in Keys
             PROVE  /\ ViewOK(l, j) => ViewOK(n, j)
                    /\ n.views[j].text = l.views[j].text
                    /\ (l.views[j].fetch \notin DOMAIN l.pending
                     \/ l.views[j].fetch \in DOMAIN n.pending) =>
                         n.views[j].fetch = l.views[j].fetch /\ n.views[j].dom = l.views[j].dom
  BY DEF ViewsKeep
<1>1. /\ ViewOK(l, j) => ViewOK(m, j)
      /\ m.views[j].text = l.views[j].text
      /\ (l.views[j].fetch \notin DOMAIN l.pending
          \/ l.views[j].fetch \in DOMAIN m.pending) =>
           m.views[j].fetch = l.views[j].fetch /\ m.views[j].dom = l.views[j].dom
  BY DEF ViewsKeep
<1>2. /\ ViewOK(m, j) => ViewOK(n, j)
      /\ n.views[j].text = m.views[j].text
      /\ (m.views[j].fetch \notin DOMAIN m.pending
          \/ m.views[j].fetch \in DOMAIN n.pending) =>
           n.views[j].fetch = m.views[j].fetch /\ n.views[j].dom = m.views[j].dom
  BY DEF ViewsKeep
<1> QED
  BY <1>1, <1>2

\* Disposing a block settles its promises and posts a disposal.
LEMMA MdDispose ==
  ASSUME NEW m, MainOK(m), NEW k \in Keys, Slotted(m, k)
  PROVE  Disposed(m, DisposeStreamingCode(m, k), k)
<1> DEFINE a  == [m EXCEPT !.keys = @ \ {k}, !.latest[k] = 0, !.states[k] = None]
           b  == Supersede(a, {a.queued[k]})
           c  == [b EXCEPT !.active[k] = None, !.queued[k] = None]
           is == {id \in DOMAIN c.pending : c.pending[id].key = k}
           d  == RejectAll(c, is)
           n  == DisposeStreamingCode(m, k)
           ids == {id \in DOMAIN m.pending : m.pending[id].key = k}
<1>0. m \in Mains /\ DOMAIN m.pending \subseteq 1..m.nextID
  BY DEF MainOK
<1>1. /\ MainOK(a) /\ a.pending = m.pending /\ a.views = m.views
      /\ a.disabled = m.disabled /\ a.nextID = m.nextID /\ a.keys = m.keys \ {k}
      /\ a.latest = [m.latest EXCEPT ![k] = 0] /\ a.active = m.active
      /\ a.queued = m.queued /\ a.states = [m.states EXCEPT ![k] = None]
      /\ a.out = m.out
  BY <1>0 DEF MainOK, Mains
<1>2. n = IF WorkerUp(m) THEN [d EXCEPT !.out = Append(@, [type |-> "dispose", key |-> k])]
          ELSE d
  BY DEF DisposeStreamingCode, DisposeTransport
<1> HIDE DEF a
<1> DEFINE js == {r.id : r \in {a.queued[k]} \ {None}} \cap DOMAIN a.pending
<1>3. MainOK(b) /\ Loses(a, b, js) /\ ViewsKeep(a, b) /\ SameRest(a, b)
  BY <1>1, MdSupersede
<1>4. js \subseteq ids
  BY <1>1 DEF Slotted, Asks
<1> HIDE DEF b, js
<1>5. /\ MainOK(c) /\ c.pending = b.pending /\ c.views = b.views
      /\ c.disabled = b.disabled /\ c.nextID = b.nextID /\ c.keys = b.keys
      /\ c.latest = b.latest /\ c.active = [b.active EXCEPT ![k] = None]
      /\ c.queued = [b.queued EXCEPT ![k] = None] /\ c.states = b.states
      /\ c.out = b.out
  BY <1>3 DEF MainOK, Mains
<1> HIDE DEF c
<1>6. MainOK(d) /\ Loses(c, d, is) /\ ViewsKeep(c, d) /\ SameRest(c, d)
  <2>1. is \in SUBSET DOMAIN c.pending
    OBVIOUS
  <2> HIDE DEF is
  <2> QED
    BY <1>5, <2>1, MdRejectAll
<1>7. Loses(m, d, ids)
  <2>1. DOMAIN d.pending = DOMAIN m.pending \ ids
    <3>1. is = {id \in DOMAIN m.pending \ js : m.pending[id].key = k}
      BY <1>1, <1>3, <1>5 DEF Loses
    <3>2. DOMAIN d.pending = (DOMAIN m.pending \ js) \ is
      BY <1>1, <1>3, <1>5, <1>6 DEF Loses
    <3> HIDE DEF is
    <3> QED
      BY <3>1, <3>2, <1>4
  <2>2. \A i \in DOMAIN d.pending : d.pending[i] = m.pending[i]
    BY <1>1, <1>3, <1>5, <1>6 DEF Loses
  <2> HIDE DEF ids, d
  <2> QED
    BY <2>1, <2>2 DEF Loses
<1>8. ViewsKeep(m, d)
  <2>1. ViewsKeep(m, b)
    BY <1>1, <1>3, MdViewsFrom
  <2>2. ViewsKeep(m, c)
    BY <2>1, <1>5, MdViewsTo
  <2>3. DOMAIN c.pending \subseteq DOMAIN m.pending
    BY <1>1, <1>3, <1>5 DEF Loses
  <2>4. DOMAIN d.pending \subseteq DOMAIN c.pending
    BY <1>6 DEF Loses
  <2> HIDE DEF d
  <2> QED
    BY <2>2, <2>3, <2>4, <1>6, MdViewsTwice
<1> HIDE DEF d, is, ids
<1>9. /\ d.disabled = m.disabled /\ d.nextID = m.nextID /\ d.keys = m.keys \ {k}
      /\ d.latest = [m.latest EXCEPT ![k] = 0] /\ d.active = [m.active EXCEPT ![k] = None]
      /\ d.queued = [m.queued EXCEPT ![k] = None]
      /\ d.states = [m.states EXCEPT ![k] = None] /\ d.out = m.out
  BY <1>1, <1>3, <1>5, <1>6 DEF SameRest
<1>10. /\ MainOK(n) /\ n.pending = d.pending /\ n.views = d.views
       /\ n.disabled = d.disabled /\ n.nextID = d.nextID /\ n.keys = d.keys
       /\ n.latest = d.latest /\ n.active = d.active
       /\ n.queued = d.queued /\ n.states = d.states
       /\ n.out = IF WorkerUp(m) THEN Append(d.out, [type |-> "dispose", key |-> k])
                  ELSE d.out
  <2>1. [type |-> "dispose", key |-> k] \in Posts
    BY DEF Posts, Disposals
  <2>2. CASE ~ WorkerUp(m)
    BY <1>2, <1>6, <2>2
  <2>3. CASE WorkerUp(m)
    <3>1. n = [d EXCEPT !.out = Append(@, [type |-> "dispose", key |-> k])]
      BY <1>2, <2>3
    <3> HIDE DEF n
    <3> QED
      BY <3>1, <1>6, <2>1, <2>3, AppendProperties DEF MainOK, Mains
  <2> QED
    BY <2>2, <2>3
<1> HIDE DEF n
<1>11. Loses(m, n, ids)
  BY <1>7, <1>10 DEF Loses
<1>12. ViewsKeep(m, n)
  BY <1>8, <1>10, MdViewsTo
<1> QED
  BY <1>9, <1>10, <1>11, <1>12 DEF Disposed, ids, n


\* The block that is evicted has the oldest of the latest requests.
LEMMA MdOldest ==
  ASSUME NEW m, MainOK(m), Cardinality(m.keys) > Limit
  PROVE  /\ Oldest(m) \in m.keys
         /\ \A j \in m.keys : m.latest[Oldest(m)] <= m.latest[j]
<1>0. m.keys \in SUBSET Keys /\ m.latest \in [Keys -> Nat]
  BY DEF MainOK, Mains
<1>1. m.keys # {}
  <2>1. Limit \in Nat /\ Cardinality({}) = 0
    BY MdLimitAssumption, FS_EmptySet
  <2> QED
    BY <2>1
<1> DEFINE S == {m.latest[j] : j \in m.keys}
<1>2. S \in SUBSET Nat /\ S # {}
  <2>1. PICK j \in m.keys : TRUE
    BY <1>1
  <2>2. m.latest[j] \in S
    OBVIOUS
  <2>3. \A s \in S : s \in Nat
    BY <1>0
  <2> QED
    BY <2>2, <2>3
<1>3. PICK n \in S : \A s \in S : n <= s
  <2> HIDE DEF S
  <2> QED
    BY <1>2, MdLeast
<1>4. \E k \in m.keys : \A j \in m.keys : m.latest[k] <= m.latest[j]
  BY <1>3
<1> QED
  BY <1>4 DEF Oldest

\* Eviction disposes one block at most, never the one that asks, and makes room.
LEMMA MdEvict ==
  ASSUME NEW m, MainOK(m), NEW k \in m.keys, \A j \in Keys : Slotted(m, j),
         \A j \in Keys \ {k} : m.latest[j] < m.latest[k],
         IsFiniteSet(m.keys), Cardinality(m.keys) <= Limit + 1
  PROVE  LET n == Evict(m)
         IN /\ n = m \/ \E x \in Keys \ {k} : Disposed(m, n, x)
            /\ Cardinality(n.keys) <= Limit
<1>0. m.keys \in SUBSET Keys /\ m.latest \in [Keys -> Nat]
  BY DEF MainOK, Mains
<1>1. Limit \in Nat /\ Limit >= 1 /\ Cardinality(m.keys) \in Nat
  BY MdLimitAssumption, FS_CardinalityType
<1>2. CASE ~ (Cardinality(m.keys) > Limit)
  BY <1>1, <1>2 DEF Evict
<1>3. CASE Cardinality(m.keys) > Limit
  <2> DEFINE x == Oldest(m)
  <2>1. x \in m.keys /\ \A j \in m.keys : m.latest[x] <= m.latest[j]
    BY <1>3, MdOldest
  <2>2. Evict(m) = DisposeStreamingCode(m, x)
    BY <1>3 DEF Evict
  <2> HIDE DEF x
  <2>3. x # k
    <3> SUFFICES ASSUME x = k PROVE FALSE
      OBVIOUS
    <3>1. \E y \in m.keys : y # k
      <4> SUFFICES ASSUME \A y \in m.keys : y = k PROVE FALSE
        OBVIOUS
      <4>1. m.keys = {k}
        OBVIOUS
      <4>2. Cardinality({k}) = 1
        BY FS_Singleton
      <4> QED
        BY <4>1, <4>2, <1>1, <1>3
    <3>2. PICK y \in m.keys : y # k
      BY <3>1
    <3>3. m.latest[k] <= m.latest[y] /\ m.latest[y] < m.latest[k]
      BY <2>1, <3>2, <1>0
    <3>4. m.latest[k] \in Nat /\ m.latest[y] \in Nat
      BY <1>0
    <3> QED
      BY <3>3, <3>4
  <2>4. Disposed(m, Evict(m), x)
    <3>1. x \in Keys /\ Slotted(m, x)
      BY <2>1, <1>0
    <3> QED
      BY <3>1, <2>2, MdDispose
  <2>5. Cardinality(m.keys \ {x}) = Cardinality(m.keys) - 1
    BY <2>1, FS_RemoveElement
  <2>6. Evict(m).keys = m.keys \ {x}
    BY <2>4 DEF Disposed
  <2>7. Cardinality(Evict(m).keys) <= Limit
    BY <2>5, <2>6, <1>1
  <2>8. x \in Keys \ {k}
    BY <2>1, <2>3, <1>0
  <2> QED
    BY <2>4, <2>7, <2>8
<1> QED
  BY <1>2, <1>3

\* A step that changes neither views nor promises keeps the views.
LEMMA MdViewsSame ==
  ASSUME NEW m, NEW n, n.views = m.views, n.pending = m.pending
  PROVE  ViewsKeep(m, n)
  BY DEF ViewsKeep, ViewOK

\* A request is posted if its key has none active, and waits otherwise.
LEMMA MdSend ==
  ASSUME NEW m, MainOK(m), NEW req \in HighlightRequests
  PROVE  Sent(m, Send(m, req), req)
<1> DEFINE k    == req.key
           n    == Send(m, req)
           gone == {r.id : r \in {m.queued[k]} \ {None}} \cap DOMAIN m.pending
<1>0. m \in Mains /\ k \in Keys /\ req \in HighlightRequests \cup {None} /\ req \in Posts
  BY DEF MainOK, HighlightRequests, Posts
<1>1. CASE m.active[k] = None
  <2>1. n = [m EXCEPT !.active[k] = req, !.out = Append(@, req)]
    BY <1>1 DEF Send, Post
  <2> HIDE DEF n, k
  <2>2. /\ MainOK(n) /\ n.pending = m.pending /\ n.views = m.views
        /\ n.disabled = m.disabled /\ n.nextID = m.nextID /\ n.keys = m.keys
        /\ n.latest = m.latest /\ n.states = m.states /\ n.queued = m.queued
        /\ n.active = [m.active EXCEPT ![k] = req] /\ n.out = Append(m.out, req)
    BY <1>0, <2>1, AppendProperties DEF MainOK, Mains
  <2>3. ViewsKeep(m, n)
    BY <2>2, MdViewsSame
  <2>4. Loses(m, n, {})
    BY <2>2 DEF Loses
  <2> QED
    BY <1>1, <2>2, <2>3, <2>4 DEF Sent, k, n
<1>2. CASE m.active[k] # None
  <2> DEFINE b == Supersede(m, {m.queued[k]})
  <2>1. n = [b EXCEPT !.queued[k] = req]
    BY <1>2 DEF Send
  <2>2. MainOK(b) /\ Loses(m, b, gone) /\ ViewsKeep(m, b) /\ SameRest(m, b)
    BY MdSupersede
  <2> HIDE DEF b, n, k, gone
  <2>3. /\ MainOK(n) /\ n.pending = b.pending /\ n.views = b.views
        /\ n.disabled = b.disabled /\ n.nextID = b.nextID /\ n.keys = b.keys
        /\ n.latest = b.latest /\ n.states = b.states /\ n.active = b.active
        /\ n.queued = [b.queued EXCEPT ![k] = req] /\ n.out = b.out
    BY <1>0, <2>1, <2>2 DEF MainOK, Mains
  <2>4. ViewsKeep(m, n)
    BY <2>2, <2>3, MdViewsTo
  <2>5. Loses(m, n, gone)
    BY <2>2, <2>3 DEF Loses
  <2> QED
    BY <1>2, <2>2, <2>3, <2>4, <2>5 DEF Sent, SameRest, gone, k, n
<1> QED
  BY <1>1, <1>2

\* The active request is done with, and the waiting one is posted.
LEMMA MdComplete ==
  ASSUME NEW m, MainOK(m), NEW k \in Keys, NEW id,
         m.queued[k] # None => m.queued[k].key = k
  PROVE  Completed(m, Complete(m, k, id), k, id)
<1> DEFINE n == Complete(m, k, id)
<1>0. m \in Mains
  BY DEF MainOK
<1>1. CASE m.active[k] = None \/ m.active[k].id # id
  <2>1. n = m
    BY <1>1 DEF Complete
  <2> QED
    BY <1>1, <2>1 DEF Completed
<1>2. CASE ~ (m.active[k] = None \/ m.active[k].id # id) /\ m.queued[k] = None
  <2>1. n = [m EXCEPT !.active[k] = None]
    BY <1>2 DEF Complete
  <2> HIDE DEF n
  <2>2. /\ MainOK(n) /\ n.pending = m.pending /\ n.views = m.views
        /\ n.disabled = m.disabled /\ n.nextID = m.nextID /\ n.keys = m.keys
        /\ n.latest = m.latest /\ n.states = m.states /\ n.queued = m.queued
        /\ n.active = [m.active EXCEPT ![k] = None] /\ n.out = m.out
    BY <1>0, <2>1 DEF MainOK, Mains
  <2>3. n.queued = [m.queued EXCEPT ![k] = None]
    BY <2>2, <1>2, <1>0 DEF Mains
  <2> QED
    BY <1>2, <2>2, <2>3 DEF Completed, n
<1>3. CASE ~ (m.active[k] = None \/ m.active[k].id # id) /\ m.queued[k] # None
  <2> DEFINE q == m.queued[k]
  <2>0. q \in HighlightRequests /\ q.key = k
    BY <1>3, <1>0 DEF Mains
  <2>1. n = [[m EXCEPT !.queued[k] = None] EXCEPT !.active[k] = q, !.out = Append(@, q)]
    BY <1>3, <2>0 DEF Complete, Post
  <2> HIDE DEF n
  <2>2. q \in Posts /\ q \in HighlightRequests \cup {None}
    BY <2>0 DEF Posts
  <2> HIDE DEF q
  <2>3. /\ MainOK(n) /\ n.pending = m.pending /\ n.views = m.views
        /\ n.disabled = m.disabled /\ n.nextID = m.nextID /\ n.keys = m.keys
        /\ n.latest = m.latest /\ n.states = m.states
        /\ n.queued = [m.queued EXCEPT ![k] = None]
        /\ n.active = [m.active EXCEPT ![k] = q] /\ n.out = Append(m.out, q)
    BY <1>0, <2>1, <2>2, AppendProperties DEF MainOK, Mains
  <2> QED
    BY <1>3, <2>3 DEF Completed, n, q
<1> QED
  BY <1>1, <1>2, <1>3

-----------------------------------------------------------------------------
(* Ports and queues. *)

\* What a message at the end of a port adds to the requests and answers on it.
LEMMA MdItemsAppend ==
  ASSUME NEW X, NEW s \in Seq(X), NEW x \in X
  PROVE  LET t == Append(s, x)
         IN /\ t \in Seq(X)
            /\ Items(t) = Items(s) \cup (IF IsHeld(x) THEN {x} ELSE {})
            /\ Distinct(s) /\ (IsHeld(x) => x.id \notin Ids(s)) => Distinct(t)
<1> DEFINE t == Append(s, x)
<1>1. /\ t \in Seq(X) /\ Len(s) \in Nat /\ DOMAIN s = 1..Len(s)
      /\ DOMAIN t = 1..Len(s) + 1
      /\ \A i \in 1..Len(s) : t[i] = s[i]
      /\ t[Len(s) + 1] = x
  <2>1. /\ t \in Seq(X) /\ Len(t) = Len(s) + 1
        /\ \A i \in 1..Len(s) : t[i] = s[i]
        /\ t[Len(s) + 1] = x
    BY AppendProperties
  <2>2. DOMAIN t = 1..Len(t) /\ DOMAIN s = 1..Len(s) /\ Len(s) \in Nat
    BY <2>1, LenProperties
  <2> QED
    BY <2>1, <2>2
<1> HIDE DEF t
<1>2. DOMAIN t = DOMAIN s \cup {Len(s) + 1} /\ Len(s) + 1 \notin DOMAIN s
  BY <1>1
<1>3. \A i \in DOMAIN s : t[i] = s[i]
  BY <1>1
<1>4. Held(t) = Held(s) \cup (IF IsHeld(x) THEN {Len(s) + 1} ELSE {})
  BY <1>1, <1>2, <1>3 DEF Held
<1>5. Items(t) = Items(s) \cup (IF IsHeld(x) THEN {x} ELSE {})
  <2>1. \A i \in Held(s) : t[i] = s[i]
    BY <1>3 DEF Held
  <2>2. t[Len(s) + 1] = x
    BY <1>1
  <2> QED
    BY <1>4, <2>1, <2>2 DEF Items
<1>6. Distinct(s) /\ (IsHeld(x) => x.id \notin Ids(s)) => Distinct(t)
  <2> SUFFICES ASSUME Distinct(s), IsHeld(x) => x.id \notin Ids(s),
                      NEW i \in Held(t), NEW j \in Held(t), t[i].id = t[j].id
               PROVE  i = j
    BY DEF Distinct
  <2>1. \A h \in Held(s) : t[h] = s[h] /\ s[h].id \in Ids(s)
    BY <1>3 DEF Held, Ids, Items
  <2>2. CASE i \in Held(s) /\ j \in Held(s)
    BY <2>1, <2>2 DEF Distinct
  <2>3. CASE i \notin Held(s) /\ j \notin Held(s)
    BY <2>3, <1>4
  <2>4. CASE i \in Held(s) /\ j \notin Held(s)
    BY <2>4, <2>1, <1>1, <1>4
  <2>5. CASE i \notin Held(s) /\ j \in Held(s)
    BY <2>5, <2>1, <1>1, <1>4
  <2> QED
    BY <2>2, <2>3, <2>4, <2>5
<1> QED
  BY <1>1, <1>5, <1>6 DEF t

\* What taking the first message off a port leaves on it.
LEMMA MdItemsTail ==
  ASSUME NEW X, NEW s \in Seq(X), s # << >>
  PROVE  LET t == Tail(s)
             x == Head(s)
         IN /\ t \in Seq(X) /\ x \in X
            /\ Items(s) = Items(t) \cup (IF IsHeld(x) THEN {x} ELSE {})
            /\ Distinct(s) => Distinct(t) /\ (IsHeld(x) => x.id \notin Ids(t))
<1> DEFINE t == Tail(s)
           x == Head(s)
<1>1. /\ t \in Seq(X) /\ x \in X /\ Len(s) \in Nat /\ Len(s) # 0 /\ x = s[1]
      /\ DOMAIN s = 1..Len(s) /\ DOMAIN t = 1..Len(s) - 1
      /\ \A i \in 1..Len(s) - 1 : t[i] = s[i + 1]
  <2>1. /\ t \in Seq(X) /\ x \in X /\ Len(t) = Len(s) - 1
        /\ \A i \in 1..Len(t) : t[i] = s[i + 1]
    BY HeadTailProperties
  <2>2. DOMAIN t = 1..Len(t) /\ DOMAIN s = 1..Len(s) /\ Len(s) \in Nat
    BY <2>1, LenProperties
  <2>3. Len(s) # 0 /\ x = s[1]
    <3>1. Len(s) \in Nat \ {0}
      BY EmptySeq
    <3> QED
      BY <3>1
  <2> QED
    BY <2>1, <2>2, <2>3
<1> HIDE DEF t, x
<1>2. \A i \in DOMAIN t : t[i] = s[i + 1] /\ i + 1 \in DOMAIN s /\ i + 1 # 1 /\ i \in Nat
  BY <1>1
<1>3. \A i \in DOMAIN s : i # 1 => i - 1 \in DOMAIN t /\ t[i - 1] = s[i]
  BY <1>1
<1>4. 1 \in DOMAIN s
  BY <1>1
<1>5. /\ \A i \in Held(t) : i + 1 \in Held(s) /\ i + 1 # 1 /\ t[i] = s[i + 1] /\ i \in Nat
      /\ \A i \in Held(s) : i # 1 => i - 1 \in Held(t) /\ t[i - 1] = s[i]
      /\ 1 \in Held(s) <=> IsHeld(x)
  BY <1>1, <1>2, <1>3, <1>4 DEF Held
<1>6. Items(s) = Items(t) \cup (IF IsHeld(x) THEN {x} ELSE {})
  <2>1. \A r \in Items(s) : r \in Items(t) \/ (IsHeld(x) /\ r = x)
    BY <1>1, <1>5 DEF Items
  <2>2. \A r \in Items(t) : r \in Items(s)
    BY <1>5 DEF Items
  <2>3. IsHeld(x) => x \in Items(s)
    BY <1>1, <1>5 DEF Items
  <2> QED
    BY <2>1, <2>2, <2>3
<1>7. Distinct(s) => Distinct(t)
  <2> SUFFICES ASSUME Distinct(s), NEW i \in Held(t), NEW j \in Held(t), t[i].id = t[j].id
               PROVE  i = j
    BY DEF Distinct
  <2> DEFINE a == i + 1
             b == j + 1
  <2>0. a \in Held(s) /\ b \in Held(s) /\ s[a].id = s[b].id
    BY <1>5
  <2> HIDE DEF a, b
  <2>1. a = b
    BY <2>0 DEF Distinct
  <2> QED
    BY <2>1, <1>5 DEF a, b
<1>8. Distinct(s) => (IsHeld(x) => x.id \notin Ids(t))
  <2> SUFFICES ASSUME Distinct(s), IsHeld(x), NEW i \in Held(t), t[i].id = x.id
               PROVE  FALSE
    BY DEF Ids, Items
  <2>1. i + 1 \in Held(s) /\ 1 \in Held(s) /\ s[i + 1].id = s[1].id /\ i + 1 # 1
    BY <1>1, <1>5
  <2> QED
    BY <2>1 DEF Distinct
<1> QED
  BY <1>1, <1>6, <1>7, <1>8 DEF t, x

\* What replacing a job in its slot leaves in the queue.
LEMMA MdItemsReplace ==
  ASSUME NEW X, NEW s \in Seq(X), NEW p \in Held(s), NEW x \in X, Distinct(s)
  PROVE  LET t == [s EXCEPT ![p] = x]
         IN /\ t \in Seq(X) /\ DOMAIN t = DOMAIN s
            /\ Items(t) = {r \in Items(s) : r.id # s[p].id} \cup (IF IsHeld(x) THEN {x} ELSE {})
            /\ (IsHeld(x) => x.id \notin Ids(s)) => Distinct(t)
<1> DEFINE t == [s EXCEPT ![p] = x]
<1>1. p \in 1..Len(s) /\ DOMAIN s = 1..Len(s)
  BY LenProperties DEF Held
<1>2. t \in Seq(X) /\ DOMAIN t = DOMAIN s /\ t[p] = x /\ \A i \in DOMAIN s \ {p} : t[i] = s[i]
  BY <1>1, ExceptSeq
<1> HIDE DEF t
<1>3. Held(t) = (Held(s) \ {p}) \cup (IF IsHeld(x) THEN {p} ELSE {})
  BY <1>1, <1>2 DEF Held
<1>4. \A i \in Held(s) \ {p} : t[i] = s[i] /\ s[i].id # s[p].id /\ i \in Held(t)
  BY <1>2, <1>3 DEF Held, Distinct
<1>5. Items(t) = {r \in Items(s) : r.id # s[p].id} \cup (IF IsHeld(x) THEN {x} ELSE {})
  <2>1. \A r \in Items(t) : (r \in Items(s) /\ r.id # s[p].id) \/ (IsHeld(x) /\ r = x)
    BY <1>2, <1>3, <1>4 DEF Items
  <2>2. \A r \in Items(s) : r.id # s[p].id => r \in Items(t)
    BY <1>4 DEF Items
  <2>3. IsHeld(x) => x \in Items(t)
    BY <1>2, <1>3 DEF Items
  <2> QED
    BY <2>1, <2>2, <2>3
<1>6. (IsHeld(x) => x.id \notin Ids(s)) => Distinct(t)
  <2> SUFFICES ASSUME IsHeld(x) => x.id \notin Ids(s),
                      NEW i \in Held(t), NEW j \in Held(t), t[i].id = t[j].id
               PROVE  i = j
    BY DEF Distinct
  <2>1. \A h \in Held(s) \ {p} : t[h] = s[h] /\ s[h].id \in Ids(s)
    BY <1>4 DEF Ids, Items
  <2>2. CASE i # p /\ j # p
    BY <2>1, <2>2, <1>3 DEF Distinct
  <2>3. CASE i = p /\ j = p
    BY <2>3
  <2>4. CASE i # p /\ j = p
    BY <2>4, <2>1, <1>2, <1>3
  <2>5. CASE i = p /\ j # p
    BY <2>5, <2>1, <1>2, <1>3
  <2> QED
    BY <2>2, <2>3, <2>4, <2>5
<1> QED
  BY <1>2, <1>5, <1>6 DEF t

-----------------------------------------------------------------------------
(* The transport's invariant, step by step. *)

\* What is on its way is a request or an answer of a key.
LEMMA MdWay ==
  ASSUME NEW tw, NEW w, NEW tm, WayTyped(tw, w, tm)
  PROVE  /\ \A r \in Items(tw) \cup Items(w.jobs) : r \in HighlightRequests
         /\ \A r \in Items(tw) \cup Items(w.jobs) : r.key \in Keys /\ r.id \in Nat
         /\ \A r \in Items(tm) : r \in Answers /\ r.key \in Keys /\ r.id \in Nat
         /\ w.running # None => /\ w.running \in HighlightRequests
                                /\ w.running.key \in Keys /\ w.running.id \in Nat
<1>1. tw \in Seq(Posts) /\ w.jobs \in Seq(Jobs) /\ tm \in Seq(Answers)
      /\ w.running \in HighlightRequests \cup {None}
  BY DEF WayTyped, WorkerStates
<1>1a. \A S : \A q \in Seq(S) : \A i \in DOMAIN q : q[i] \in S
  OBVIOUS
<1>2. \A r \in HighlightRequests : r.key \in Keys /\ r.id \in Nat
  BY DEF HighlightRequests
<1>3. \A x \in Jobs : IsHeld(x) => x \in HighlightRequests
  BY DEF Jobs, Posts, Disposals, Empties, IsHeld
<1>4. \A i \in Held(tw) : tw[i] \in HighlightRequests
  <2> TAKE i \in Held(tw)
  <2>1. tw[i] \in Posts /\ IsHeld(tw[i])
    BY <1>1, <1>1a DEF Held
  <2> QED
    BY <2>1, <1>3 DEF Jobs
<1>5. \A i \in Held(w.jobs) : w.jobs[i] \in HighlightRequests
  <2> TAKE i \in Held(w.jobs)
  <2>1. w.jobs[i] \in Jobs /\ IsHeld(w.jobs[i])
    BY <1>1, <1>1a DEF Held
  <2> QED
    BY <2>1, <1>3
<1>6. \A i \in Held(tm) : tm[i] \in Answers
  BY <1>1, <1>1a DEF Held
<1>7. \A x \in Answers : x.key \in Keys /\ x.id \in Nat
  BY DEF Answers, Deltas, Refusals
<1> QED
  BY <1>1, <1>2, <1>4, <1>5, <1>6, <1>7 DEF Items

\* The id of a request is that of no other promise, and a promise has one key.
LEMMA MdSlots ==
  ASSUME NEW m, \A j \in Keys : Slotted(m, j), NEW k \in Keys
  PROVE  /\ m.active[k] # None =>
              /\ m.active[k].id \in DOMAIN m.pending /\ m.active[k].key = k
              /\ m.pending[m.active[k].id].key = k
              /\ m.pending[m.active[k].id].code = m.active[k].code
         /\ m.queued[k] # None =>
              /\ m.queued[k].id \in DOMAIN m.pending /\ m.queued[k].key = k
              /\ m.pending[m.queued[k].id].key = k
              /\ m.pending[m.queued[k].id].code = m.queued[k].code
              /\ m.active[k] # None /\ m.active[k].id < m.queued[k].id
<1>1. Slotted(m, k)
  OBVIOUS
<1>2. m.active[k] # None => Asks(m, m.active[k], k)
  BY <1>1 DEF Slotted
<1>3. m.queued[k] # None => /\ m.active[k] # None /\ Asks(m, m.queued[k], k)
                           /\ m.active[k].id < m.queued[k].id
  BY <1>1 DEF Slotted
<1> QED
  BY <1>2, <1>3 DEF Asks

\* More keys and higher ids do not disturb the transport.
LEMMA MdTransportGrows ==
  ASSUME NEW m, NEW n, NEW tw, NEW w, NEW tm, MainOK(m), MainOK(n),
         TransportOK(m, tw, w, tm),
         n.pending = m.pending, n.active = m.active, n.queued = m.queued,
         m.keys \subseteq n.keys, m.nextID <= n.nextID, WorkerUp(m) => WorkerUp(n)
  PROVE  TransportOK(n, tw, w, tm)
<1>1. \A k \in Keys : Slotted(n, k)
  BY DEF TransportOK, Slotted, Asks
<1>2. Matched(n)
  BY DEF TransportOK, Matched
<1>3. OneEach(n, tw, w, tm)
  <2>1. m.nextID \in Nat /\ n.nextID \in Nat
    BY DEF MainOK, Mains
  <2> DEFINE ids == Ids(tw) \cup Ids(w.jobs) \cup Ids(tm) \cup RunningIds(w)
  <2>2. ids \subseteq 1..m.nextID
    BY DEF TransportOK, OneEach
  <2>3. ids \subseteq 1..n.nextID
    <3> HIDE DEF ids
    <3> QED
      BY <2>1, <2>2
  <2> QED
    BY <2>3 DEF TransportOK, OneEach
<1>4. Known(n, tw, w, tm) /\ Present(n, tw, w, tm)
  BY DEF TransportOK, Known, Present, Live, AnswersActive
<1>5. Alone(n, tw, w, tm)
  BY DEF TransportOK, Alone
<1> QED
  BY <1>1, <1>2, <1>3, <1>4, <1>5 DEF TransportOK

\* A disposal leaves what is on its way without promises, and follows it.
LEMMA MdTransportDisposed ==
  ASSUME NEW m, NEW n, NEW k \in Keys, NEW tw, NEW w, NEW tm,
         MainOK(m), Disposed(m, n, k), WayTyped(tw, w, tm), TransportOK(m, tw, w, tm)
  PROVE  LET out == IF WorkerUp(m) THEN Append(tw, Disposal(k)) ELSE tw
         IN TransportOK(n, out, w, tm) /\ WayTyped(out, w, tm) /\ Ids(out) = Ids(tw)
<1> DEFINE out == IF WorkerUp(m) THEN Append(tw, Disposal(k)) ELSE tw
<1>0. /\ \A j \in Keys : Slotted(m, j)
      /\ Matched(m) /\ OneEach(m, tw, w, tm) /\ Known(m, tw, w, tm)
      /\ Present(m, tw, w, tm) /\ Alone(m, tw, w, tm)
  BY DEF TransportOK
<1>1. out \in Seq(Posts) /\ Items(out) = Items(tw) /\ Distinct(out)
  <2>1. Disposal(k) \in Posts /\ ~ IsHeld(Disposal(k))
    BY DEF Disposal, Posts, Disposals, IsHeld
  <2>2. tw \in Seq(Posts) /\ Distinct(tw)
    BY <1>0 DEF WayTyped, OneEach
  <2>3. LET t == Append(tw, Disposal(k))
        IN t \in Seq(Posts) /\ Items(t) = Items(tw) \cup {} /\ Distinct(t)
    BY <2>1, <2>2, MdItemsAppend
  <2> QED
    BY <2>2, <2>3
<1>2. Ids(out) = Ids(tw)
  BY <1>1 DEF Ids
<1> HIDE DEF out
<1>3. /\ DOMAIN n.pending = {i \in DOMAIN m.pending : m.pending[i].key # k}
      /\ \A i \in DOMAIN n.pending : n.pending[i] = m.pending[i]
      /\ \A j \in Keys : n.active[j] = IF j = k THEN None ELSE m.active[j]
      /\ \A j \in Keys : n.queued[j] = IF j = k THEN None ELSE m.queued[j]
      /\ n.keys = m.keys \ {k} /\ n.nextID = m.nextID /\ n.disabled = m.disabled
      /\ m.pending \in PromiseMaps
  BY DEF Disposed, Loses, MainOK, Mains
<1>4. ASSUME NEW j \in Keys PROVE Slotted(n, j)
  BY <1>0, <1>3 DEF Slotted, Asks
<1>5. Matched(n)
  <2> SUFFICES ASSUME NEW i \in DOMAIN n.pending
               PROVE  LET j == n.pending[i].key
                      IN \/ n.active[j] # None /\ n.active[j].id = i
                         \/ n.queued[j] # None /\ n.queued[j].id = i
    BY DEF Matched
  <2>1. i \in DOMAIN m.pending /\ n.pending[i] = m.pending[i] /\ m.pending[i].key # k
        /\ m.pending[i].key \in Keys
    BY <1>3, MdPromises
  <2> QED
    BY <2>1, <1>0, <1>3 DEF Matched
<1>6. OneEach(n, out, w, tm)
  BY <1>0, <1>1, <1>2, <1>3 DEF OneEach
<1>7. Known(n, out, w, tm)
  <2>1. ASSUME NEW r, r.key \in Keys, Live(m, r), r.id \in DOMAIN n.pending,
               r \in HighlightRequests
        PROVE  Live(n, r)
    <3>1. r # None
      BY <2>1, MdNoneAssumption
    <3>2. m.pending[r.id].key = r.key
      BY <2>1, <3>1, <1>0, MdSlots DEF Live
    <3> QED
      BY <2>1, <3>2, <1>3 DEF Live
  <2>2. ASSUME NEW r, r.key \in Keys, AnswersActive(m, r), r.id \in DOMAIN n.pending
        PROVE  AnswersActive(n, r)
    <3>1. m.pending[r.id].key = r.key
      BY <2>2, <1>0, MdSlots DEF AnswersActive
    <3> QED
      BY <2>2, <3>1, <1>3 DEF AnswersActive
  <2>3. \A i \in DOMAIN n.pending : i \in DOMAIN m.pending
    BY <1>3
  <2> QED
    BY <1>0, <1>1, <2>1, <2>2, <2>3, MdWay DEF Known
<1>8. Present(n, out, w, tm)
  BY <1>0, <1>2, <1>3 DEF Present
<1>9. Alone(n, out, w, tm)
  BY <1>0, <1>3 DEF Alone, WorkerUp, out
<1>10. WayTyped(out, w, tm)
  BY <1>1 DEF WayTyped
<1> QED
  BY <1>2, <1>4, <1>5, <1>6, <1>7, <1>8, <1>9, <1>10 DEF TransportOK, out


\* A promise noted and its request sent: posted, or waiting for the active one.
LEMMA MdTransportSent ==
  ASSUME NEW m, NEW p, NEW n, NEW k \in Keys, NEW c \in Codes, NEW tw, NEW w, NEW tm,
         MainOK(m), WayTyped(tw, w, tm), TransportOK(m, tw, w, tm), WorkerUp(m), k \in m.keys,
         m.nextID \in Nat \ {0}, m.nextID \notin DOMAIN m.pending,
         m.nextID \notin Ids(tw) \cup Ids(w.jobs) \cup Ids(tm) \cup RunningIds(w),
         p = Noted(m, k, c), Sent(p, n, Request(m.nextID, k, c))
  PROVE  LET out == IF m.active[k] = None THEN Append(tw, Request(m.nextID, k, c)) ELSE tw
         IN TransportOK(n, out, w, tm) /\ WayTyped(out, w, tm)
<1> DEFINE id  == m.nextID
           req == Request(id, k, c)
           out == IF m.active[k] = None THEN Append(tw, req) ELSE tw
<1>0. /\ \A j \in Keys : Slotted(m, j)
      /\ Matched(m) /\ OneEach(m, tw, w, tm) /\ Known(m, tw, w, tm)
      /\ Present(m, tw, w, tm) /\ Alone(m, tw, w, tm)
  BY DEF TransportOK
<1>1. /\ req \in HighlightRequests /\ req.id = id /\ req.key = k /\ req.code = c
      /\ req # None /\ IsHeld(req) /\ req \in Posts
  BY MdNoneAssumption DEF Request, HighlightRequests, IsHeld, Posts
<1> HIDE DEF req
<1>2. /\ DOMAIN p.pending = DOMAIN m.pending \cup {id}
      /\ p.pending[id] = [key |-> k, code |-> c]
      /\ \A i \in DOMAIN m.pending : p.pending[i] = m.pending[i]
      /\ p.active = m.active /\ p.queued = m.queued /\ p.keys = m.keys
      /\ p.nextID = id /\ p.disabled = m.disabled
  BY DEF Noted, Recorded, MainOK, Mains
<1> DEFINE gone == IF m.active[k] = None \/ m.queued[k] = None THEN {}
                   ELSE {m.queued[k].id}
<1>3. /\ DOMAIN n.pending = (DOMAIN m.pending \cup {id}) \ gone
      /\ \A i \in DOMAIN n.pending : n.pending[i] = p.pending[i]
      /\ n.keys = m.keys /\ n.nextID = id /\ n.disabled = m.disabled
      /\ \A j \in Keys : n.active[j] = IF j = k /\ m.active[k] = None THEN req ELSE m.active[j]
      /\ \A j \in Keys : n.queued[j] = IF j = k /\ m.active[k] # None THEN req ELSE m.queued[j]
  <2>1. Sent(p, n, req)
    BY DEF req
  <2>2. m.active \in [Keys -> HighlightRequests \cup {None}]
        /\ m.queued \in [Keys -> HighlightRequests \cup {None}]
    BY DEF MainOK, Mains
  <2>3. CASE m.active[k] = None
    BY <2>1, <2>2, <2>3, <1>1, <1>2 DEF Sent, Loses
  <2>4. CASE m.active[k] # None
    <3>1. {r.id : r \in {p.queued[k]} \ {None}} \cap DOMAIN p.pending = gone
      <4>1. CASE m.queued[k] = None
        BY <4>1, <1>2
      <4>2. CASE m.queued[k] # None
        <5>1. m.queued[k].id \in DOMAIN p.pending
          BY <4>2, <1>0, <1>2, MdSlots
        <5> QED
          BY <5>1, <4>2, <2>4, <1>2
      <4> QED
        BY <4>1, <4>2
    <3> HIDE DEF gone
    <3> QED
      BY <2>1, <2>2, <2>4, <3>1, <1>1, <1>2 DEF Sent, Loses
  <2> QED
    BY <2>3, <2>4
<1>4. \A i \in gone : i \in DOMAIN m.pending /\ i # id /\ m.pending[i].key = k
                      /\ m.active[k] # None /\ m.queued[k] # None
                      /\ m.queued[k].id = i /\ m.active[k].id < i
  BY <1>0, MdSlots
<1> HIDE DEF gone
<1>5. /\ id \in DOMAIN n.pending /\ n.pending[id] = [key |-> k, code |-> c]
      /\ \A i \in DOMAIN m.pending \ gone :
           i \in DOMAIN n.pending /\ n.pending[i] = m.pending[i] /\ i # id
  BY <1>2, <1>3, <1>4
<1>6. ASSUME NEW j \in Keys PROVE Slotted(n, j)
  <2>1. CASE j # k
    <3>1. n.active[j] = m.active[j] /\ n.queued[j] = m.queued[j]
      BY <2>1, <1>3
    <3>2. \A i \in DOMAIN m.pending : m.pending[i].key = j =>
            i \in DOMAIN n.pending /\ n.pending[i] = m.pending[i]
      BY <2>1, <1>4, <1>5
    <3>3. ASSUME NEW r, Asks(m, r, j) PROVE Asks(n, r, j)
      <4>1. r.key = j /\ r.id \in DOMAIN m.pending
            /\ m.pending[r.id] = [key |-> j, code |-> r.code]
        BY <3>3 DEF Asks
      <4>2. m.pending[r.id].key = j
        BY <4>1
      <4> QED
        BY <4>1, <4>2, <3>2 DEF Asks
    <3> QED
      BY <1>0, <3>1, <3>3, <1>3 DEF Slotted
  <2>2. CASE j = k /\ m.active[k] = None
    <3>1. n.active[k] = req /\ n.queued[k] = m.queued[k] /\ m.queued[k] = None
      BY <2>2, <1>3, <1>0 DEF Slotted
    <3> QED
      BY <2>2, <3>1, <1>1, <1>3, <1>5 DEF Slotted, Asks
  <2>3. CASE j = k /\ m.active[k] # None
    <3>1. n.active[k] = m.active[k] /\ n.queued[k] = req
      BY <2>3, <1>3
    <3>2. Asks(m, m.active[k], k)
      BY <2>3, <1>0 DEF Slotted
    <3>3. m.active[k].id \notin gone
      <4> SUFFICES ASSUME m.active[k].id \in gone PROVE FALSE
        OBVIOUS
      <4>1. m.active[k].id < m.active[k].id
        BY <1>4
      <4>2. m.active[k].id \in Nat
        BY <3>2, MdPromises DEF Asks, MainOK, Mains
      <4> QED
        BY <4>1, <4>2
    <3>4. Asks(n, m.active[k], k)
      BY <3>2, <3>3, <1>5 DEF Asks
    <3>5. m.active[k].id < id
      <4>1. m.active[k].id \in 1..m.nextID /\ m.active[k].id # id
        BY <3>2 DEF Asks, MainOK
      <4> QED
        BY <4>1
    <3> QED
      BY <2>3, <3>1, <3>4, <3>5, <1>1, <1>3, <1>5 DEF Slotted, Asks
  <2> QED
    BY <2>1, <2>2, <2>3
<1>7. Matched(n)
  <2> SUFFICES ASSUME NEW i \in DOMAIN n.pending
               PROVE  LET j == n.pending[i].key
                      IN \/ n.active[j] # None /\ n.active[j].id = i
                         \/ n.queued[j] # None /\ n.queued[j].id = i
    BY DEF Matched
  <2>1. CASE i = id
    <3>1. n.pending[i].key = k
      BY <2>1, <1>5
    <3>2. n.active[k] = req \/ n.queued[k] = req
      BY <1>3
    <3> QED
      BY <2>1, <3>1, <3>2, <1>1
  <2>2. CASE i # id
    <3> DEFINE j == m.pending[i].key
    <3>1. i \in DOMAIN m.pending \ gone /\ n.pending[i] = m.pending[i]
      BY <2>2, <1>3, <1>5
    <3>2. j \in Keys
      BY <3>1, MdPromises DEF MainOK, Mains
    <3>3. \/ m.active[j] # None /\ m.active[j].id = i
          \/ m.queued[j] # None /\ m.queued[j].id = i
      BY <3>1, <1>0 DEF Matched
    <3>4. m.active[j] # None => n.active[j] = m.active[j]
      BY <3>2, <1>3
    <3>5. m.queued[j] # None /\ m.queued[j].id = i => n.queued[j] = m.queued[j]
      <4>1. m.queued[j] # None => m.active[j] # None
        BY <3>2, <1>0, MdSlots
      <4> QED
        BY <4>1, <3>1, <3>2, <1>3 DEF gone
    <3> HIDE DEF j
    <3> QED
      BY <3>1, <3>3, <3>4, <3>5 DEF j
  <2> QED
    BY <2>1, <2>2
<1>8. /\ out \in Seq(Posts) /\ Distinct(out)
      /\ Items(out) = Items(tw) \cup (IF m.active[k] = None THEN {req} ELSE {})
      /\ Ids(out) = Ids(tw) \cup (IF m.active[k] = None THEN {id} ELSE {})
  <2>1. tw \in Seq(Posts) /\ Distinct(tw) /\ id \notin Ids(tw)
    BY <1>0 DEF WayTyped, OneEach
  <2>2. LET t == Append(tw, req)
        IN t \in Seq(Posts) /\ Items(t) = Items(tw) \cup {req} /\ Distinct(t)
    BY <2>1, <1>1, MdItemsAppend
  <2>3. out \in Seq(Posts) /\ Distinct(out)
        /\ Items(out) = Items(tw) \cup (IF m.active[k] = None THEN {req} ELSE {})
    BY <2>1, <2>2
  <2> HIDE DEF out
  <2> QED
    BY <2>3, <1>1 DEF Ids
<1> HIDE DEF out
<1>9. OneEach(n, out, w, tm)
  <2>1. id \in 1..n.nextID
    BY <1>3
  <2>2. /\ Distinct(w.jobs) /\ Distinct(tm)
        /\ Ids(tw) \cap Ids(w.jobs) = {} /\ Ids(tw) \cap Ids(tm) = {}
        /\ Ids(w.jobs) \cap Ids(tm) = {}
        /\ RunningIds(w) \cap (Ids(tw) \cup Ids(w.jobs) \cup Ids(tm)) = {}
        /\ Ids(tw) \cup Ids(w.jobs) \cup Ids(tm) \cup RunningIds(w) \subseteq 1..n.nextID
    BY <1>0, <1>3 DEF OneEach
  <2> HIDE DEF id
  <2>3. id \notin Ids(tw) \cup Ids(w.jobs) \cup Ids(tm) \cup RunningIds(w)
    BY DEF id
  <2> QED
    BY <2>1, <2>2, <2>3, <1>8 DEF OneEach
<1>10. Known(n, out, w, tm)
  <2>1. ASSUME NEW r, r.key \in Keys, r.id \in DOMAIN n.pending, r.id # id
        PROVE  /\ r.id \in DOMAIN m.pending
               /\ r \in HighlightRequests /\ Live(m, r) => Live(n, r)
               /\ AnswersActive(m, r) => AnswersActive(n, r)
    <3>1. r.id \in DOMAIN m.pending
      BY <2>1, <1>3
    <3>2. m.active[r.key] # None => n.active[r.key] = m.active[r.key]
      BY <2>1, <1>3
    <3>3. r \in HighlightRequests => r # None
      BY MdNoneAssumption
    <3> QED
      BY <3>1, <3>2, <3>3 DEF Live, AnswersActive
  <2>2. \A r \in Items(tw) \cup Items(w.jobs) \cup Items(tm) : r.id # id
    BY DEF Ids
  <2>3. w.running # None => w.running.id # id
    BY DEF RunningIds
  <2>4. \A r \in Items(tw) \cup Items(w.jobs) : r.id \in DOMAIN n.pending => Live(n, r)
    BY <2>1, <2>2, <1>0, MdWay DEF Known
  <2>5. w.running # None => (w.running.id \in DOMAIN n.pending => Live(n, w.running))
    BY <2>1, <2>3, <1>0, MdWay DEF Known
  <2>6. \A r \in Items(tm) : r.id \in DOMAIN n.pending => AnswersActive(n, r)
    BY <2>1, <2>2, <1>0, MdWay DEF Known
  <2>7. m.active[k] = None => Live(n, req)
    BY <1>1, <1>3 DEF Live
  <2> QED
    BY <2>4, <2>5, <2>6, <2>7, <1>8 DEF Known
<1>11. Present(n, out, w, tm)
  <2> SUFFICES ASSUME NEW j \in Keys, n.active[j] # None
               PROVE  n.active[j].id \in Ids(out) \cup Ids(w.jobs) \cup RunningIds(w) \cup Ids(tm)
    BY DEF Present
  <2>1. CASE j = k /\ m.active[k] = None
    BY <2>1, <1>1, <1>3, <1>8
  <2>2. CASE ~ (j = k /\ m.active[k] = None)
    <3>1. n.active[j] = m.active[j]
      BY <2>2, <1>3
    <3> QED
      BY <3>1, <1>0, <1>8 DEF Present
  <2> QED
    BY <2>1, <2>2
<1>12. Alone(n, out, w, tm)
  BY <1>3 DEF Alone, WorkerUp
<1>13. WayTyped(out, w, tm)
  BY <1>8 DEF WayTyped
<1> QED
  BY <1>6, <1>7, <1>9, <1>10, <1>11, <1>12, <1>13 DEF TransportOK, out, req


\* An answer is taken: its promise is settled, and if it was the active one's the
\* waiting request is posted.
LEMMA MdTransportAnswered ==
  ASSUME NEW m, NEW b, NEW n, NEW tw, NEW w, NEW tm, NEW k \in Keys, NEW id,
         MainOK(m), WayTyped(tw, w, tm), TransportOK(m, tw, w, tm),
         Taken(m, b, n, tm, k, id)
  PROVE  LET out == IF id \in DOMAIN m.pending /\ m.queued[k] # None
                    THEN Append(tw, m.queued[k]) ELSE tw
         IN /\ TransportOK(n, out, w, Tail(tm)) /\ WayTyped(out, w, Tail(tm))
            /\ id \in DOMAIN m.pending <=> (m.active[k] # None /\ m.active[k].id = id)
<1> DEFINE asked == id \in DOMAIN m.pending
           q     == m.queued[k]
           a     == Head(tm)
           out   == IF asked /\ q # None THEN Append(tw, q) ELSE tw
           ta    == Tail(tm)
<1>a. /\ MainOK(b) /\ tm # << >> /\ k = Head(tm).key /\ id = Head(tm).id
      /\ Loses(m, b, {id} \cap DOMAIN m.pending)
      /\ b.active = m.active /\ b.queued = m.queued /\ b.nextID = m.nextID
      /\ b.disabled = m.disabled
      /\ \/ b.keys = m.keys
         \/ b.keys = m.keys \ {k} /\ m.queued[k] = None /\ id \in DOMAIN m.pending
      /\ Completed(b, n, k, id)
  BY DEF Taken
<1>0. /\ \A j \in Keys : Slotted(m, j)
      /\ Matched(m) /\ OneEach(m, tw, w, tm) /\ Known(m, tw, w, tm)
      /\ Present(m, tw, w, tm) /\ Alone(m, tw, w, tm)
  BY DEF TransportOK
<1>b. /\ \A j \in Keys : m.active[j] # None =>
           /\ m.active[j].id \in DOMAIN m.pending /\ m.active[j].key = j
           /\ m.pending[m.active[j].id].key = j
      /\ \A j \in Keys : m.queued[j] # None =>
           /\ m.queued[j].id \in DOMAIN m.pending /\ m.queued[j].key = j
           /\ m.pending[m.queued[j].id].key = j
           /\ m.active[j] # None /\ m.active[j].id < m.queued[j].id
  BY <1>0, MdSlots
<1> USE <1>a
<1>1. /\ ta \in Seq(Answers) /\ a \in Answers /\ IsHeld(a)
      /\ Items(tm) = Items(ta) \cup {a} /\ Distinct(ta) /\ id \notin Ids(ta)
      /\ a.key = k /\ a.id = id
  <2>1. tm \in Seq(Answers) /\ Distinct(tm)
    BY <1>0 DEF WayTyped, OneEach
  <2>2. /\ ta \in Seq(Answers) /\ a \in Answers
        /\ Items(tm) = Items(ta) \cup (IF IsHeld(a) THEN {a} ELSE {})
        /\ Distinct(ta) /\ (IsHeld(a) => a.id \notin Ids(ta))
    BY <2>1, MdItemsTail
  <2>3. IsHeld(a)
    BY <2>2 DEF Answers, Deltas, Refusals, IsHeld
  <2> QED
    BY <2>2, <2>3
<1> HIDE DEF ta, a
<1>2. Ids(tm) = Ids(ta) \cup {id}
  BY <1>1 DEF Ids
<1>3. asked => m.active[k] # None /\ m.active[k].id = id
  BY <1>0, <1>1 DEF Known, AnswersActive
<1>4. m.active[k] # None /\ m.active[k].id = id => asked
  BY <1>b
<1>5. /\ m.active \in [Keys -> HighlightRequests \cup {None}]
      /\ m.queued \in [Keys -> HighlightRequests \cup {None}]
      /\ m.pending \in PromiseMaps
  BY DEF MainOK, Mains
<1>6. /\ DOMAIN n.pending = DOMAIN m.pending \ {id}
      /\ \A i \in DOMAIN n.pending : n.pending[i] = m.pending[i]
      /\ n.nextID = m.nextID /\ n.disabled = m.disabled /\ n.keys = b.keys
      /\ \A j \in Keys : n.active[j] = IF j = k /\ asked THEN q ELSE m.active[j]
      /\ \A j \in Keys : n.queued[j] = IF j = k /\ asked THEN None ELSE m.queued[j]
  BY <1>3, <1>4, <1>5 DEF Completed, Loses
<1> HIDE DEF asked
<1>7. ASSUME q # None
      PROVE  /\ q \in HighlightRequests /\ q \in Posts /\ IsHeld(q) /\ q.key = k
             /\ q.id \in DOMAIN m.pending /\ q.id \in DOMAIN n.pending
             /\ q.id # id \/ ~asked
             /\ q.id \notin Ids(tw) \cup Ids(w.jobs) \cup Ids(tm) \cup RunningIds(w)
             /\ q.id \in 1..m.nextID
  <2>1. q \in HighlightRequests
    BY <1>5, <1>7
  <2>2. q \in Posts /\ IsHeld(q)
    BY <2>1 DEF Posts, HighlightRequests, IsHeld
  <2>3. /\ q.key = k /\ q.id \in DOMAIN m.pending /\ m.pending[q.id].key = k
        /\ m.active[k] # None /\ m.active[k].id < q.id /\ m.active[k].id \in DOMAIN m.pending
    BY <1>7, <1>b
  <2>4. q.id \in 1..m.nextID /\ m.active[k].id \in 1..m.nextID /\ m.nextID \in Nat
    BY <2>3 DEF MainOK, Mains
  <2>5. m.active[k].id # q.id
    BY <2>3, <2>4
  <2>6. q.id # id
    BY <2>3, <2>5, <1>3 DEF asked
  <2>7. q.id \in DOMAIN n.pending
    BY <2>3, <2>6, <1>6
  <2> HIDE DEF q
  <2>8. ASSUME NEW r, r.key \in Keys, r.id = q.id, r \in HighlightRequests, Live(m, r)
        PROVE  FALSE
    <3>1. m.active[r.key] # None /\ m.active[r.key].id = q.id
      BY <2>8, MdNoneAssumption DEF Live
    <3>2. m.pending[q.id].key = r.key
      BY <2>8, <3>1, <1>b
    <3> QED
      BY <3>1, <3>2, <2>3, <2>5
  <2>9. ASSUME NEW r, r.key \in Keys, r.id = q.id, AnswersActive(m, r)
        PROVE  FALSE
    <3>1. m.active[r.key] # None /\ m.active[r.key].id = q.id
      BY <2>9 DEF AnswersActive
    <3>2. m.pending[q.id].key = r.key
      BY <2>9, <3>1, <1>b
    <3> QED
      BY <3>1, <3>2, <2>3, <2>5
  <2>10. q.id \notin Ids(tw) \cup Ids(w.jobs)
    BY <2>3, <2>8, <1>0, MdWay DEF Ids, Known
  <2>11. q.id \notin RunningIds(w)
    BY <2>3, <2>8, <1>0, MdWay DEF RunningIds, Known
  <2>12. q.id \notin Ids(tm)
    BY <2>3, <2>9, <1>0, MdWay DEF Ids, Known
  <2> QED
    BY <2>1, <2>2, <2>3, <2>4, <2>6, <2>7, <2>10, <2>11, <2>12 DEF q
<1>8. /\ out \in Seq(Posts) /\ Distinct(out)
      /\ Items(out) = Items(tw) \cup (IF asked /\ q # None THEN {q} ELSE {})
      /\ Ids(out) = Ids(tw) \cup (IF asked /\ q # None THEN {q.id} ELSE {})
  <2>1. tw \in Seq(Posts) /\ Distinct(tw)
    BY <1>0 DEF WayTyped, OneEach
  <2>2. q # None => LET t == Append(tw, q)
                    IN t \in Seq(Posts) /\ Items(t) = Items(tw) \cup {q} /\ Distinct(t)
    <3> SUFFICES ASSUME q # None
                 PROVE  LET t == Append(tw, q)
                        IN t \in Seq(Posts) /\ Items(t) = Items(tw) \cup {q} /\ Distinct(t)
      OBVIOUS
    <3>1. q \in Posts /\ IsHeld(q) /\ q.id \notin Ids(tw)
      BY <1>7
    <3> HIDE DEF q
    <3> QED
      BY <3>1, <2>1, MdItemsAppend
  <2>3. out \in Seq(Posts) /\ Distinct(out)
        /\ Items(out) = Items(tw) \cup (IF asked /\ q # None THEN {q} ELSE {})
    BY <2>1, <2>2
  <2> HIDE DEF out, q
  <2> QED
    BY <2>3 DEF Ids
<1> HIDE DEF out
<1>9. ASSUME NEW j \in Keys PROVE Slotted(n, j)
  <2>1. CASE j # k \/ ~asked
    <3>1. n.active[j] = m.active[j] /\ n.queued[j] = m.queued[j]
      BY <2>1, <1>6
    <3>2. ASSUME NEW r, Asks(m, r, j) PROVE Asks(n, r, j)
      <4>1. r.key = j /\ r.id \in DOMAIN m.pending
            /\ m.pending[r.id] = [key |-> j, code |-> r.code]
        BY <3>2 DEF Asks
      <4>2. m.pending[r.id].key = j
        BY <4>1
      <4>3. asked => m.pending[id].key = k
        BY <1>3, <1>b
      <4>4. r.id # id
        BY <2>1, <4>1, <4>2, <4>3 DEF asked
      <4> QED
        BY <4>1, <4>4, <1>6 DEF Asks
    <3>3. j \in m.keys => j \in n.keys
      BY <2>1, <1>6 DEF asked
    <3> QED
      BY <1>0, <3>1, <3>2, <3>3 DEF Slotted
  <2>2. CASE j = k /\ asked
    <3>1. n.active[k] = q /\ n.queued[k] = None
      BY <2>2, <1>6
    <3>2. q # None => Asks(n, q, k) /\ k \in n.keys
      <4> SUFFICES ASSUME q # None PROVE Asks(n, q, k) /\ k \in n.keys
        OBVIOUS
      <4>1. Asks(m, q, k)
        BY <1>0 DEF Slotted
      <4>2. q.id \in DOMAIN n.pending
        BY <1>7
      <4>3. k \in m.keys
        BY <1>0 DEF Slotted
      <4> QED
        BY <4>1, <4>2, <4>3, <1>6 DEF Asks
    <3> HIDE DEF q
    <3> QED
      BY <2>2, <3>1, <3>2 DEF Slotted
  <2> QED
    BY <2>1, <2>2
<1>10. Matched(n)
  <2> SUFFICES ASSUME NEW i \in DOMAIN n.pending
               PROVE  LET j == n.pending[i].key
                      IN \/ n.active[j] # None /\ n.active[j].id = i
                         \/ n.queued[j] # None /\ n.queued[j].id = i
    BY DEF Matched
  <2> DEFINE j == m.pending[i].key
  <2>1. i \in DOMAIN m.pending /\ i # id /\ n.pending[i] = m.pending[i] /\ j \in Keys
    BY <1>5, <1>6, MdPromises
  <2>2. \/ m.active[j] # None /\ m.active[j].id = i
        \/ m.queued[j] # None /\ m.queued[j].id = i
    BY <2>1, <1>0 DEF Matched
  <2> HIDE DEF j
  <2>3. \/ n.active[j] # None /\ n.active[j].id = i
        \/ n.queued[j] # None /\ n.queued[j].id = i
    <3>1. CASE j = k /\ asked
      BY <3>1, <2>1, <2>2, <1>3, <1>6
    <3>2. CASE ~ (j = k /\ asked)
      BY <3>2, <2>1, <2>2, <1>6
    <3> QED
      BY <3>1, <3>2
  <2> QED
    BY <2>1, <2>3 DEF j
<1>11. OneEach(n, out, w, ta)
  <2>2. /\ Distinct(w.jobs)
        /\ Ids(tw) \cap Ids(w.jobs) = {} /\ Ids(tw) \cap Ids(tm) = {}
        /\ Ids(w.jobs) \cap Ids(tm) = {}
        /\ RunningIds(w) \cap (Ids(tw) \cup Ids(w.jobs) \cup Ids(tm)) = {}
        /\ Ids(tw) \cup Ids(w.jobs) \cup Ids(tm) \cup RunningIds(w) \subseteq 1..n.nextID
    BY <1>0, <1>6 DEF OneEach
  <2>3. asked /\ q # None =>
          /\ q.id \notin Ids(tw) \cup Ids(w.jobs) \cup Ids(tm) \cup RunningIds(w)
          /\ q.id \in 1..n.nextID
    BY <1>7, <1>6
  <2> HIDE DEF q
  <2> QED
    BY <2>2, <2>3, <1>1, <1>2, <1>8 DEF OneEach
<1>12. Known(n, out, w, ta)
  <2>1. ASSUME NEW r, r.key \in Keys, r.id \in DOMAIN n.pending
        PROVE  /\ r.id \in DOMAIN m.pending
               /\ r \in HighlightRequests /\ Live(m, r) => Live(n, r)
               /\ AnswersActive(m, r) => AnswersActive(n, r)
    <3>1. r.id \in DOMAIN m.pending /\ r.id # id
      BY <2>1, <1>6
    <3>2. r.key # k \/ ~asked => n.active[r.key] = m.active[r.key]
      BY <2>1, <1>6
    <3>3. r \in HighlightRequests => r # None
      BY MdNoneAssumption
    <3> QED
      BY <3>1, <3>2, <3>3, <1>3 DEF Live, AnswersActive
  <2>4. \A r \in Items(tw) \cup Items(w.jobs) : r.id \in DOMAIN n.pending => Live(n, r)
    BY <2>1, <1>0, MdWay DEF Known
  <2>5. w.running # None => (w.running.id \in DOMAIN n.pending => Live(n, w.running))
    BY <2>1, <1>0, MdWay DEF Known
  <2>6. \A r \in Items(ta) : r.id \in DOMAIN n.pending => AnswersActive(n, r)
    BY <2>1, <1>0, <1>1, MdWay DEF Known
  <2>7. asked /\ q # None => Live(n, q)
    BY <1>6, <1>7 DEF Live
  <2> HIDE DEF q
  <2> QED
    BY <2>4, <2>5, <2>6, <2>7, <1>8 DEF Known
<1>13. Present(n, out, w, ta)
  <2> SUFFICES ASSUME NEW j \in Keys, n.active[j] # None
               PROVE  n.active[j].id \in Ids(out) \cup Ids(w.jobs) \cup RunningIds(w) \cup Ids(ta)
    BY DEF Present
  <2>1. CASE j = k /\ asked
    <3>1. n.active[j] = q /\ q # None
      BY <2>1, <1>6
    <3> HIDE DEF q
    <3> QED
      BY <3>1, <2>1, <1>8
  <2>2. CASE ~ (j = k /\ asked)
    <3>1. n.active[j] = m.active[j]
      BY <2>2, <1>6
    <3>2. m.active[j].id # id
      <4>1. m.active[j].id \in DOMAIN m.pending /\ m.pending[m.active[j].id].key = j
        BY <3>1, <1>b
      <4>2. asked => m.pending[id].key = k
        BY <1>3, <1>b
      <4> QED
        BY <4>1, <4>2, <2>2 DEF asked
    <3> QED
      BY <3>1, <3>2, <1>0, <1>2, <1>8 DEF Present
  <2> QED
    BY <2>1, <2>2
<1>14. Alone(n, out, w, ta)
  BY <1>0, <1>6 DEF Alone, WorkerUp
<1>15. WayTyped(out, w, ta)
  BY <1>1, <1>8 DEF WayTyped
<1> QED
  BY <1>3, <1>4, <1>9, <1>10, <1>11, <1>12, <1>13, <1>14, <1>15
     DEF TransportOK, out, asked, ta


RunningItems(w) == IF w.running = None THEN {} ELSE {w.running}

\* Moving a request on, or answering it, keeps the transport as it should be.
LEMMA MdTransportMoved ==
  ASSUME NEW m, NEW tw, NEW w, NEW tm, NEW tw2, NEW v, NEW tm2,
         TransportOK(m, tw, w, tm), WayTyped(tw, w, tm), WorkerUp(m),
         Distinct(tw2), Distinct(v.jobs), Distinct(tm2),
         Ids(tw2) \cap Ids(v.jobs) = {}, Ids(tw2) \cap Ids(tm2) = {},
         Ids(v.jobs) \cap Ids(tm2) = {},
         RunningIds(v) \cap (Ids(tw2) \cup Ids(v.jobs) \cup Ids(tm2)) = {},
         Ids(tw2) \cup Ids(v.jobs) \cup RunningIds(v) \cup Ids(tm2)
           = Ids(tw) \cup Ids(w.jobs) \cup RunningIds(w) \cup Ids(tm),
         Items(tw2) \cup Items(v.jobs) \cup RunningItems(v)
           \subseteq Items(tw) \cup Items(w.jobs) \cup RunningItems(w),
         \A a \in Items(tm2) : a \in Items(tm)
           \/ \E r \in Items(tw) \cup Items(w.jobs) \cup RunningItems(w) :
                a.id = r.id /\ a.key = r.key
  PROVE  TransportOK(m, tw2, v, tm2)
<1>0. /\ \A j \in Keys : Slotted(m, j)
      /\ Matched(m) /\ OneEach(m, tw, w, tm) /\ Known(m, tw, w, tm)
      /\ Present(m, tw, w, tm) /\ Alone(m, tw, w, tm)
  BY DEF TransportOK
<1>1. OneEach(m, tw2, v, tm2)
  <2>1. Ids(tw) \cup Ids(w.jobs) \cup RunningIds(w) \cup Ids(tm) \subseteq 1..m.nextID
    BY <1>0 DEF OneEach
  <2> DEFINE top == 1..m.nextID
  <2>2. Ids(tw2) \cup Ids(v.jobs) \cup Ids(tm2) \cup RunningIds(v) \subseteq top
    <3>1. Ids(tw) \cup Ids(w.jobs) \cup RunningIds(w) \cup Ids(tm) \subseteq top
      BY <2>1
    <3> HIDE DEF top
    <3> QED
      BY <3>1
  <2> QED
    BY <2>2 DEF OneEach
<1>2. \A r \in Items(tw) \cup Items(w.jobs) \cup RunningItems(w) :
        /\ r # None /\ r.key \in Keys
        /\ r.id \in DOMAIN m.pending => Live(m, r)
  <2>1. \A r \in HighlightRequests : r # None
    BY MdNoneAssumption
  <2> QED
    BY <1>0, <2>1, MdWay DEF Known, RunningItems
<1>3. Known(m, tw2, v, tm2)
  <2>1. \A r \in Items(tw2) \cup Items(v.jobs) : r.id \in DOMAIN m.pending => Live(m, r)
    BY <1>2
  <2>2. v.running # None => (v.running.id \in DOMAIN m.pending => Live(m, v.running))
    BY <1>2 DEF RunningItems
  <2>3. \A a \in Items(tm2) : a.id \in DOMAIN m.pending => AnswersActive(m, a)
    <3> SUFFICES ASSUME NEW a \in Items(tm2), a.id \in DOMAIN m.pending
                 PROVE  AnswersActive(m, a)
      OBVIOUS
    <3>1. CASE a \in Items(tm)
      BY <3>1, <1>0 DEF Known
    <3>2. CASE \E r \in Items(tw) \cup Items(w.jobs) \cup RunningItems(w) :
                 a.id = r.id /\ a.key = r.key
      <4>1. PICK r \in Items(tw) \cup Items(w.jobs) \cup RunningItems(w) :
                 a.id = r.id /\ a.key = r.key
        BY <3>2
      <4>2. r # None /\ m.active[r.key] = r
        BY <4>1, <1>2 DEF Live
      <4> QED
        BY <4>1, <4>2 DEF AnswersActive
    <3> QED
      BY <3>1, <3>2
  <2> QED
    BY <2>1, <2>2, <2>3 DEF Known
<1>4. Present(m, tw2, v, tm2)
  BY <1>0 DEF Present
<1>5. Alone(m, tw2, v, tm2)
  BY DEF Alone
<1> QED
  BY <1>0, <1>1, <1>3, <1>4, <1>5 DEF TransportOK

\* What the worker's queue does with a message.
LEMMA MdEnqueue ==
  ASSUME NEW w \in WorkerStates, w.out = << >>, NEW x \in Posts
  PROVE  LET v == Enqueue(w, x)
         IN /\ v.running = w.running /\ v.streams = w.streams
            /\ [v EXCEPT !.out = << >>] \in WorkerStates
            /\ [v EXCEPT !.out = << >>].jobs = v.jobs
            /\ [v EXCEPT !.out = << >>].running = w.running
            /\ [v EXCEPT !.out = << >>].streams = w.streams
            /\ \/ /\ Slots(w, x.key) = {} /\ v.jobs = Append(w.jobs, x)
                  /\ v.out = << >>
               \/ \E s \in Slots(w, x.key) :
                    /\ v.out = << Superseded(w.jobs[s]) >>
                    /\ v.jobs = IF x.type = "dispose"
                                THEN Append([w.jobs EXCEPT ![s] = Emptied(x.key)], x)
                                ELSE [w.jobs EXCEPT ![s] = x]
<1> DEFINE v == Enqueue(w, x)
           s == CHOOSE i \in Slots(w, x.key) : TRUE
<1>0. /\ w.jobs \in Seq(Jobs) /\ x \in Jobs /\ x.key \in Keys
      /\ DOMAIN w.jobs = 1..Len(w.jobs)
  <2>1. w.jobs \in Seq(Jobs) /\ x \in Jobs
    BY DEF WorkerStates, Jobs
  <2>2. x.key \in Keys
    BY DEF Posts, HighlightRequests, Disposals
  <2> QED
    BY <2>1, <2>2, LenProperties
<1>1. CASE Slots(w, x.key) = {}
  <2>1. v = [w EXCEPT !.jobs = Append(@, x)]
    BY <1>1 DEF Enqueue
  <2>2. Append(w.jobs, x) \in Seq(Jobs)
    BY <1>0, AppendProperties
  <2> HIDE DEF v
  <2> QED
    BY <1>1, <2>1, <2>2 DEF WorkerStates, v
<1>2. CASE Slots(w, x.key) # {}
  <2>1. s \in Slots(w, x.key)
    BY <1>2
  <2>2. v = [w EXCEPT !.out = Append(@, Superseded(w.jobs[s])),
                      !.jobs = IF x.type = "dispose"
                               THEN Append([@ EXCEPT ![s] = Emptied(x.key)], x)
                               ELSE [@ EXCEPT ![s] = x]]
    BY <1>2 DEF Enqueue
  <2> HIDE DEF v, s
  <2>3. s \in 1..Len(w.jobs)
    BY <2>1, <1>0 DEF Slots
  <2>4. Emptied(x.key) \in Jobs
    BY <1>0 DEF Emptied, Jobs, Empties
  <2>5. [w.jobs EXCEPT ![s] = x] \in Seq(Jobs) /\ [w.jobs EXCEPT ![s] = Emptied(x.key)] \in Seq(Jobs)
    BY <1>0, <2>3, <2>4, ExceptSeq
  <2>6. Append([w.jobs EXCEPT ![s] = Emptied(x.key)], x) \in Seq(Jobs)
    BY <1>0, <2>5, AppendProperties
  <2>7. Append(<< >>, Superseded(w.jobs[s])) = << Superseded(w.jobs[s]) >>
    OBVIOUS
  <2>8. /\ v.out = << Superseded(w.jobs[s]) >>
        /\ v.jobs = IF x.type = "dispose"
                    THEN Append([w.jobs EXCEPT ![s] = Emptied(x.key)], x)
                    ELSE [w.jobs EXCEPT ![s] = x]
        /\ v.running = w.running /\ v.streams = w.streams
    BY <2>2, <2>7 DEF WorkerStates
  <2>9. v.jobs \in Seq(Jobs)
    BY <2>5, <2>6, <2>8
  <2>10. /\ [v EXCEPT !.out = << >>] \in WorkerStates
         /\ [v EXCEPT !.out = << >>].jobs = v.jobs
         /\ [v EXCEPT !.out = << >>].running = w.running
         /\ [v EXCEPT !.out = << >>].streams = w.streams
    <3>1. v = [jobs |-> v.jobs, running |-> w.running, streams |-> w.streams, out |-> v.out]
      BY <2>2, <2>8 DEF WorkerStates
    <3> QED
      BY <3>1, <2>9 DEF WorkerStates
  <2> QED
    BY <2>1, <2>8, <2>10 DEF v
<1> QED
  BY <1>1, <1>2

-----------------------------------------------------------------------------
(* What the worker does to the transport. *)

\* One message is posted, or none.
LEMMA MdPosted ==
  ASSUME NEW X, NEW s \in Seq(X), NEW x \in X
  PROVE  s \o << x >> = Append(s, x) /\ s \o << >> = s
<1>1. s \o << x >> = Append(s, x)
  OBVIOUS
<1>2. s \o << >> = s
  OBVIOUS
<1> QED
  BY <1>1, <1>2

\* The worker takes a message: a request of the key that has not started makes way.
LEMMA MdTransportEnqueued ==
  ASSUME NEW m, NEW tw, NEW w, NEW tm,
         TransportOK(m, tw, w, tm), WayTyped(tw, w, tm), WorkerUp(m),
         tw # << >>, w.out = << >>
  PROVE  LET v == Enqueue(w, Head(tw))
             u == [v EXCEPT !.out = << >>]
         IN TransportOK(m, Tail(tw), u, tm \o v.out) /\ WayTyped(Tail(tw), u, tm \o v.out)
<1> DEFINE x  == Head(tw)
           v  == Enqueue(w, x)
           u  == [v EXCEPT !.out = << >>]
           tw2 == Tail(tw)
           tm2 == tm \o v.out
           X == IF IsHeld(x) THEN {x} ELSE {}
           XI == IF IsHeld(x) THEN {x.id} ELSE {}
<1>0. /\ tw \in Seq(Posts) /\ w \in WorkerStates /\ tm \in Seq(Answers)
      /\ w.jobs \in Seq(Jobs)
      /\ OneEach(m, tw, w, tm)
  BY DEF WayTyped, WorkerStates, TransportOK
<1>1. /\ tw2 \in Seq(Posts) /\ x \in Posts
      /\ Items(tw) = Items(tw2) \cup X
      /\ Distinct(tw2) /\ (IsHeld(x) => x.id \notin Ids(tw2))
  BY <1>0, MdItemsTail DEF OneEach
<1>2. Ids(tw) = Ids(tw2) \cup XI
  BY <1>1 DEF Ids
<1>3. x \in Jobs /\ x.key \in Keys /\ (IsHeld(x) <=> x.type = "highlight")
      /\ (IsHeld(x) => x.type # "dispose")
  BY <1>1 DEF Jobs, Posts, HighlightRequests, Disposals, IsHeld
<1>4. /\ v.running = w.running
      /\ u \in WorkerStates /\ u.jobs = v.jobs /\ u.running = w.running
      /\ \/ Slots(w, x.key) = {} /\ v.jobs = Append(w.jobs, x) /\ v.out = << >>
         \/ \E s \in Slots(w, x.key) :
              /\ v.out = << Superseded(w.jobs[s]) >>
              /\ v.jobs = IF x.type = "dispose"
                          THEN Append([w.jobs EXCEPT ![s] = Emptied(x.key)], x)
                          ELSE [w.jobs EXCEPT ![s] = x]
  BY <1>0, <1>1, MdEnqueue
<1> HIDE DEF x, v, u, tw2
<1>5. IsHeld(x) => x.id \notin Ids(w.jobs) /\ x.id \notin Ids(tm) /\ x.id \notin RunningIds(w)
  BY <1>0, <1>2 DEF OneEach
<1>6. /\ Distinct(w.jobs) /\ Distinct(tm)
      /\ Ids(tw2) \cap Ids(w.jobs) = {} /\ Ids(tw2) \cap Ids(tm) = {}
      /\ Ids(w.jobs) \cap Ids(tm) = {}
      /\ RunningIds(w) \cap (Ids(tw2) \cup Ids(w.jobs) \cup Ids(tm)) = {}
      /\ XI \cap (Ids(tw2) \cup Ids(w.jobs) \cup Ids(tm) \cup RunningIds(w)) = {}
  BY <1>0, <1>1, <1>2, <1>5 DEF OneEach
<1>7. RunningIds(u) = RunningIds(w) /\ RunningItems(u) = RunningItems(w)
  BY <1>4 DEF RunningIds, RunningItems
<1>8. CASE Slots(w, x.key) = {} /\ v.jobs = Append(w.jobs, x) /\ v.out = << >>
  <2>1. tm2 = tm
    BY <1>8, <1>0
  <2>2. Items(u.jobs) = Items(w.jobs) \cup X /\ Distinct(u.jobs)
    BY <1>8, <1>4, <1>0, <1>3, <1>5, <1>6, MdItemsAppend
  <2>3. Ids(u.jobs) = Ids(w.jobs) \cup XI
    BY <2>2 DEF Ids
  <2> HIDE DEF tm2, X, XI
  <2>4. TransportOK(m, tw2, u, tm2)
    BY <2>1, <2>2, <2>3, <1>1, <1>2, <1>6, <1>7, MdTransportMoved
  <2> QED
    BY <2>1, <2>4, <1>0, <1>1, <1>4 DEF WayTyped, x, u, v, tw2, tm2
<1>9. ASSUME NEW s \in Slots(w, x.key), v.out = << Superseded(w.jobs[s]) >>,
             v.jobs = IF x.type = "dispose"
                      THEN Append([w.jobs EXCEPT ![s] = Emptied(x.key)], x)
                      ELSE [w.jobs EXCEPT ![s] = x]
      PROVE  TransportOK(m, tw2, u, tm2) /\ WayTyped(tw2, u, tm2)
  <2> DEFINE old == w.jobs[s]
             a == Superseded(old)
  <2>1. /\ s \in Held(w.jobs) /\ old \in Items(w.jobs) /\ old.id \in Ids(w.jobs)
        /\ old.type = "highlight"
    <3>1. s \in DOMAIN w.jobs /\ old.type = "highlight"
      BY DEF Slots
    <3>2. s \in Held(w.jobs)
      BY <3>1 DEF Held, IsHeld
    <3> QED
      BY <3>1, <3>2 DEF Items, Ids
  <2>2. old.key \in Keys /\ old.id \in Nat
    BY <2>1, MdWay
  <2>3. /\ a \in Answers /\ IsHeld(a) /\ a.id = old.id /\ a.key = old.key
    BY <2>2 DEF Superseded, Answers, Refusals, IsHeld
  <2> HIDE DEF a
  <2>4. tm2 = Append(tm, a)
    <3>1. tm \o << a >> = Append(tm, a)
      BY <1>0, <2>3, MdPosted
    <3> QED
      BY <3>1, <1>9 DEF a
  <2>5. /\ tm2 \in Seq(Answers)
        /\ Items(tm2) = Items(tm) \cup {a} /\ Distinct(tm2)
    <3>1. a.id \notin Ids(tm)
      BY <2>1, <2>3, <1>6
    <3> QED
      BY <3>1, <2>3, <2>4, <1>0, <1>6, MdItemsAppend
  <2> HIDE DEF tm2
  <2>6. Ids(tm2) = Ids(tm) \cup {old.id}
    BY <2>3, <2>5 DEF Ids
  <2>7. /\ Items(v.jobs) = {r \in Items(w.jobs) : r.id # old.id} \cup X
        /\ Distinct(v.jobs)
    <3>1. CASE x.type = "dispose"
      <4> DEFINE t == [w.jobs EXCEPT ![s] = Emptied(x.key)]
      <4>1. ~ IsHeld(x)
        BY <3>1, <1>3
      <4>2. Emptied(x.key) \in Jobs /\ ~ IsHeld(Emptied(x.key))
        BY <1>3 DEF Emptied, Jobs, Empties, IsHeld
      <4>3. /\ t \in Seq(Jobs) /\ Items(t) = {r \in Items(w.jobs) : r.id # old.id}
            /\ Distinct(t)
        BY <4>2, <2>1, <1>0, <1>6, MdItemsReplace
      <4>4. v.jobs = Append(t, x)
        BY <3>1, <1>9
      <4> HIDE DEF t
      <4> QED
        BY <4>1, <4>3, <4>4, <1>3, MdItemsAppend
    <3>2. CASE x.type # "dispose"
      <4>1. v.jobs = [w.jobs EXCEPT ![s] = x]
        BY <3>2, <1>9
      <4> QED
        BY <4>1, <2>1, <1>0, <1>3, <1>5, <1>6, MdItemsReplace
    <3> QED
      BY <3>1, <3>2
  <2>8. Ids(v.jobs) = (Ids(w.jobs) \ {old.id}) \cup XI
    BY <2>7 DEF Ids
  <2>9. \A b \in Items(tm2) : b \in Items(tm)
          \/ \E r \in Items(tw) \cup Items(w.jobs) \cup RunningItems(w) :
               b.id = r.id /\ b.key = r.key
    BY <2>1, <2>3, <2>5
  <2> DEFINE oid == old.id
  <2>10. /\ Ids(tm2) = Ids(tm) \cup {oid} /\ Ids(u.jobs) = (Ids(w.jobs) \ {oid}) \cup XI
         /\ oid \in Ids(w.jobs) /\ Distinct(u.jobs)
    BY <2>1, <2>6, <2>7, <2>8, <1>4
  <2>11. Items(u.jobs) \subseteq Items(w.jobs) \cup X
    BY <2>7, <1>4
  <2> HIDE DEF old, oid, X, XI
  <2>12. /\ Ids(tw2) \cap Ids(u.jobs) = {} /\ Ids(tw2) \cap Ids(tm2) = {}
         /\ Ids(u.jobs) \cap Ids(tm2) = {}
         /\ RunningIds(u) \cap (Ids(tw2) \cup Ids(u.jobs) \cup Ids(tm2)) = {}
         /\ Ids(tw2) \cup Ids(u.jobs) \cup RunningIds(u) \cup Ids(tm2)
              = Ids(tw) \cup Ids(w.jobs) \cup RunningIds(w) \cup Ids(tm)
    BY <2>10, <1>2, <1>6, <1>7
  <2>13. Items(tw2) \cup Items(u.jobs) \cup RunningItems(u)
           \subseteq Items(tw) \cup Items(w.jobs) \cup RunningItems(w)
    BY <2>11, <1>1, <1>7
  <2>14. TransportOK(m, tw2, u, tm2)
    BY <2>5, <2>9, <2>10, <2>12, <2>13, <1>1, MdTransportMoved
  <2> QED
    BY <2>5, <2>14, <1>1, <1>4 DEF WayTyped
<1> QED
  BY <1>4, <1>8, <1>9 DEF x, u, v, tw2

\* The worker starts a job.
LEMMA MdTransportStarted ==
  ASSUME NEW m, NEW tw, NEW w, NEW tm,
         TransportOK(m, tw, w, tm), WayTyped(tw, w, tm), WorkerUp(m),
         w.jobs # << >>, w.running = None, w.out = << >>
  PROVE  LET v == StartJob(w)
         IN /\ TransportOK(m, tw, v, tm) /\ WayTyped(tw, v, tm)
            /\ v.out = << >> /\ v.jobs = Tail(w.jobs)
            /\ v.running = (IF Head(w.jobs).type = "highlight" THEN Head(w.jobs) ELSE None)
            /\ v.streams = IF Head(w.jobs).type = "dispose"
                           THEN [w.streams EXCEPT ![Head(w.jobs).key] = None] ELSE w.streams
<1> DEFINE x == Head(w.jobs)
           v == StartJob(w)
           X == IF IsHeld(x) THEN {x} ELSE {}
           XI == IF IsHeld(x) THEN {x.id} ELSE {}
<1>0. /\ tw \in Seq(Posts) /\ w \in WorkerStates /\ tm \in Seq(Answers)
      /\ w.jobs \in Seq(Jobs)
      /\ OneEach(m, tw, w, tm)
  BY DEF WayTyped, WorkerStates, TransportOK
<1>1. /\ Tail(w.jobs) \in Seq(Jobs) /\ x \in Jobs
      /\ Items(w.jobs) = Items(Tail(w.jobs)) \cup X
      /\ Distinct(Tail(w.jobs)) /\ (IsHeld(x) => x.id \notin Ids(Tail(w.jobs)))
  BY <1>0, MdItemsTail DEF OneEach
<1>2. Ids(w.jobs) = Ids(Tail(w.jobs)) \cup XI
  BY <1>1 DEF Ids
<1>3. /\ x.type \in {"highlight", "dispose", "empty"} /\ x.key \in Keys
      /\ IsHeld(x) <=> x.type = "highlight"
      /\ x.type = "highlight" => x \in HighlightRequests /\ x # None
  BY <1>1, MdNoneAssumption DEF Jobs, Posts, HighlightRequests, Disposals, Empties, IsHeld
<1>4. /\ v \in WorkerStates /\ v.out = << >> /\ v.jobs = Tail(w.jobs)
      /\ v.running = (IF x.type = "highlight" THEN x ELSE None)
      /\ v.streams = IF x.type = "dispose" THEN [w.streams EXCEPT ![x.key] = None] ELSE w.streams
  <2> HIDE DEF x
  <2>1. StartJob(w) =
          CASE x.type = "dispose" -> [[w EXCEPT !.jobs = Tail(@)] EXCEPT !.streams[x.key] = None]
            [] x.type = "highlight" -> [[w EXCEPT !.jobs = Tail(@)] EXCEPT !.running = x]
            [] x.type = "empty" -> [w EXCEPT !.jobs = Tail(@)]
    BY DEF StartJob, x
  <2>2. CASE x.type = "dispose"
    <3>1. v = [w EXCEPT !.jobs = Tail(w.jobs), !.streams = [w.streams EXCEPT ![x.key] = None]]
      BY <2>1, <2>2, <1>0 DEF WorkerStates
    <3>2. [w.streams EXCEPT ![x.key] = None] \in [Keys -> {c \in Codes : ~c.complete} \cup {None}]
      BY <1>0 DEF WorkerStates
    <3> HIDE DEF v
    <3> QED
      BY <2>2, <3>1, <3>2, <1>0, <1>1 DEF WorkerStates
  <2>3. CASE x.type = "highlight"
    BY <2>1, <2>3, <1>0, <1>1, <1>3 DEF WorkerStates
  <2>4. CASE x.type = "empty"
    BY <2>1, <2>4, <1>0, <1>1, <1>3 DEF WorkerStates
  <2> QED
    BY <2>2, <2>3, <2>4, <1>3
<1> HIDE DEF x, v
<1>5. RunningIds(v) = XI /\ RunningItems(v) = X /\ RunningIds(w) = {} /\ RunningItems(w) = {}
  BY <1>3, <1>4 DEF RunningIds, RunningItems
<1> HIDE DEF X, XI
<1>6. XI \cap Ids(v.jobs) = {}
  BY <1>1, <1>4 DEF XI
<1>7. Ids(w.jobs) = Ids(v.jobs) \cup XI /\ Items(w.jobs) = Items(v.jobs) \cup X
      /\ Distinct(v.jobs)
  BY <1>1, <1>2, <1>4
<1>8. /\ Ids(tw) \cap Ids(v.jobs) = {} /\ Ids(tw) \cap Ids(tm) = {}
      /\ Ids(v.jobs) \cap Ids(tm) = {} /\ Distinct(tw) /\ Distinct(tm)
      /\ RunningIds(v) \cap (Ids(tw) \cup Ids(v.jobs) \cup Ids(tm)) = {}
      /\ Ids(tw) \cup Ids(v.jobs) \cup RunningIds(v) \cup Ids(tm)
           = Ids(tw) \cup Ids(w.jobs) \cup RunningIds(w) \cup Ids(tm)
  BY <1>0, <1>5, <1>6, <1>7 DEF OneEach
<1>9. TransportOK(m, tw, v, tm)
  BY <1>5, <1>7, <1>8, MdTransportMoved
<1> QED
  BY <1>0, <1>4, <1>9 DEF WayTyped, v, x

\* The request at the worker is answered, by a delta or by an error.
LEMMA MdTransportReplied ==
  ASSUME NEW m, NEW tw, NEW w, NEW tm, NEW v, NEW a \in Answers,
         TransportOK(m, tw, w, tm), WayTyped(tw, w, tm), WorkerUp(m), w.running # None,
         v \in WorkerStates, v.jobs = w.jobs, v.running = None,
         a.id = w.running.id, a.key = w.running.key
  PROVE  TransportOK(m, tw, v, tm \o << a >>) /\ WayTyped(tw, v, tm \o << a >>)
<1> DEFINE t == tm \o << a >>
<1>0. /\ tw \in Seq(Posts) /\ tm \in Seq(Answers) /\ OneEach(m, tw, w, tm)
  BY DEF WayTyped, TransportOK
<1>1. t = Append(tm, a)
  BY <1>0, MdPosted
<1>2. IsHeld(a)
  BY DEF Answers, Deltas, Refusals, IsHeld
<1>3. RunningIds(w) = {a.id} /\ RunningItems(w) = {w.running}
      /\ RunningIds(v) = {} /\ RunningItems(v) = {}
  BY DEF RunningIds, RunningItems
<1>4. a.id \notin Ids(tm)
  BY <1>0, <1>3 DEF OneEach
<1>5. t \in Seq(Answers) /\ Items(t) = Items(tm) \cup {a} /\ Distinct(t)
  <2>1. Distinct(tm)
    BY <1>0 DEF OneEach
  <2>2. LET u == Append(tm, a)
        IN u \in Seq(Answers) /\ Items(u) = Items(tm) \cup {a} /\ Distinct(u)
    BY <2>1, <1>0, <1>2, <1>4, MdItemsAppend
  <2> QED
    BY <2>2, <1>1
<1> HIDE DEF t
<1>6. Ids(t) = Ids(tm) \cup {a.id}
  BY <1>5 DEF Ids
<1>7. \A b \in Items(t) : b \in Items(tm)
        \/ \E r \in Items(tw) \cup Items(w.jobs) \cup RunningItems(w) :
             b.id = r.id /\ b.key = r.key
  BY <1>3, <1>5
<1>8. /\ Distinct(tw) /\ Distinct(v.jobs)
      /\ Ids(tw) \cap Ids(v.jobs) = {} /\ Ids(tw) \cap Ids(t) = {}
      /\ Ids(v.jobs) \cap Ids(t) = {}
      /\ RunningIds(v) \cap (Ids(tw) \cup Ids(v.jobs) \cup Ids(t)) = {}
      /\ Ids(tw) \cup Ids(v.jobs) \cup RunningIds(v) \cup Ids(t)
           = Ids(tw) \cup Ids(w.jobs) \cup RunningIds(w) \cup Ids(tm)
      /\ Items(tw) \cup Items(v.jobs) \cup RunningItems(v)
           \subseteq Items(tw) \cup Items(w.jobs) \cup RunningItems(w)
  BY <1>0, <1>3, <1>6 DEF OneEach
<1>9. TransportOK(m, tw, v, t)
  BY <1>5, <1>7, <1>8, MdTransportMoved
<1> QED
  BY <1>0, <1>5, <1>9 DEF WayTyped, t

-----------------------------------------------------------------------------
(* Disposals on a port or in the queue. *)

\* The places of a sequence to which an element is appended.
LEMMA MdAppendAt ==
  ASSUME NEW X, NEW s \in Seq(X), NEW x \in X
  PROVE  LET t == Append(s, x)
         IN /\ t \in Seq(X) /\ Len(s) \in Nat /\ DOMAIN s = 1..Len(s)
            /\ DOMAIN t = DOMAIN s \cup {Len(s) + 1} /\ Len(s) + 1 \notin DOMAIN s
            /\ \A i \in DOMAIN s : t[i] = s[i] /\ s[i] \in X /\ i \in Nat /\ i < Len(s) + 1
            /\ t[Len(s) + 1] = x
<1> DEFINE t == Append(s, x)
<1>1. /\ t \in Seq(X) /\ Len(t) = Len(s) + 1
      /\ \A i \in 1..Len(s) : t[i] = s[i]
      /\ t[Len(s) + 1] = x
  BY AppendProperties
<1>2. DOMAIN t = 1..Len(t) /\ DOMAIN s = 1..Len(s) /\ Len(s) \in Nat
  BY <1>1, LenProperties
<1>3. \A i \in DOMAIN s : s[i] \in X
  OBVIOUS
<1> HIDE DEF t
<1> QED
  BY <1>1, <1>2, <1>3 DEF t

\* The places of a sequence whose first element is taken.
LEMMA MdTailAt ==
  ASSUME NEW X, NEW s \in Seq(X), s # << >>
  PROVE  LET t == Tail(s)
         IN /\ t \in Seq(X) /\ 1 \in DOMAIN s /\ Head(s) = s[1] /\ Head(s) \in X
            /\ DOMAIN s \subseteq Nat /\ DOMAIN t \subseteq Nat
            /\ \A i \in DOMAIN t : t[i] = s[i + 1] /\ i + 1 \in DOMAIN s /\ i + 1 # 1
            /\ \A i \in DOMAIN s : i # 1 => i - 1 \in DOMAIN t /\ t[i - 1] = s[i] /\ i > 1
<1> DEFINE t == Tail(s)
<1>1. /\ t \in Seq(X) /\ Head(s) \in X /\ Len(t) = Len(s) - 1
      /\ \A i \in 1..Len(t) : t[i] = s[i + 1]
  BY HeadTailProperties
<1>2. DOMAIN t = 1..Len(t) /\ DOMAIN s = 1..Len(s) /\ Len(s) \in Nat
  BY <1>1, LenProperties
<1>3. Len(s) # 0 /\ Head(s) = s[1]
  <2>1. Len(s) \in Nat \ {0}
    BY EmptySeq
  <2> QED
    BY <2>1
<1> HIDE DEF t
<1> QED
  BY <1>1, <1>2, <1>3 DEF t

\* The disposals of a port on which a message is posted.
LEMMA MdDisposalAppend ==
  ASSUME NEW X, NEW s \in Seq(X), NEW x \in X, NEW k
  PROVE  LET t == Append(s, x)
             d == x.type = "dispose" /\ x.key = k
         IN /\ DisposalIn(t, k) <=> DisposalIn(s, k) \/ d
            /\ \A i \in DOMAIN s : DisposalAfter(t, i, k) <=> DisposalAfter(s, i, k) \/ d
            /\ ~ DisposalAfter(t, Len(s) + 1, k)
<1> DEFINE t == Append(s, x)
           d == x.type = "dispose" /\ x.key = k
<1>1. /\ Len(s) \in Nat /\ DOMAIN s = 1..Len(s)
      /\ DOMAIN t = DOMAIN s \cup {Len(s) + 1}
      /\ \A i \in DOMAIN s : t[i] = s[i] /\ i \in Nat /\ i < Len(s) + 1
      /\ t[Len(s) + 1] = x
  BY MdAppendAt
<1> HIDE DEF t
<1>2. DisposalIn(t, k) <=> DisposalIn(s, k) \/ d
  BY <1>1 DEF DisposalIn
<1>3. \A i \in DOMAIN s : DisposalAfter(t, i, k) <=> DisposalAfter(s, i, k) \/ d
  BY <1>1 DEF DisposalAfter
<1>4. ~ DisposalAfter(t, Len(s) + 1, k)
  BY <1>1 DEF DisposalAfter
<1> QED
  BY <1>2, <1>3, <1>4 DEF t

\* The disposals of a port from which a message is taken.
LEMMA MdDisposalTail ==
  ASSUME NEW X, NEW s \in Seq(X), s # << >>, NEW k
  PROVE  LET t == Tail(s)
             d == s[1].type = "dispose" /\ s[1].key = k
         IN /\ DisposalIn(s, k) <=> DisposalIn(t, k) \/ d
            /\ \A i \in DOMAIN t : DisposalAfter(t, i, k) <=> DisposalAfter(s, i + 1, k)
            /\ DisposalAfter(s, 1, k) <=> DisposalIn(t, k)
<1> DEFINE t == Tail(s)
           d == s[1].type = "dispose" /\ s[1].key = k
<1>1. /\ 1 \in DOMAIN s /\ DOMAIN s \subseteq Nat /\ DOMAIN t \subseteq Nat
      /\ \A i \in DOMAIN t : t[i] = s[i + 1] /\ i + 1 \in DOMAIN s /\ i + 1 # 1
      /\ \A i \in DOMAIN s : i # 1 => i - 1 \in DOMAIN t /\ t[i - 1] = s[i] /\ i > 1
  BY MdTailAt
<1> HIDE DEF t
<1>2. DisposalIn(s, k) <=> DisposalIn(t, k) \/ d
  BY <1>1 DEF DisposalIn
<1>3. ASSUME NEW i \in DOMAIN t
      PROVE  DisposalAfter(t, i, k) <=> DisposalAfter(s, i + 1, k)
  <2>1. ASSUME NEW j \in DOMAIN t, j > i, t[j].type = "dispose", t[j].key = k
        PROVE  DisposalAfter(s, i + 1, k)
    <3> DEFINE h == j + 1
    <3>0. i \in Nat /\ j \in Nat
      BY <1>1
    <3>1. h \in DOMAIN s /\ h > i + 1 /\ s[h] = t[j]
      BY <3>0, <2>1, <1>1
    <3> QED
      BY <2>1, <3>1 DEF DisposalAfter
  <2>2. ASSUME NEW j \in DOMAIN s, j > i + 1, s[j].type = "dispose", s[j].key = k
        PROVE  DisposalAfter(t, i, k)
    <3> DEFINE h == j - 1
    <3>0. i \in Nat /\ j \in Nat
      BY <1>1
    <3>1. j # 1
      BY <3>0, <2>2
    <3>2. h \in DOMAIN t /\ h > i /\ t[h] = s[j]
      BY <1>1, <2>2, <3>0, <3>1
    <3> QED
      BY <2>2, <3>2 DEF DisposalAfter
  <2> QED
    BY <2>1, <2>2 DEF DisposalAfter
<1>4. DisposalAfter(s, 1, k) <=> DisposalIn(t, k)
  <2>1. ASSUME NEW j \in DOMAIN t, t[j].type = "dispose", t[j].key = k
        PROVE  DisposalAfter(s, 1, k)
    <3> DEFINE h == j + 1
    <3>1. h \in DOMAIN s /\ h # 1 /\ s[h] = t[j]
      BY <1>1
    <3>2. h > 1
      BY <1>1, <3>1
    <3> QED
      BY <2>1, <3>1, <3>2 DEF DisposalAfter
  <2>2. ASSUME NEW j \in DOMAIN s, j > 1, s[j].type = "dispose", s[j].key = k
        PROVE  DisposalIn(t, k)
    <3>1. j # 1
      BY <1>1, <2>2
    <3>2. j - 1 \in DOMAIN t /\ t[j - 1] = s[j]
      BY <1>1, <3>1
    <3> QED
      BY <2>2, <3>2 DEF DisposalIn
  <2> QED
    BY <2>1, <2>2 DEF DisposalIn, DisposalAfter
<1> QED
  BY <1>2, <1>3, <1>4 DEF t

\* The disposals of a queue in which a job is replaced.
LEMMA MdDisposalReplace ==
  ASSUME NEW X, NEW s \in Seq(X), NEW p \in DOMAIN s, NEW x \in X, NEW k,
         s[p].type # "dispose", x.type # "dispose" \/ x.key # k
  PROVE  LET t == [s EXCEPT ![p] = x]
         IN /\ DisposalIn(t, k) <=> DisposalIn(s, k)
            /\ \A i \in DOMAIN s : DisposalAfter(t, i, k) <=> DisposalAfter(s, i, k)
<1> DEFINE t == [s EXCEPT ![p] = x]
<1>1. DOMAIN t = DOMAIN s /\ t[p] = x /\ \A i \in DOMAIN s : i # p => t[i] = s[i]
  OBVIOUS
<1> HIDE DEF t
<1>2. DisposalIn(t, k) <=> DisposalIn(s, k)
  BY <1>1 DEF DisposalIn
<1>3. \A i \in DOMAIN s : DisposalAfter(t, i, k) <=> DisposalAfter(s, i, k)
  BY <1>1 DEF DisposalAfter
<1> QED
  BY <1>2, <1>3 DEF t


-----------------------------------------------------------------------------
(* Deltas and the steps of the page. *)

\* What is on its way and has the id of the active request is that request.
LEMMA MdActiveOnly ==
  ASSUME NEW m, NEW tw, NEW w, NEW tm, TransportOK(m, tw, w, tm), WayTyped(tw, w, tm),
         NEW k \in Keys, m.active[k] # None
  PROVE  /\ m.active[k].key = k
         /\ \A r \in Items(tw) \cup Items(w.jobs) \cup RunningItems(w) :
              r.id = m.active[k].id => r = m.active[k]
<1>1. m.active[k].id \in DOMAIN m.pending /\ m.active[k].key = k
      /\ m.pending[m.active[k].id].key = k
  BY MdSlots DEF TransportOK
<1>2. ASSUME NEW r \in Items(tw) \cup Items(w.jobs) \cup RunningItems(w),
             r.id = m.active[k].id
      PROVE  r = m.active[k]
  <2>1. r.key \in Keys /\ r # None
    BY MdWay, MdNoneAssumption DEF RunningItems
  <2>2. m.active[r.key] = r
    BY <1>1, <1>2 DEF TransportOK, Known, Live, RunningItems
  <2>3. m.pending[r.id].key = r.key
    BY <2>1, <2>2, MdSlots DEF TransportOK
  <2> QED
    BY <1>1, <1>2, <2>2, <2>3
<1> QED
  BY <1>1, <1>2

\* Only the active request and the state of a key matter to its deltas.
LEMMA MdStepSame ==
  ASSUME NEW m, NEW n, NEW tw, NEW w, NEW tm, NEW k,
         n.active[k] = m.active[k], n.states[k] = m.states[k], InStep(m, tw, w, tm, k)
  PROVE  InStep(n, tw, w, tm, k)
<1>1. Ordered(n, tw, w, k)
  BY DEF InStep, Ordered, Live
<1>2. \A i : LiveAnswer(n, tm, i, k) <=> LiveAnswer(m, tm, i, k)
  BY DEF LiveAnswer
<1>3. \A a : Fits(n, w, a, k) <=> Fits(m, w, a, k)
  BY DEF Fits
<1>4. Continues(n, w, k) <=> Continues(m, w, k)
  BY DEF Continues
<1> QED
  BY <1>1, <1>2, <1>3, <1>4 DEF InStep

\* A message about another block.
LEMMA MdStepOther ==
  ASSUME NEW m, NEW tw \in Seq(Posts), NEW w, NEW tm, NEW k, NEW x \in Posts, x.key # k,
         InStep(m, tw, w, tm, k)
  PROVE  InStep(m, Append(tw, x), w, tm, k)
<1> DEFINE t == Append(tw, x)
<1>1. /\ DOMAIN t = DOMAIN tw \cup {Len(tw) + 1}
      /\ \A i \in DOMAIN tw : t[i] = tw[i]
      /\ t[Len(tw) + 1] = x
  BY MdAppendAt
<1>2. /\ DisposalIn(t, k) <=> DisposalIn(tw, k)
      /\ \A i \in DOMAIN tw : DisposalAfter(t, i, k) <=> DisposalAfter(tw, i, k)
  BY MdDisposalAppend
<1> HIDE DEF t
<1>3. Ordered(m, t, w, k)
  BY <1>1, <1>2 DEF InStep, Ordered
<1>4. Undisposed(t, w, k) <=> Undisposed(tw, w, k)
  BY <1>2 DEF Undisposed
<1> QED
  BY <1>3, <1>4 DEF InStep, t

\* The block's disposal follows everything that was posted about it.
LEMMA MdStepDisposed ==
  ASSUME NEW m, NEW n, NEW tw, NEW w, NEW tm, WayTyped(tw, w, tm), NEW k \in Keys,
         n.active[k] = None, InStep(m, tw, w, tm, k)
  PROVE  InStep(n, Append(tw, Disposal(k)), w, tm, k)
<1> DEFINE x == Disposal(k)
           t == Append(tw, x)
<1>1. x \in Posts /\ x.type = "dispose" /\ x.key = k /\ tw \in Seq(Posts) /\ w \in WorkerStates
  BY DEF Disposal, Posts, Disposals, WayTyped
<1>2. /\ DOMAIN t = DOMAIN tw \cup {Len(tw) + 1}
      /\ \A i \in DOMAIN tw : t[i] = tw[i] /\ tw[i] \in Posts
      /\ t[Len(tw) + 1] = x
  BY <1>1, MdAppendAt
<1>3. /\ DisposalIn(t, k)
      /\ \A i \in DOMAIN tw : DisposalAfter(t, i, k)
  BY <1>1, MdDisposalAppend
<1> HIDE DEF t, x
<1>4. /\ \A i \in DOMAIN t : t[i].type = "highlight" => i \in DOMAIN tw
      /\ \A i \in DOMAIN tw : tw[i].type = "highlight" => tw[i] # None
      /\ \A i \in DOMAIN w.jobs : w.jobs[i].type = "highlight" => w.jobs[i] # None
  <2>1. \A r \in Jobs : r.type = "highlight" => r # None
    BY MdNoneAssumption DEF Jobs, Posts, HighlightRequests, Disposals, Empties
  <2>2. w.jobs \in Seq(Jobs)
    BY <1>1 DEF WorkerStates
  <2>3. \A i \in DOMAIN w.jobs : w.jobs[i] \in Jobs
    BY <2>2
  <2>4. Posts \subseteq Jobs
    BY DEF Jobs
  <2> QED
    BY <1>1, <1>2, <2>1, <2>3, <2>4
<1>5. Ordered(n, t, w, k)
  BY <1>2, <1>3, <1>4 DEF InStep, Ordered, Live
<1> QED
  BY <1>3, <1>5 DEF InStep, Undisposed, LiveAnswer, t, x

\* A request is posted for a block that has none at the worker.
LEMMA MdStepPosted ==
  ASSUME NEW m, NEW n, NEW tw, NEW w, NEW tm, WayTyped(tw, w, tm), NEW k \in Keys,
         NEW req \in HighlightRequests, req.key = k,
         req.id \notin Ids(tw) \cup Ids(w.jobs) \cup RunningIds(w) \cup Ids(tm),
         m.active[k] = None, n.active[k] = req, n.states[k] = m.states[k],
         InStep(m, tw, w, tm, k)
  PROVE  InStep(n, Append(tw, req), w, tm, k)
<1> DEFINE t == Append(tw, req)
<1>1. /\ req \in Posts /\ req.type = "highlight" /\ tw \in Seq(Posts)
      /\ w \in WorkerStates /\ tm \in Seq(Answers) /\ w.jobs \in Seq(Jobs)
  BY DEF Posts, HighlightRequests, WayTyped, WorkerStates
<1>2. /\ DOMAIN t = DOMAIN tw \cup {Len(tw) + 1} /\ Len(tw) + 1 \notin DOMAIN tw
      /\ \A i \in DOMAIN tw : t[i] = tw[i] /\ tw[i] \in Posts
      /\ t[Len(tw) + 1] = req
  BY <1>1, MdAppendAt
<1>3. /\ DisposalIn(t, k) <=> DisposalIn(tw, k)
      /\ \A i \in DOMAIN tw : DisposalAfter(t, i, k) <=> DisposalAfter(tw, i, k)
      /\ ~ DisposalAfter(t, Len(tw) + 1, k)
  BY <1>1, MdDisposalAppend
<1> HIDE DEF t
<1>4. /\ \A i \in DOMAIN tw : tw[i].type = "highlight" => tw[i] # None /\ tw[i] # req
      /\ \A i \in DOMAIN w.jobs : w.jobs[i].type = "highlight" =>
           w.jobs[i] # None /\ w.jobs[i] # req
      /\ \A i \in DOMAIN tm : tm[i].id # req.id
      /\ w.running # req
  <2>1. \A r \in Jobs : r.type = "highlight" => r # None
    BY MdNoneAssumption DEF Jobs, Posts, HighlightRequests, Disposals, Empties
  <2>2. \A i \in DOMAIN w.jobs : w.jobs[i] \in Jobs
    BY <1>1
  <2>3. Posts \subseteq Jobs
    BY DEF Jobs
  <2>4. \A i \in DOMAIN tm : tm[i] \in Answers
    BY <1>1
  <2>5. \A i \in DOMAIN tm : tm[i].type \notin {"dispose", "empty"}
    BY <2>4 DEF Answers, Deltas, Refusals
  <2>6. req # None
    BY MdNoneAssumption
  <2> QED
    BY <1>2, <2>1, <2>2, <2>3, <2>5, <2>6 DEF Ids, Items, Held, IsHeld, RunningIds
<1>5. Ordered(n, t, w, k)
  <2>1. ASSUME NEW i \in DOMAIN t, t[i].type = "highlight", t[i].key = k
        PROVE  Live(n, t[i]) <=> ~ DisposalAfter(t, i, k)
    <3>1. CASE i \in DOMAIN tw
      <4>1. t[i] = tw[i] /\ t[i] # None /\ t[i] # req
        BY <3>1, <2>1, <1>2, <1>4
      <4>2. Live(m, tw[i]) <=> ~ DisposalAfter(tw, i, k)
        BY <3>1, <2>1, <4>1 DEF InStep, Ordered
      <4> QED
        BY <2>1, <3>1, <4>1, <4>2, <1>3 DEF Live
    <3>2. CASE i = Len(tw) + 1
      BY <3>2, <1>2, <1>3 DEF Live
    <3> QED
      BY <2>1, <3>1, <3>2, <1>2
  <2>2. ASSUME NEW r, r # None, r # req, r.key = k
        PROVE  ~ Live(m, r) /\ ~ Live(n, r)
    BY <2>2 DEF Live
  <2> QED
    BY <2>1, <2>2, <1>3, <1>4 DEF InStep, Ordered
<1>6. \A i : ~ LiveAnswer(n, tm, i, k) /\ ~ LiveAnswer(m, tm, i, k)
  BY <1>4 DEF LiveAnswer
<1>7. Undisposed(t, w, k) <=> Undisposed(tw, w, k)
  BY <1>3 DEF Undisposed
<1>8. Continues(m, w, k) <=> Continues(n, w, k)
  BY DEF Continues
<1> QED
  BY <1>5, <1>6, <1>7, <1>8 DEF InStep, t

\* An answer that is not for the block's request goes by.
LEMMA MdStepSkipped ==
  ASSUME NEW m, NEW tw, NEW w, NEW tm, tm \in Seq(Answers), tm # << >>, NEW k,
         ~ LiveAnswer(m, tm, 1, k), InStep(m, tw, w, tm, k)
  PROVE  InStep(m, tw, w, Tail(tm), k)
<1> DEFINE t == Tail(tm)
<1>1. /\ DOMAIN tm \subseteq Nat /\ DOMAIN t \subseteq Nat
      /\ \A i \in DOMAIN t : t[i] = tm[i + 1] /\ i + 1 \in DOMAIN tm
      /\ \A i \in DOMAIN tm : i # 1 => i - 1 \in DOMAIN t /\ t[i - 1] = tm[i]
  BY MdTailAt
<1> HIDE DEF t
<1>2. \A i \in DOMAIN t : LiveAnswer(m, t, i, k) =>
        LiveAnswer(m, tm, i + 1, k) /\ tm[i + 1] = t[i] /\ i + 1 \in DOMAIN tm
  BY <1>1 DEF LiveAnswer
<1>3. \A i \in DOMAIN tm : LiveAnswer(m, tm, i, k) =>
        LiveAnswer(m, t, i - 1, k) /\ t[i - 1] = tm[i] /\ i - 1 \in DOMAIN t
  BY <1>1 DEF LiveAnswer
<1>4. ASSUME NEW i \in DOMAIN t, LiveAnswer(m, t, i, k)
      PROVE  Undisposed(tw, w, k) /\ (t[i].type = "highlight" => Fits(m, w, t[i], k))
  <2> DEFINE h == i + 1
  <2>1. h \in DOMAIN tm /\ LiveAnswer(m, tm, h, k) /\ tm[h] = t[i]
    BY <1>2, <1>4
  <2> HIDE DEF h
  <2> QED
    BY <2>1 DEF InStep
<1>5. ASSUME \A i \in DOMAIN t : LiveAnswer(m, t, i, k) => t[i].type # "highlight"
      PROVE  \A i \in DOMAIN tm : LiveAnswer(m, tm, i, k) => tm[i].type # "highlight"
  BY <1>3, <1>5
<1> QED
  BY <1>4, <1>5 DEF InStep, t

\* The answer to the block's request arrives: nothing else of the block is on its way.
LEMMA MdStepAnswered ==
  ASSUME NEW m, NEW n, NEW tw, NEW w, NEW tm, WayTyped(tw, w, tm),
         TransportOK(m, tw, w, tm), tm # << >>, NEW k \in Keys,
         LiveAnswer(m, tm, 1, k), InStep(m, tw, w, tm, k), n.active[k] = None,
         IF tm[1].type = "highlight"
         THEN w.streams[k] # None =>
                n.states[k] # None /\ n.states[k].stable = StableTokens(m.active[k].code)
         ELSE n.states[k] = m.states[k]
  PROVE  InStep(n, tw, w, Tail(tm), k)
<1>1. /\ tw \in Seq(Posts) /\ w \in WorkerStates /\ tm \in Seq(Answers) /\ w.jobs \in Seq(Jobs)
      /\ \A i \in DOMAIN tm : tm[i] \in Answers /\ IsHeld(tm[i])
      /\ \A i \in DOMAIN tm : tm[i].id \in Ids(tm)
      /\ 1 \in DOMAIN tm
  <2>1. tw \in Seq(Posts) /\ w \in WorkerStates /\ tm \in Seq(Answers) /\ w.jobs \in Seq(Jobs)
    BY DEF WayTyped, WorkerStates
  <2>2. \A i \in DOMAIN tm : tm[i] \in Answers
    BY <2>1
  <2>3. \A i \in DOMAIN tm : IsHeld(tm[i])
    BY <2>2 DEF IsHeld, Answers, Deltas, Refusals
  <2>4. \A i \in DOMAIN tm : tm[i].id \in Ids(tm)
    BY <2>3 DEF Ids, Items, Held
  <2> QED
    BY <2>1, <2>2, <2>3, <2>4, MdTailAt
<1> DEFINE id == m.active[k].id
<1>2. m.active[k] # None /\ tm[1].id = id /\ tm[1].key = k
  BY DEF LiveAnswer
<1>3. id \notin Ids(tw) \cup Ids(w.jobs) \cup RunningIds(w)
  BY <1>1, <1>2 DEF TransportOK, OneEach
<1>4. Undisposed(tw, w, k)
  BY <1>1 DEF InStep
<1>5. /\ \A i \in DOMAIN tw : ~ (tw[i].type = "highlight" /\ tw[i].key = k)
      /\ \A i \in DOMAIN w.jobs : ~ (w.jobs[i].type = "highlight" /\ w.jobs[i].key = k)
      /\ w.running # None => w.running.key # k
  <2>1. ASSUME NEW i \in DOMAIN tw, tw[i].type = "highlight", tw[i].key = k PROVE FALSE
    <3>1. Live(m, tw[i])
      BY <2>1, <1>4 DEF InStep, Ordered, Undisposed, DisposalIn, DisposalAfter
    <3>2. tw[i].id \in Ids(tw)
      BY <2>1 DEF Ids, Items, Held, IsHeld
    <3> QED
      BY <2>1, <3>1, <3>2, <1>3 DEF Live
  <2>2. ASSUME NEW i \in DOMAIN w.jobs, w.jobs[i].type = "highlight", w.jobs[i].key = k
        PROVE  FALSE
    <3>1. Live(m, w.jobs[i])
      BY <2>2, <1>4 DEF InStep, Ordered, Undisposed
    <3>2. w.jobs[i].id \in Ids(w.jobs)
      BY <2>2 DEF Ids, Items, Held, IsHeld
    <3> QED
      BY <2>2, <3>1, <3>2, <1>3 DEF Live
  <2>3. ASSUME w.running # None, w.running.key = k PROVE FALSE
    <3>1. Live(m, w.running)
      BY <2>3, <1>4 DEF InStep, Ordered, Undisposed
    <3>2. w.running.id \in RunningIds(w)
      BY <2>3 DEF RunningIds
    <3> QED
      BY <2>3, <3>1, <3>2, <1>3 DEF Live
  <2> QED
    BY <2>1, <2>2, <2>3
<1>6. Ordered(n, tw, w, k)
  BY <1>5 DEF Ordered
<1>7. \A i : ~ LiveAnswer(n, Tail(tm), i, k)
  BY DEF LiveAnswer
<1>8. Continues(n, w, k)
  <2>1. CASE tm[1].type = "highlight"
    <3>1. Fits(m, w, tm[1], k)
      BY <2>1, <1>1 DEF InStep
    <3>2. w.streams[k] # None => w.streams[k] = m.active[k].code
      BY <3>1 DEF Fits
    <3> QED
      BY <2>1, <3>2 DEF Continues
  <2>2. CASE tm[1].type # "highlight"
    <3>1. \A i \in DOMAIN tm : LiveAnswer(m, tm, i, k) => i = 1
      <4>1. \A i, j \in DOMAIN tm : tm[i].id = tm[j].id => i = j
        BY <1>1 DEF TransportOK, OneEach, Distinct, Held
      <4> QED
        BY <4>1, <1>1, <1>2 DEF LiveAnswer
    <3>2. Continues(m, w, k)
      BY <2>2, <3>1, <1>4 DEF InStep
    <3> QED
      BY <2>2, <3>2 DEF Continues
  <2> QED
    BY <2>1, <2>2
<1> QED
  BY <1>6, <1>7, <1>8 DEF InStep, LiveAnswer

-----------------------------------------------------------------------------
(* Deltas and the steps of the worker. *)

Asked(x, k) == x.type = "highlight" /\ x.key = k

\* The queue changes where block k has no part in it.
LEMMA MdStepQueue ==
  ASSUME NEW m, NEW tw, NEW w, NEW v, NEW tm, NEW k,
         v.running = w.running, v.streams[k] = w.streams[k],
         \A i \in DOMAIN v.jobs : Asked(v.jobs[i], k) =>
           /\ i \in DOMAIN w.jobs /\ v.jobs[i] = w.jobs[i]
           /\ DisposalAfter(v.jobs, i, k) => DisposalAfter(w.jobs, i, k),
         DisposalIn(v.jobs, k) <=> DisposalIn(w.jobs, k),
         InStep(m, tw, w, tm, k)
  PROVE  InStep(m, tw, v, tm, k)
<1>1. Ordered(m, tw, v, k)
  BY DEF InStep, Ordered, Asked
<1>2. Undisposed(tw, v, k) <=> Undisposed(tw, w, k)
  BY DEF Undisposed
<1>3. \A a : Fits(m, v, a, k) <=> Fits(m, w, a, k)
  BY DEF Fits
<1>4. Continues(m, v, k) <=> Continues(m, w, k)
  BY DEF Continues
<1> QED
  BY <1>1, <1>2, <1>3, <1>4 DEF InStep

\* The worker takes a message about another block.
LEMMA MdStepTaken ==
  ASSUME NEW m, NEW tw \in Seq(Posts), NEW w, NEW tm, NEW k, tw # << >>, tw[1].key # k,
         InStep(m, tw, w, tm, k)
  PROVE  InStep(m, Tail(tw), w, tm, k)
<1> DEFINE t == Tail(tw)
<1>1. \A i \in DOMAIN t : t[i] = tw[i + 1] /\ i + 1 \in DOMAIN tw
  BY MdTailAt
<1>2. /\ DisposalIn(t, k) <=> DisposalIn(tw, k)
      /\ \A i \in DOMAIN t : DisposalAfter(t, i, k) <=> DisposalAfter(tw, i + 1, k)
  BY MdDisposalTail
<1> HIDE DEF t
<1>3. ASSUME NEW i \in DOMAIN t, t[i].type = "highlight", t[i].key = k
      PROVE  Live(m, t[i]) <=> ~ DisposalAfter(t, i, k)
  <2> DEFINE h == i + 1
  <2>1. h \in DOMAIN tw /\ t[i] = tw[h] /\ (DisposalAfter(t, i, k) <=> DisposalAfter(tw, h, k))
    BY <1>1, <1>2
  <2> HIDE DEF h
  <2> QED
    BY <1>3, <2>1 DEF InStep, Ordered
<1>4. Ordered(m, t, w, k)
  BY <1>2, <1>3 DEF InStep, Ordered
<1>5. Undisposed(t, w, k) <=> Undisposed(tw, w, k)
  BY <1>2 DEF Undisposed
<1> QED
  BY <1>4, <1>5 DEF InStep, t

\* The block's request enters the queue, behind no disposal.
LEMMA MdStepRequested ==
  ASSUME NEW m, NEW tw \in Seq(Posts), NEW w, NEW v, NEW tm, NEW k, tw # << >>,
         Asked(tw[1], k), v.running = w.running, v.streams[k] = w.streams[k],
         NEW p \in DOMAIN v.jobs, v.jobs[p] = tw[1], ~ DisposalAfter(v.jobs, p, k),
         \A i \in DOMAIN v.jobs : Asked(v.jobs[i], k) => i = p,
         DisposalIn(v.jobs, k) <=> DisposalIn(w.jobs, k),
         InStep(m, tw, w, tm, k)
  PROVE  InStep(m, Tail(tw), v, tm, k)
<1> DEFINE t == Tail(tw)
<1>1. /\ 1 \in DOMAIN tw
      /\ \A i \in DOMAIN t : t[i] = tw[i + 1] /\ i + 1 \in DOMAIN tw
  BY MdTailAt
<1>2. /\ DisposalIn(t, k) <=> DisposalIn(tw, k)
      /\ \A i \in DOMAIN t : DisposalAfter(t, i, k) <=> DisposalAfter(tw, i + 1, k)
      /\ DisposalAfter(tw, 1, k) <=> DisposalIn(t, k)
  BY MdDisposalTail DEF Asked
<1> HIDE DEF t
<1>3. ASSUME NEW i \in DOMAIN t, t[i].type = "highlight", t[i].key = k
      PROVE  Live(m, t[i]) <=> ~ DisposalAfter(t, i, k)
  <2> DEFINE h == i + 1
  <2>1. h \in DOMAIN tw /\ t[i] = tw[h] /\ (DisposalAfter(t, i, k) <=> DisposalAfter(tw, h, k))
    BY <1>1, <1>2
  <2> HIDE DEF h
  <2> QED
    BY <1>3, <2>1 DEF InStep, Ordered
<1>4. Live(m, tw[1]) <=> ~ DisposalIn(t, k)
  BY <1>1, <1>2 DEF InStep, Ordered, Asked
<1>5. Ordered(m, t, v, k)
  <2>1. ASSUME NEW i \in DOMAIN v.jobs, v.jobs[i].type = "highlight", v.jobs[i].key = k
        PROVE  i = p
    BY <2>1 DEF Asked
  <2>2. v.running # None /\ v.running.key = k =>
          (Live(m, v.running) <=> ~ (DisposalIn(t, k) \/ DisposalIn(v.jobs, k)))
    BY <1>2 DEF InStep, Ordered
  <2> QED
    BY <1>3, <1>4, <2>1, <2>2 DEF Ordered
<1>6. Undisposed(t, v, k) <=> Undisposed(tw, w, k)
  BY <1>2 DEF Undisposed
<1>7. \A a : Fits(m, v, a, k) <=> Fits(m, w, a, k)
  BY DEF Fits
<1>8. Continues(m, v, k) <=> Continues(m, w, k)
  BY DEF Continues
<1> QED
  BY <1>5, <1>6, <1>7, <1>8 DEF InStep, t

\* The block's disposal enters the queue.
LEMMA MdStepDropped ==
  ASSUME NEW m, NEW tw \in Seq(Posts), NEW w, NEW v, NEW tm, NEW k, tw # << >>,
         tw[1].type = "dispose", tw[1].key = k,
         v.running = w.running, v.streams[k] = w.streams[k],
         \A i \in DOMAIN v.jobs : ~ Asked(v.jobs[i], k),
         DisposalIn(v.jobs, k), InStep(m, tw, w, tm, k)
  PROVE  InStep(m, Tail(tw), v, tm, k)
<1> DEFINE t == Tail(tw)
<1>1. \A i \in DOMAIN t : t[i] = tw[i + 1] /\ i + 1 \in DOMAIN tw
  BY MdTailAt
<1>2. /\ DisposalIn(tw, k)
      /\ \A i \in DOMAIN t : DisposalAfter(t, i, k) <=> DisposalAfter(tw, i + 1, k)
  BY MdDisposalTail
<1> HIDE DEF t
<1>3. ASSUME NEW i \in DOMAIN t, t[i].type = "highlight", t[i].key = k
      PROVE  Live(m, t[i]) <=> ~ DisposalAfter(t, i, k)
  <2> DEFINE h == i + 1
  <2>1. h \in DOMAIN tw /\ t[i] = tw[h] /\ (DisposalAfter(t, i, k) <=> DisposalAfter(tw, h, k))
    BY <1>1, <1>2
  <2> HIDE DEF h
  <2> QED
    BY <1>3, <2>1 DEF InStep, Ordered
<1>4. Ordered(m, t, v, k)
  <2>1. v.running # None /\ v.running.key = k => ~ Live(m, v.running)
    BY <1>2 DEF InStep, Ordered
  <2> QED
    BY <1>3, <2>1 DEF Ordered, Asked
<1>5. ~ Undisposed(t, v, k) /\ ~ Undisposed(tw, w, k)
  BY <1>2 DEF Undisposed
<1> QED
  BY <1>4, <1>5 DEF InStep, t

\* An answer is posted that is not to the block's request.
LEMMA MdStepAside ==
  ASSUME NEW m, NEW tw, NEW w, NEW tm \in Seq(Answers), NEW a \in Answers, NEW k,
         ~ (a.key = k /\ m.active[k] # None /\ a.id = m.active[k].id),
         InStep(m, tw, w, tm, k)
  PROVE  InStep(m, tw, w, Append(tm, a), k)
<1> DEFINE t == Append(tm, a)
<1>1. /\ DOMAIN t = DOMAIN tm \cup {Len(tm) + 1}
      /\ \A i \in DOMAIN tm : t[i] = tm[i]
      /\ t[Len(tm) + 1] = a
  BY MdAppendAt
<1> HIDE DEF t
<1>2. \A i : LiveAnswer(m, t, i, k) <=> LiveAnswer(m, tm, i, k)
  <2>1. \A i : LiveAnswer(m, tm, i, k) => i \in DOMAIN tm
    BY DEF LiveAnswer
  <2>2. \A i : LiveAnswer(m, t, i, k) => i \in DOMAIN tm
    BY <1>1 DEF LiveAnswer
  <2> QED
    BY <1>1, <2>1, <2>2 DEF LiveAnswer
<1>3. \A i : LiveAnswer(m, t, i, k) => i \in DOMAIN tm /\ i \in DOMAIN t /\ t[i] = tm[i]
  BY <1>1, <1>2 DEF LiveAnswer
<1> QED
  BY <1>2, <1>3 DEF InStep, t

\* The worker takes a message, and answers the request that makes way for it.
LEMMA MdStepEnqueued ==
  ASSUME NEW m, NEW tw, NEW w, NEW tm,
         TransportOK(m, tw, w, tm), WayTyped(tw, w, tm), tw # << >>, w.out = << >>,
         \A j \in Keys : InStep(m, tw, w, tm, j), NEW k \in Keys
  PROVE  LET v == Enqueue(w, Head(tw))
             u == [v EXCEPT !.out = << >>]
         IN InStep(m, Tail(tw), u, tm \o v.out, k)
<1> DEFINE x == tw[1]
           v == Enqueue(w, x)
           u == [v EXCEPT !.out = << >>]
           t == Tail(tw)
<1>0. /\ tw \in Seq(Posts) /\ w \in WorkerStates /\ tm \in Seq(Answers)
      /\ w.jobs \in Seq(Jobs)
  BY DEF WayTyped, WorkerStates
<1>1. Head(tw) = x /\ x \in Posts /\ 1 \in DOMAIN tw
  BY <1>0, MdTailAt
<1>2. x \in Jobs /\ x.key \in Keys /\ x.type \in {"highlight", "dispose"}
  BY <1>1 DEF Jobs, Posts, HighlightRequests, Disposals
<1>3. /\ u.jobs = v.jobs /\ u.running = w.running /\ u.streams = w.streams
      /\ \/ Slots(w, x.key) = {} /\ v.jobs = Append(w.jobs, x) /\ v.out = << >>
         \/ \E s \in Slots(w, x.key) :
              /\ v.out = << Superseded(w.jobs[s]) >>
              /\ v.jobs = IF x.type = "dispose"
                          THEN Append([w.jobs EXCEPT ![s] = Emptied(x.key)], x)
                          ELSE [w.jobs EXCEPT ![s] = x]
  BY <1>0, <1>1, MdEnqueue
<1> HIDE DEF x, v, u
<1>4. InStep(m, tw, w, tm, k) /\ InStep(m, tw, w, tm, x.key)
  BY <1>2
<1>5. CASE Slots(w, x.key) = {} /\ v.jobs = Append(w.jobs, x) /\ v.out = << >>
  <2>1. /\ DOMAIN u.jobs = DOMAIN w.jobs \cup {Len(w.jobs) + 1}
        /\ \A i \in DOMAIN w.jobs : u.jobs[i] = w.jobs[i]
        /\ u.jobs[Len(w.jobs) + 1] = x
    BY <1>0, <1>2, <1>3, <1>5, MdAppendAt
  <2>2. LET d == x.type = "dispose" /\ x.key = k
        IN /\ DisposalIn(u.jobs, k) <=> DisposalIn(w.jobs, k) \/ d
           /\ \A i \in DOMAIN w.jobs : DisposalAfter(u.jobs, i, k) <=> DisposalAfter(w.jobs, i, k) \/ d
           /\ ~ DisposalAfter(u.jobs, Len(w.jobs) + 1, k)
    <3>1. LET z == Append(w.jobs, x)
              d == x.type = "dispose" /\ x.key = k
          IN /\ DisposalIn(z, k) <=> DisposalIn(w.jobs, k) \/ d
             /\ \A i \in DOMAIN w.jobs : DisposalAfter(z, i, k) <=> DisposalAfter(w.jobs, i, k) \/ d
             /\ ~ DisposalAfter(z, Len(w.jobs) + 1, k)
      BY <1>0, <1>2, MdDisposalAppend
    <3>2. u.jobs = Append(w.jobs, x)
      BY <1>3, <1>5
    <3> QED
      BY <3>1, <3>2
  <2>3. x.key = k => \A i \in DOMAIN w.jobs : ~ Asked(w.jobs[i], k)
    BY <1>5 DEF Slots, Asked
  <2>4. InStep(m, t, u, tm, k)
    <3>1. CASE x.key # k
      <4>1. InStep(m, t, w, tm, k)
        BY <3>1, <1>0, <1>4, MdStepTaken DEF x
      <4>2. ~ Asked(x, k)
        BY <3>1 DEF Asked
      <4> HIDE DEF t
      <4> QED
        BY <3>1, <4>1, <4>2, <2>1, <2>2, <1>3, MdStepQueue
    <3>2. CASE x.key = k /\ x.type = "highlight"
      <4>1. Asked(tw[1], k) /\ u.jobs[Len(w.jobs) + 1] = tw[1]
        BY <3>2, <2>1 DEF Asked, x
      <4>2. \A i \in DOMAIN u.jobs : Asked(u.jobs[i], k) => i = Len(w.jobs) + 1
        BY <3>2, <2>1, <2>3
      <4> QED
        BY <3>2, <4>1, <4>2, <2>1, <2>2, <1>0, <1>3, <1>4, MdStepRequested
    <3>3. CASE x.key = k /\ x.type = "dispose"
      <4>1. tw[1].type = "dispose" /\ tw[1].key = k
        BY <3>3 DEF x
      <4>2. \A i \in DOMAIN u.jobs : ~ Asked(u.jobs[i], k)
        <5>1. ~ Asked(x, k)
          BY <3>3 DEF Asked
        <5> QED
          BY <5>1, <3>3, <2>1, <2>3
      <4> QED
        BY <3>3, <4>1, <4>2, <2>2, <1>0, <1>3, <1>4, MdStepDropped
    <3> QED
      BY <3>1, <3>2, <3>3, <1>2
  <2>5. tm \o v.out = tm
    BY <1>0, <1>5
  <2> QED
    BY <2>4, <2>5, <1>1 DEF x, u, v, t
<1>6. ASSUME NEW s \in Slots(w, x.key), v.out = << Superseded(w.jobs[s]) >>,
             v.jobs = IF x.type = "dispose"
                      THEN Append([w.jobs EXCEPT ![s] = Emptied(x.key)], x)
                      ELSE [w.jobs EXCEPT ![s] = x]
      PROVE  InStep(m, t, u, tm \o v.out, k)
  <2> DEFINE old == w.jobs[s]
             a == Superseded(old)
             y == IF x.type = "dispose" THEN Emptied(x.key) ELSE x
             q == [w.jobs EXCEPT ![s] = y]
  <2>1. /\ s \in DOMAIN w.jobs /\ Asked(old, x.key) /\ old.type # "dispose"
        /\ old \in Items(w.jobs) /\ old.id \in Ids(w.jobs)
    <3>1. s \in DOMAIN w.jobs /\ old.type = "highlight" /\ old.key = x.key
      BY DEF Slots
    <3>2. s \in Held(w.jobs)
      BY <3>1 DEF Held, IsHeld
    <3> QED
      BY <3>1, <3>2 DEF Items, Ids, Asked
  <2>2. \A i \in DOMAIN w.jobs : Asked(w.jobs[i], x.key) => i = s
    BY <2>1, <1>4 DEF InStep, Ordered, Asked
  <2>3. ~ DisposalAfter(w.jobs, s, x.key)
    BY <2>1, <1>4 DEF InStep, Ordered, Asked
  <2>4. ~ Live(m, old)
    <3> SUFFICES ASSUME Live(m, old) PROVE FALSE
      OBVIOUS
    <3>1. ~ DisposalIn(tw, x.key)
      BY <2>1, <1>4 DEF InStep, Ordered, Asked
    <3>2. x.type = "highlight"
      BY <3>1, <1>1, <1>2 DEF DisposalIn, x
    <3>3. Live(m, x)
      <4>1. ~ DisposalAfter(tw, 1, x.key)
        BY <3>1 DEF DisposalIn, DisposalAfter
      <4> QED
        BY <4>1, <3>2, <1>1, <1>4 DEF InStep, Ordered, x
    <3>4. x = old
      BY <3>3, <2>1 DEF Live, Asked
    <3>5. x.id \in Ids(tw)
      BY <3>2, <1>1 DEF Ids, Items, Held, IsHeld, x
    <3> QED
      BY <3>4, <3>5, <2>1 DEF TransportOK, OneEach
  <2>5. ~ (a.key = k /\ m.active[k] # None /\ a.id = m.active[k].id)
    <3> SUFFICES ASSUME a.key = k, m.active[k] # None, a.id = m.active[k].id PROVE FALSE
      OBVIOUS
    <3>1. old.key = k /\ old.id = m.active[k].id
      BY DEF Superseded
    <3>2. old = m.active[k]
      BY <3>1, <2>1, MdActiveOnly
    <3> QED
      BY <3>1, <3>2, <2>4 DEF Live
  <2>6. a \in Answers
    <3>1. old.key \in Keys /\ old.id \in Nat
      BY <2>1, MdWay
    <3> QED
      BY <3>1 DEF Superseded, Answers, Refusals
  <2>7. tm \o v.out = Append(tm, a)
    <3> HIDE DEF a
    <3>1. v.out = << a >>
      BY <1>6 DEF a
    <3> QED
      BY <3>1, <2>6, <1>0, MdPosted
  <2>8. /\ y \in Jobs /\ y.key = x.key /\ (y.type # "dispose" \/ y.key # k) /\ y.type # "dispose"
    BY <1>2 DEF Emptied, Jobs, Empties
  <2>9. /\ q \in Seq(Jobs) /\ DOMAIN q = DOMAIN w.jobs /\ q[s] = y
        /\ \A i \in DOMAIN w.jobs : i # s => q[i] = w.jobs[i]
    <3>1. s \in 1..Len(w.jobs)
      BY <2>1, <1>0, LenProperties
    <3> HIDE DEF y
    <3> QED
      BY <3>1, <2>1, <2>8, <1>0, ExceptSeq
  <2>10. /\ DisposalIn(q, k) <=> DisposalIn(w.jobs, k)
         /\ \A i \in DOMAIN w.jobs : DisposalAfter(q, i, k) <=> DisposalAfter(w.jobs, i, k)
    <3> HIDE DEF y
    <3> QED
      BY <2>1, <2>8, <1>0, MdDisposalReplace
  <2>11. x.type = "dispose" => y.type = "empty" /\ v.jobs = Append(q, x)
    BY <1>6 DEF Emptied
  <2>12. x.type = "highlight" => y = x /\ v.jobs = q
    BY <1>6
  <2> HIDE DEF old, a, y, q
  <2>13. InStep(m, t, u, tm, k)
    <3>1. CASE x.key # k /\ x.type = "highlight"
      <4>1. InStep(m, t, w, tm, k)
        BY <3>1, <1>0, <1>4, MdStepTaken DEF x
      <4>2. \A i \in DOMAIN u.jobs : Asked(u.jobs[i], k) => i # s
        BY <3>1, <2>8, <2>9, <2>12, <1>3 DEF Asked
      <4> HIDE DEF t
      <4> QED
        BY <3>1, <4>1, <4>2, <2>9, <2>10, <2>12, <1>3, MdStepQueue
    <3>2. CASE x.key # k /\ x.type = "dispose"
      <4>1. InStep(m, t, w, tm, k)
        BY <3>2, <1>0, <1>4, MdStepTaken DEF x
      <4>2. /\ DOMAIN u.jobs = DOMAIN q \cup {Len(q) + 1}
            /\ \A i \in DOMAIN q : u.jobs[i] = q[i]
            /\ u.jobs[Len(q) + 1] = x
        BY <3>2, <2>9, <2>11, <1>2, <1>3, MdAppendAt
      <4>3. /\ DisposalIn(u.jobs, k) <=> DisposalIn(q, k)
            /\ \A i \in DOMAIN q : DisposalAfter(u.jobs, i, k) <=> DisposalAfter(q, i, k)
        <5>1. LET z == Append(q, x)
                  d == x.type = "dispose" /\ x.key = k
              IN /\ DisposalIn(z, k) <=> DisposalIn(q, k) \/ d
                 /\ \A i \in DOMAIN q : DisposalAfter(z, i, k) <=> DisposalAfter(q, i, k) \/ d
          BY <2>9, <1>2, MdDisposalAppend
        <5>2. u.jobs = Append(q, x)
          BY <3>2, <2>11, <1>3
        <5> QED
          BY <3>2, <5>1, <5>2
      <4>4. \A i \in DOMAIN u.jobs : Asked(u.jobs[i], k) => i # s /\ i \in DOMAIN q
        BY <3>2, <4>2, <2>8, <2>9 DEF Asked
      <4> HIDE DEF t
      <4> QED
        BY <3>2, <4>1, <4>2, <4>3, <4>4, <2>9, <2>10, <1>3, MdStepQueue
    <3>3. CASE x.key = k /\ x.type = "highlight"
      <4>1. Asked(tw[1], k) /\ u.jobs[s] = tw[1] /\ s \in DOMAIN u.jobs
        BY <3>3, <2>1, <2>9, <2>12, <1>3 DEF Asked, x
      <4>2. \A i \in DOMAIN u.jobs : Asked(u.jobs[i], k) => i = s
        BY <3>3, <2>2, <2>9, <2>12, <1>3
      <4>3. ~ DisposalAfter(u.jobs, s, k) /\ (DisposalIn(u.jobs, k) <=> DisposalIn(w.jobs, k))
        BY <3>3, <2>1, <2>3, <2>10, <2>12, <1>3
      <4> QED
        BY <4>1, <4>2, <4>3, <1>0, <1>3, <1>4, MdStepRequested
    <3>4. CASE x.key = k /\ x.type = "dispose"
      <4>1. tw[1].type = "dispose" /\ tw[1].key = k
        BY <3>4 DEF x
      <4>2. /\ DOMAIN u.jobs = DOMAIN q \cup {Len(q) + 1}
            /\ \A i \in DOMAIN q : u.jobs[i] = q[i]
            /\ u.jobs[Len(q) + 1] = x
        BY <3>4, <2>9, <2>11, <1>2, <1>3, MdAppendAt
      <4>3. DisposalIn(u.jobs, k)
        <5>1. LET z == Append(q, x)
                  d == x.type = "dispose" /\ x.key = k
              IN /\ DisposalIn(z, k) <=> DisposalIn(q, k) \/ d
                 /\ \A i \in DOMAIN q : DisposalAfter(z, i, k) <=> DisposalAfter(q, i, k) \/ d
          BY <2>9, <1>2, MdDisposalAppend
        <5>2. u.jobs = Append(q, x)
          BY <3>4, <2>11, <1>3
        <5> QED
          BY <3>4, <5>1, <5>2
      <4>4. \A i \in DOMAIN u.jobs : ~ Asked(u.jobs[i], k)
        <5>1. ~ Asked(x, k) /\ ~ Asked(y, k)
          BY <3>4, <2>11 DEF Asked
        <5> QED
          BY <5>1, <3>4, <4>2, <2>2, <2>9
      <4> QED
        BY <4>1, <4>3, <4>4, <1>0, <1>3, <1>4, MdStepDropped
    <3> QED
      BY <3>1, <3>2, <3>3, <3>4, <1>2
  <2> HIDE DEF t
  <2> QED
    BY <2>5, <2>6, <2>7, <2>13, <1>0, MdStepAside
<1> HIDE DEF t
<1> QED
  BY <1>1, <1>3, <1>5, <1>6 DEF u, v, t

\* The worker starts a job.
LEMMA MdStepStarted ==
  ASSUME NEW m, NEW tw, NEW w, NEW tm, WayTyped(tw, w, tm),
         w.jobs # << >>, w.running = None, NEW v, v.jobs = Tail(w.jobs),
         v.running = (IF Head(w.jobs).type = "highlight" THEN Head(w.jobs) ELSE None),
         v.streams = IF Head(w.jobs).type = "dispose"
                     THEN [w.streams EXCEPT ![Head(w.jobs).key] = None] ELSE w.streams,
         NEW k \in Keys, InStep(m, tw, w, tm, k)
  PROVE  InStep(m, tw, v, tm, k)
<1> DEFINE x == w.jobs[1]
           t == Tail(w.jobs)
<1>0. /\ w.jobs \in Seq(Jobs) /\ w.streams \in [Keys -> {c \in Codes : ~c.complete} \cup {None}]
  BY DEF WayTyped, WorkerStates
<1>1. /\ Head(w.jobs) = x /\ x \in Jobs /\ 1 \in DOMAIN w.jobs
      /\ \A i \in DOMAIN t : t[i] = w.jobs[i + 1] /\ i + 1 \in DOMAIN w.jobs /\ i + 1 # 1
      /\ DOMAIN t \subseteq Nat
  BY <1>0, MdTailAt
<1>2. LET d == x.type = "dispose" /\ x.key = k
      IN /\ DisposalIn(w.jobs, k) <=> DisposalIn(t, k) \/ d
         /\ \A i \in DOMAIN t : DisposalAfter(t, i, k) <=> DisposalAfter(w.jobs, i + 1, k)
         /\ DisposalAfter(w.jobs, 1, k) <=> DisposalIn(t, k)
  BY <1>0, MdDisposalTail
<1>3. x.key \in Keys /\ x.type \in {"highlight", "dispose", "empty"}
      /\ (x.type = "highlight" => x # None)
  BY <1>1, MdNoneAssumption DEF Jobs, Posts, HighlightRequests, Disposals, Empties
<1>4. v.streams[k] = IF x.type = "dispose" /\ x.key = k THEN None ELSE w.streams[k]
  BY <1>0, <1>1, <1>3
<1> HIDE DEF x, t
<1>5. ASSUME NEW i \in DOMAIN t, t[i].type = "highlight", t[i].key = k
      PROVE  /\ ~ DisposalAfter(t, i, k)
             /\ Live(m, t[i]) <=> ~ DisposalIn(tw, k)
             /\ i + 1 \in DOMAIN w.jobs /\ Asked(w.jobs[i + 1], k)
             /\ \A j \in DOMAIN t : t[j].type = "highlight" /\ t[j].key = k => i = j
  <2> DEFINE h == i + 1
  <2>1. h \in DOMAIN w.jobs /\ t[i] = w.jobs[h]
        /\ (DisposalAfter(t, i, k) <=> DisposalAfter(w.jobs, h, k))
    BY <1>1, <1>2
  <2> HIDE DEF h
  <2>2. ~ DisposalAfter(t, i, k) /\ (Live(m, t[i]) <=> ~ DisposalIn(tw, k))
    BY <1>5, <2>1 DEF InStep, Ordered
  <2>3. ASSUME NEW j \in DOMAIN t, t[j].type = "highlight", t[j].key = k PROVE i = j
    <3> DEFINE g == j + 1
    <3>1. g \in DOMAIN w.jobs /\ t[j] = w.jobs[g]
      BY <1>1
    <3> HIDE DEF g
    <3>2. g = h
      BY <1>5, <2>1, <2>3, <3>1 DEF InStep, Ordered
    <3> QED
      BY <3>2, <1>1 DEF g, h
  <2> QED
    BY <1>5, <2>1, <2>2, <2>3 DEF Asked, h
<1>6. x.type = "highlight" /\ x.key = k =>
        /\ Live(m, x) <=> ~ DisposalIn(tw, k)
        /\ ~ DisposalIn(t, k)
  BY <1>1, <1>2 DEF InStep, Ordered, x
<1>7. v.running # None /\ v.running.key = k => x.type = "highlight" /\ x.key = k /\ v.running = x
  BY <1>1
<1>8. Ordered(m, tw, v, k)
  <2>1. v.jobs = t
    BY DEF t
  <2>2. \A i \in DOMAIN tw : tw[i].type = "highlight" /\ tw[i].key = k =>
          (Live(m, tw[i]) <=> ~ DisposalAfter(tw, i, k))
    BY DEF InStep, Ordered
  <2> QED
    BY <2>1, <2>2, <1>5, <1>6, <1>7 DEF Ordered
<1>9. CASE ~ (x.type = "dispose" /\ x.key = k)
  <2>1. Undisposed(tw, v, k) <=> Undisposed(tw, w, k)
    BY <1>2, <1>9 DEF Undisposed, t
  <2>2. v.streams[k] = w.streams[k]
    BY <1>4, <1>9
  <2>3. \A a : Fits(m, v, a, k) <=> Fits(m, w, a, k)
    BY <2>2 DEF Fits
  <2>4. Continues(m, v, k) <=> Continues(m, w, k)
    BY <2>2 DEF Continues
  <2> QED
    BY <1>8, <2>1, <2>3, <2>4 DEF InStep
<1>10. CASE x.type = "dispose" /\ x.key = k
  <2>1. ~ Undisposed(tw, w, k)
    BY <1>2, <1>10 DEF Undisposed
  <2>2. \A i \in DOMAIN tm : ~ LiveAnswer(m, tm, i, k)
    BY <2>1 DEF InStep
  <2>3. Continues(m, v, k)
    BY <1>4, <1>10 DEF Continues
  <2> QED
    BY <1>8, <2>2, <2>3 DEF InStep
<1> QED
  BY <1>9, <1>10

\* The worker answers another block's request.
LEMMA MdStepElsewhere ==
  ASSUME NEW m, NEW tw, NEW w, NEW v, NEW tm \in Seq(Answers), NEW a \in Answers, NEW k,
         v.jobs = w.jobs, v.running = None, v.streams[k] = w.streams[k], a.key # k,
         InStep(m, tw, w, tm, k)
  PROVE  InStep(m, tw, v, Append(tm, a), k)
<1>1. InStep(m, tw, w, Append(tm, a), k)
  BY MdStepAside
<1>2. Ordered(m, tw, v, k)
  BY DEF InStep, Ordered
<1>3. Undisposed(tw, v, k) <=> Undisposed(tw, w, k)
  BY DEF Undisposed
<1>4. \A b : Fits(m, v, b, k) <=> Fits(m, w, b, k)
  BY DEF Fits
<1>5. Continues(m, v, k) <=> Continues(m, w, k)
  BY DEF Continues
<1> QED
  BY <1>1, <1>2, <1>3, <1>4, <1>5 DEF InStep

\* The worker answers the block's request.
LEMMA MdStepReplied ==
  ASSUME NEW m, NEW tw, NEW w, NEW v, NEW tm, TransportOK(m, tw, w, tm), WayTyped(tw, w, tm),
         NEW a \in Answers, NEW k \in Keys, w.running # None, w.running.key = k,
         a.key = k, a.id = w.running.id, v.jobs = w.jobs, v.running = None,
         IF a.type = "highlight"
         THEN m.active[k] = w.running /\ Continues(m, w, k) => Fits(m, v, a, k)
         ELSE v.streams[k] = w.streams[k],
         InStep(m, tw, w, tm, k)
  PROVE  InStep(m, tw, v, Append(tm, a), k)
<1> DEFINE t == Append(tm, a)
<1>0. tm \in Seq(Answers) /\ (\A i \in DOMAIN tm : tm[i].id \in Ids(tm))
  <2>1. tm \in Seq(Answers)
    BY DEF WayTyped
  <2>2. \A i \in DOMAIN tm : tm[i] \in Answers
    BY <2>1
  <2>3. \A i \in DOMAIN tm : IsHeld(tm[i])
    BY <2>2 DEF IsHeld, Answers, Deltas, Refusals
  <2> QED
    BY <2>1, <2>3 DEF Ids, Items, Held
<1>1. /\ DOMAIN t = DOMAIN tm \cup {Len(tm) + 1}
      /\ \A i \in DOMAIN tm : t[i] = tm[i]
      /\ t[Len(tm) + 1] = a
  BY <1>0, MdAppendAt
<1> HIDE DEF t
<1>2. Ordered(m, tw, v, k)
  BY DEF InStep, Ordered
<1>3. Undisposed(tw, v, k) <=> Undisposed(tw, w, k)
  BY DEF Undisposed
<1>4. Live(m, w.running) <=> Undisposed(tw, w, k)
  BY DEF InStep, Ordered, Undisposed
<1>5. \A i \in DOMAIN tm : tm[i].id # w.running.id
  <2>1. w.running.id \notin Ids(tm)
    BY DEF TransportOK, OneEach, RunningIds
  <2> QED
    BY <1>0, <2>1
<1>6. CASE ~ Undisposed(tw, w, k)
  <2>1. \A i \in DOMAIN tm : ~ LiveAnswer(m, tm, i, k)
    BY <1>6 DEF InStep
  <2>2. ~ (m.active[k] # None /\ a.id = m.active[k].id)
    <3> SUFFICES ASSUME m.active[k] # None, a.id = m.active[k].id PROVE FALSE
      OBVIOUS
    <3>1. w.running = m.active[k]
      <4>1. w.running \in Items(tw) \cup Items(w.jobs) \cup RunningItems(w)
        BY DEF RunningItems
      <4>2. \A r \in Items(tw) \cup Items(w.jobs) \cup RunningItems(w) :
              r.id = m.active[k].id => r = m.active[k]
        BY MdActiveOnly
      <4> QED
        BY <4>1, <4>2
    <3> QED
      BY <3>1, <1>4, <1>6 DEF Live
  <2>3. \A i \in DOMAIN t : ~ LiveAnswer(m, t, i, k)
    BY <2>1, <2>2, <1>1 DEF LiveAnswer
  <2> QED
    BY <2>3, <1>2, <1>3, <1>6 DEF InStep, t
<1>7. CASE Undisposed(tw, w, k)
  <2>1. m.active[k] = w.running
    BY <1>4, <1>7 DEF Live
  <2>2. \A i \in DOMAIN tm : ~ LiveAnswer(m, tm, i, k)
    BY <2>1, <1>5 DEF LiveAnswer
  <2>3. Continues(m, w, k)
    BY <2>2, <1>7 DEF InStep
  <2>4. \A i \in DOMAIN t : LiveAnswer(m, t, i, k) <=> i = Len(tm) + 1
    BY <2>1, <2>2, <1>1 DEF LiveAnswer
  <2>5. CASE a.type = "highlight"
    <3>1. Fits(m, v, a, k)
      BY <2>1, <2>3, <2>5
    <3>2. ~ \A i \in DOMAIN t : LiveAnswer(m, t, i, k) => t[i].type # "highlight"
      BY <2>4, <2>5, <1>1
    <3> QED
      BY <3>1, <3>2, <2>4, <1>1, <1>2, <1>3, <1>7 DEF InStep, t
  <2>6. CASE a.type # "highlight"
    <3>1. Continues(m, v, k)
      BY <2>3, <2>6 DEF Continues
    <3> QED
      BY <3>1, <2>4, <2>6, <1>1, <1>2, <1>3, <1>7 DEF InStep, t
  <2> QED
    BY <2>5, <2>6
<1> QED
  BY <1>6, <1>7

\* A request of the worker is answered with the delta to what it answered before.
LEMMA MdReply ==
  ASSUME NEW w \in WorkerStates, w.running # None, w.out = << >>
  PROVE  LET k == w.running.key
             c == w.running.code
             v == RunHighlight(w, w.running)
             u == [v EXCEPT !.out = << >>]
         IN \E a \in Answers :
              /\ v.out = << a >> /\ u \in WorkerStates /\ u.jobs = w.jobs /\ u.running = None
              /\ a.type = "highlight" /\ a.id = w.running.id /\ a.key = k
              /\ a.unstable = UnstableTokens(c)
              /\ a.reset => a.stable = StableTokens(c)
              /\ ~ a.reset => /\ w.streams[k] # None
                              /\ StableTokens(w.streams[k]) \o a.stable = StableTokens(c)
              /\ u.streams = [w.streams EXCEPT ![k] = IF c.complete THEN None ELSE c]
<1> DEFINE k == w.running.key
           c == w.running.code
           s == w.streams[k]
           r == c.complete \/ s = None \/ ~ StartsWith(c, s)
           have == IF r THEN 0 ELSE Len(StableTokens(s))
           st == SubSeq(StableTokens(c), have + 1, Len(StableTokens(c)))
           a == [type |-> "highlight", id |-> w.running.id, key |-> k, reset |-> r,
                 stable |-> st, unstable |-> UnstableTokens(c)]
           v == RunHighlight(w, w.running)
           u == [v EXCEPT !.out = << >>]
<1>1. /\ w.running \in HighlightRequests /\ k \in Keys /\ c \in Codes /\ w.running.id \in Nat
      /\ w.streams \in [Keys -> {b \in Codes : ~b.complete} \cup {None}]
  BY DEF WorkerStates, HighlightRequests
<1>2. s \in Codes \cup {None}
  BY <1>1
<1>3. c.complete \in BOOLEAN /\ r \in BOOLEAN
  BY <1>1, MdCodesAssumption
<1>4. v = [w EXCEPT !.running = None, !.streams[k] = IF c.complete THEN None ELSE c,
                    !.out = Append(@, a)]
  BY DEF RunHighlight
<1>5. StableTokens(c) \in Seq(Tokens) /\ UnstableTokens(c) \in Seq(Tokens)
      /\ Len(StableTokens(c)) \in Nat
  BY <1>1, MdTokensTyped
<1>6. st \in Seq(Tokens) /\ (r => st = StableTokens(c))
      /\ (~ r => s # None /\ StableTokens(s) \o st = StableTokens(c))
  <2>1. CASE r
    <3>1. SubSeq(StableTokens(c), 1, Len(StableTokens(c))) = StableTokens(c)
      <4>1. \A q \in Seq(Tokens) : SubSeq(q, 1, Len(q)) = q
        OBVIOUS
      <4> HIDE DEF c
      <4> QED
        BY <4>1, <1>5
    <3>2. st = SubSeq(StableTokens(c), 1, Len(StableTokens(c)))
      <4>1. have = 0
        BY <2>1
      <4>2. 0 + 1 = 1
        OBVIOUS
      <4> HIDE DEF have
      <4> QED
        BY <4>1, <4>2
    <3> QED
      BY <2>1, <3>1, <3>2, <1>5
  <2>2. CASE ~ r
    <3>1. s \in Codes /\ StartsWith(c, s)
      BY <2>2, <1>2
    <3>2. st = SubSeq(StableTokens(c), Len(StableTokens(s)) + 1, Len(StableTokens(c)))
      BY <2>2
    <3>3. Len(StableTokens(s)) \in Nat
      BY <3>1, MdTokensTyped
    <3>4. st \in Seq(Tokens)
      <4> DEFINE l == Len(StableTokens(s)) + 1
                 h == Len(StableTokens(c))
      <4>1. l \in Nat \ {0} /\ h \in Nat
        BY <3>3, <1>5
      <4>2. StableTokens(c) \in Seq(Tokens)
        BY <1>5
      <4>3. st = SubSeq(StableTokens(c), l, h)
        BY <3>2
      <4> HIDE DEF l
      <4>4. \A i \in l..h : StableTokens(c)[i] \in Tokens
        BY <4>1, <4>2
      <4> HIDE DEF h, st
      <4> QED
        BY <4>1, <4>3, <4>4, SubSeqProperties
    <3>5. StableTokens(s) \o st = StableTokens(c)
      BY <3>1, <3>2, <1>1, MdDeltaFits
    <3> QED
      BY <2>2, <3>4, <3>5
  <2> QED
    BY <2>1, <2>2
<1> HIDE DEF st, r, v
<1>7. a \in Answers
  BY <1>1, <1>3, <1>5, <1>6 DEF Answers, Deltas
<1> HIDE DEF a
<1>8. v.out = << a >>
  <2>1. Append(<< >>, a) = << a >>
    OBVIOUS
  <2> QED
    BY <1>4, <2>1 DEF WorkerStates
<1>9. [w.streams EXCEPT ![k] = IF c.complete THEN None ELSE c]
        \in [Keys -> {b \in Codes : ~b.complete} \cup {None}]
  BY <1>1, <1>3
<1>10. /\ u \in WorkerStates /\ u.jobs = w.jobs /\ u.running = None
       /\ u.streams = [w.streams EXCEPT ![k] = IF c.complete THEN None ELSE c]
  BY <1>4, <1>9 DEF WorkerStates
<1>11. /\ a.type = "highlight" /\ a.id = w.running.id /\ a.key = k
       /\ a.unstable = UnstableTokens(c) /\ a.stable = st /\ a.reset = r
  BY DEF a
<1> HIDE DEF u
<1> QED
  BY <1>6, <1>7, <1>8, <1>10, <1>11 DEF u, v

-----------------------------------------------------------------------------
(* Steps of the page. *)

\* The transport and the deltas are as they should be.
Sound(m, tw, w, tm) ==
  /\ MainOK(m) /\ WayTyped(tw, w, tm) /\ TransportOK(m, tw, w, tm)
  /\ \A k \in Keys : InStep(m, tw, w, tm, k)

Fresh(id, tw, w, tm) == id \notin Ids(tw) \cup Ids(w.jobs) \cup Ids(tm) \cup RunningIds(w)

FewKeys(m) == IsFiniteSet(m.keys) /\ Cardinality(m.keys) <= Limit

\* What is posted after what was posted before.
LEMMA MdPort ==
  ASSUME NEW X, NEW s \in Seq(X), NEW o \in Seq(X), NEW x \in X
  PROVE  s \o Append(o, x) = Append(s \o o, x)
<1>1. o \o << x >> = Append(o, x)
  OBVIOUS
<1>2. s \o (o \o << x >>) = (s \o o) \o << x >>
  BY ConcatAssociative
<1>3. s \o o \in Seq(X)
  OBVIOUS
<1>4. (s \o o) \o << x >> = Append(s \o o, x)
  BY <1>3, MdPosted
<1> QED
  BY <1>1, <1>2, <1>4

\* What the page posts are requests and disposals.
LEMMA MdOutTyped ==
  ASSUME NEW m, MainOK(m)
  PROVE  m.out \in Seq(Posts) /\ m.nextID \in Nat
  BY DEF MainOK, Mains

\* Fields the transport does not depend on may change.
LEMMA MdSoundSame ==
  ASSUME NEW m, NEW n, NEW tw, NEW w, NEW tm, Sound(m, tw, w, tm), MainOK(n),
         n.pending = m.pending, n.active = m.active, n.queued = m.queued,
         n.states = m.states, m.keys \subseteq n.keys, m.nextID <= n.nextID,
         WorkerUp(m) => WorkerUp(n)
  PROVE  Sound(n, tw, w, tm)
<1>1. TransportOK(n, tw, w, tm)
  BY MdTransportGrows DEF Sound
<1>2. \A k \in Keys : InStep(n, tw, w, tm, k)
  BY MdStepSame DEF Sound
<1> QED
  BY <1>1, <1>2 DEF Sound

\* The disposal of a block keeps the transport and the deltas sound.
LEMMA MdSoundDisposed ==
  ASSUME NEW m, NEW n, NEW tw \in Seq(Posts), NEW w, NEW tm, NEW k \in Keys,
         Sound(m, tw \o m.out, w, tm), Disposed(m, n, k)
  PROVE  /\ Sound(n, tw \o n.out, w, tm)
         /\ Ids(tw \o n.out) = Ids(tw \o m.out)
<1> DEFINE o == tw \o m.out
           u == tw \o n.out
<1>1. Disposal(k) \in Posts /\ Disposal(k).key = k
  BY DEF Disposal, Posts, Disposals
<1>2. n.out = IF WorkerUp(m) THEN Append(m.out, Disposal(k)) ELSE m.out
  BY DEF Disposed, Disposal
<1>3. u = IF WorkerUp(m) THEN Append(o, Disposal(k)) ELSE o
  <2>1. tw \o Append(m.out, Disposal(k)) = Append(o, Disposal(k))
    BY <1>1, MdOutTyped, MdPort DEF Sound
  <2> QED
    BY <1>2, <2>1
<1>4. o \in Seq(Posts) /\ Sound(m, o, w, tm)
  BY DEF Sound, WayTyped
<1> HIDE DEF o, u
<1>5. TransportOK(n, u, w, tm) /\ WayTyped(u, w, tm) /\ Ids(u) = Ids(o)
  BY <1>3, <1>4, MdTransportDisposed DEF Sound
<1>6. ASSUME NEW j \in Keys PROVE InStep(n, u, w, tm, j)
  <2>0. InStep(m, o, w, tm, j)
    BY <1>4 DEF Sound
  <2>1. /\ j # k => n.active[j] = m.active[j] /\ n.states[j] = m.states[j]
        /\ n.active[k] = None /\ n.states[k] = None
    BY <1>4 DEF Disposed, Sound, MainOK, Mains
  <2>2. CASE j # k /\ WorkerUp(m)
    <3>1. InStep(m, u, w, tm, j)
      BY <2>0, <2>2, <1>1, <1>3, <1>4, MdStepOther
    <3> QED
      BY <2>1, <2>2, <3>1, MdStepSame
  <2>3. CASE j # k /\ ~ WorkerUp(m)
    BY <2>0, <2>1, <2>3, <1>3, MdStepSame
  <2>4. CASE j = k /\ WorkerUp(m)
    BY <2>0, <2>1, <2>4, <1>3, <1>4, MdStepDisposed DEF Sound
  <2>5. CASE j = k /\ ~ WorkerUp(m)
    <3>1. u = << >> /\ w = IdleWorker /\ tm = << >>
      BY <2>5, <1>3, <1>4 DEF Sound, TransportOK, Alone
    <3>2. w.jobs = << >> /\ w.running = None /\ w.streams[k] = None
      BY <3>1 DEF IdleWorker
    <3>3. DOMAIN u = {} /\ DOMAIN w.jobs = {} /\ DOMAIN tm = {}
      BY <3>1, <3>2
    <3> QED
      BY <2>1, <2>5, <3>2, <3>3 DEF InStep, Ordered, LiveAnswer, Continues
  <2> QED
    BY <2>2, <2>3, <2>4, <2>5
<1> QED
  BY <1>5, <1>6 DEF Sound, Disposed, u, o

\* So does a request whose promise is noted.
LEMMA MdSoundSent ==
  ASSUME NEW m, NEW p, NEW n, NEW tw \in Seq(Posts), NEW w, NEW tm, NEW k \in Keys,
         NEW c \in Codes, Sound(m, tw \o m.out, w, tm), WorkerUp(m), k \in m.keys,
         m.nextID \in Nat \ {0}, m.nextID \notin DOMAIN m.pending,
         Fresh(m.nextID, tw \o m.out, w, tm),
         p = Noted(m, k, c), Sent(p, n, Request(m.nextID, k, c))
  PROVE  Sound(n, tw \o n.out, w, tm)
<1> DEFINE o == tw \o m.out
           u == tw \o n.out
           req == Request(m.nextID, k, c)
<1>1. req \in HighlightRequests /\ req \in Posts /\ req.key = k /\ req.id = m.nextID
  BY DEF Request, HighlightRequests, Posts
<1> HIDE DEF req
<1>2. p.out = m.out /\ p.active = m.active /\ p.states = m.states
  BY DEF Sound, MainOK, Mains, Noted
<1>3. Sent(p, n, req)
  BY DEF req
<1>4. n.out = IF m.active[k] = None THEN Append(m.out, req) ELSE m.out
  BY <1>1, <1>2, <1>3 DEF Sent
<1>5. u = IF m.active[k] = None THEN Append(o, req) ELSE o
  <2>1. tw \o Append(m.out, req) = Append(o, req)
    BY <1>1, MdOutTyped, MdPort DEF Sound
  <2> QED
    BY <1>4, <2>1
<1>6. o \in Seq(Posts) /\ Sound(m, o, w, tm) /\ Fresh(m.nextID, o, w, tm)
  BY DEF Sound, WayTyped
<1> HIDE DEF o, u
<1>7. TransportOK(n, u, w, tm) /\ WayTyped(u, w, tm)
  BY <1>3, <1>5, <1>6, MdTransportSent DEF Sound, Fresh, req
<1>8. ASSUME NEW j \in Keys PROVE InStep(n, u, w, tm, j)
  <2>0. InStep(m, o, w, tm, j)
    BY <1>6 DEF Sound
  <2>1. /\ n.states = m.states
        /\ j # k \/ m.active[k] # None => n.active[j] = m.active[j]
        /\ m.active[k] = None => n.active[k] = req
    BY <1>1, <1>2, <1>3, <1>6 DEF Sent, Sound, MainOK, Mains
  <2>2. CASE m.active[k] # None
    BY <2>0, <2>1, <2>2, <1>5, MdStepSame
  <2>3. CASE j # k /\ m.active[k] = None
    <3>1. InStep(m, u, w, tm, j)
      BY <2>0, <2>3, <1>1, <1>5, <1>6, MdStepOther
    <3> QED
      BY <2>1, <2>3, <3>1, MdStepSame
  <2>4. CASE j = k /\ m.active[k] = None
    <3>1. req.id \notin Ids(o) \cup Ids(w.jobs) \cup RunningIds(w) \cup Ids(tm)
      BY <1>1, <1>6 DEF Fresh
    <3>2. InStep(n, Append(o, req), w, tm, k)
      BY <2>0, <2>1, <2>4, <3>1, <1>1, <1>6, MdStepPosted DEF Sound
    <3> QED
      BY <2>4, <3>2, <1>5
  <2> QED
    BY <2>2, <2>3, <2>4
<1> QED
  BY <1>3, <1>7, <1>8 DEF Sound, Sent, u

\* The promise is noted before its request is sent.
LEMMA MdNoted ==
  ASSUME NEW m, MainOK(m), NEW k \in Keys, NEW c \in Codes, m.nextID # 0
  PROVE  LET p == Noted(m, k, c)
         IN /\ MainOK(p) /\ p.views = m.views /\ p.keys = m.keys /\ p.nextID = m.nextID
            /\ p.disabled = m.disabled /\ p.latest = m.latest /\ p.active = m.active
            /\ p.queued = m.queued /\ p.states = m.states
            /\ DOMAIN p.pending = DOMAIN m.pending \cup {m.nextID}
            /\ p.pending[m.nextID] = [key |-> k, code |-> c]
            /\ \A i \in DOMAIN m.pending : i # m.nextID => p.pending[i] = m.pending[i]
<1> DEFINE id == m.nextID
           r  == Recorded(m.pending, id, [key |-> k, code |-> c])
           p  == Noted(m, k, c)
<1>1. m \in Mains /\ DOMAIN m.pending \subseteq 1..id /\ id \in Nat
      /\ m.pending \in PromiseMaps
  BY DEF MainOK, Mains
<1>2. /\ DOMAIN r = DOMAIN m.pending \cup {id} /\ r[id] = [key |-> k, code |-> c]
      /\ \A i \in DOMAIN m.pending : i # id => r[i] = m.pending[i]
  BY DEF Recorded
<1>3. r \in PromiseMaps
  <2>1. \A i \in DOMAIN r : r[i] \in Promises
    BY <1>1, <1>2, MdPromises DEF Promises
  <2>2. r = [i \in DOMAIN r |-> r[i]] /\ DOMAIN r \in SUBSET Nat
    BY <1>1, <1>2, MdPromises DEF Recorded
  <2> HIDE DEF r
  <2>3. r \in [DOMAIN r -> Promises]
    BY <2>1, <2>2
  <2> QED
    BY <2>2, <2>3 DEF PromiseMaps
<1>4. DOMAIN r \subseteq 1..id
  BY <1>1, <1>2
<1>5. p = [m EXCEPT !.pending = r]
  BY DEF Noted
<1> HIDE DEF r, p
<1>6. p.pending = r /\ p \in Mains
  BY <1>1, <1>3, <1>5 DEF Mains
<1> QED
  BY <1>1, <1>2, <1>4, <1>5, <1>6 DEF MainOK, Mains, p

\* A block asks for the highlighting of its text.
LEMMA MdHighlight ==
  ASSUME NEW m, NEW tw, NEW w, NEW tm, Sound(m, tw, w, tm), m.out = << >>, ~ m.disabled,
         FewKeys(m), \A j \in Keys : Numbered(m, j), NEW k \in Keys, NEW c \in Codes,
         m.views[k].text = c
  PROVE  LET n  == HighlightStreamingCode(m, k, c)
             id == m.nextID + 1
         IN /\ Sound(n, tw \o n.out, w, tm) /\ FewKeys(n) /\ n.nextID = id
            /\ n.disabled = m.disabled
            /\ \A j \in Keys : Numbered(n, j)
            /\ \A j \in Keys \ {k} : ViewOK(m, j) => ViewOK(n, j)
            /\ n.views[k].text = c /\ n.views[k].fetch = id
            /\ id \in DOMAIN n.pending /\ n.pending[id] = [key |-> k, code |-> c]
<1> DEFINE id == m.nextID + 1
           a == Asking(m, k)
           e == Evict(a)
           p == Noted(e, k, c)
           req == Request(id, k, c)
           n == Send(p, req)
<1>0. /\ MainOK(m) /\ m \in Mains /\ DOMAIN m.pending \subseteq 1..m.nextID
      /\ m.nextID \in Nat /\ tw \in Seq(Posts) /\ WayTyped(tw, w, tm)
      /\ TransportOK(m, tw, w, tm) /\ \A j \in Keys : Slotted(m, j)
  BY DEF Sound, MainOK, Mains, WayTyped, TransportOK
<1>1. /\ a.disabled = m.disabled /\ a.nextID = id /\ a.pending = m.pending
      /\ a.keys = m.keys \cup {k} /\ a.latest = [m.latest EXCEPT ![k] = id]
      /\ a.active = m.active /\ a.queued = m.queued /\ a.states = m.states
      /\ a.out = << >>
      /\ a.views = [m.views EXCEPT ![k] = [m.views[k] EXCEPT !.fetch = id]]
  BY <1>0 DEF Asking, Mains
<1>2. MainOK(a)
  <2>1. [m.views[k] EXCEPT !.fetch = id] \in Views
    <3>1. m.views[k] \in Views /\ id \in Int
      BY <1>0 DEF Mains
    <3> QED
      BY <3>1 DEF Views
  <2>2. a \in Mains
    <3> DEFINE vs == [m.views EXCEPT ![k] = [m.views[k] EXCEPT !.fetch = id]]
               ls == [m.latest EXCEPT ![k] = id]
               ks == m.keys \cup {k}
    <3>1. id \in Nat /\ vs \in [Keys -> Views] /\ ls \in [Keys -> Nat] /\ ks \in SUBSET Keys
      BY <1>0, <2>1 DEF Mains
    <3>2. a = [m EXCEPT !.nextID = id, !.latest = ls, !.keys = ks, !.views = vs]
      BY <1>0 DEF Asking, Mains
    <3> HIDE DEF a, vs, ls, ks, id
    <3> QED
      BY <1>0, <3>1, <3>2 DEF Mains
  <2> HIDE DEF a
  <2> QED
    BY <1>0, <1>1, <2>2 DEF MainOK
<1>3. HighlightStreamingCode(m, k, c) = n
  <2>1. a = [m EXCEPT !.nextID = id, !.latest[k] = id, !.keys = @ \cup {k},
                      !.views[k].fetch = id]
    BY DEF Asking
  <2>2. e.nextID = id
    <3>1. \A x \in a.keys : Disposed(a, DisposeStreamingCode(a, x), x)
      <4>1. \A x \in Keys : Slotted(a, x)
        BY <1>0, <1>1 DEF Slotted, Asks
      <4>2. a.keys \subseteq Keys
        BY <1>2 DEF MainOK, Mains
      <4> HIDE DEF a
      <4> QED
        BY <4>1, <4>2, <1>2, MdDispose
    <3>2. Cardinality(a.keys) > Limit => Oldest(a) \in a.keys
      BY <1>2, MdOldest
    <3> HIDE DEF a
    <3> QED
      BY <3>1, <3>2, <1>1 DEF Evict, Disposed
  <2> HIDE DEF a
  <2>3. p = [e EXCEPT !.pending = Recorded(@, id, [key |-> k, code |-> c])]
    BY <2>2 DEF Noted
  <2> HIDE DEF e, p
  <2> QED
    BY <2>1, <2>3 DEF HighlightStreamingCode, Request, a, e
<1> HIDE DEF a, n
<1>4. Sound(a, tw, w, tm) /\ tw \o a.out = tw
  <2>1. WorkerUp(m) => WorkerUp(a)
    BY <1>0, <1>1 DEF WorkerUp
  <2>2. Sound(a, tw, w, tm)
    BY <2>1, <1>0, <1>1, <1>2, MdSoundSame
  <2> QED
    BY <2>2, <1>0, <1>1
<1>5. \A j \in Keys : Slotted(a, j)
  BY <1>4 DEF Sound, TransportOK
<1>6. IsFiniteSet(a.keys) /\ Cardinality(a.keys) <= Limit + 1
  <2>1. IsFiniteSet(m.keys) /\ Cardinality(m.keys) \in Nat /\ Cardinality(m.keys) <= Limit
    BY FS_CardinalityType DEF FewKeys
  <2>2. IsFiniteSet(m.keys \cup {k}) /\ (\/ Cardinality(m.keys \cup {k}) = Cardinality(m.keys)
                                        \/ Cardinality(m.keys \cup {k}) = Cardinality(m.keys) + 1)
    BY <2>1, FS_AddElement
  <2>3. a.keys = m.keys \cup {k}
    BY <1>1
  <2> HIDE DEF id
  <2> QED
    BY <2>1, <2>2, <2>3, MdLimitAssumption
<1>7. \A j \in Keys \ {k} : a.latest[j] < a.latest[k]
  <2>1. \A j \in Keys \ {k} : a.latest[j] = m.latest[j] /\ m.latest[j] <= m.nextID
                              /\ m.latest[j] \in Nat
    BY <1>0, <1>1 DEF Numbered, Mains
  <2>2. a.latest[k] = id
    BY <1>0, <1>1 DEF Mains
  <2> QED
    BY <2>1, <2>2, <1>0
<1>8. /\ e = a \/ \E x \in Keys \ {k} : Disposed(a, e, x)
      /\ Cardinality(e.keys) <= Limit
  BY <1>1, <1>2, <1>5, <1>6, <1>7, MdEvict
<1> HIDE DEF e
<1>9. /\ Sound(e, tw \o e.out, w, tm) /\ Ids(tw \o e.out) = Ids(tw)
      /\ ViewsKeep(a, e) /\ e.keys \subseteq a.keys /\ k \in e.keys
      /\ e.nextID = id /\ e.disabled = m.disabled
      /\ DOMAIN e.pending \subseteq DOMAIN m.pending
      /\ e.active[k] = m.active[k] /\ e.queued[k] = m.queued[k]
      /\ e.states[k] = m.states[k] /\ e.latest[k] = id
      /\ \A j \in Keys \ {k} :
           \/ e.active[j] = m.active[j] /\ e.queued[j] = m.queued[j]
              /\ e.states[j] = m.states[j] /\ e.latest[j] = m.latest[j]
           \/ e.active[j] = None /\ e.states[j] = None /\ e.latest[j] = 0
  <2>1. CASE e = a
    <3>1. ViewsKeep(a, e)
      BY <2>1, MdViewsSame
    <3>2. a.latest[k] = id /\ \A j \in Keys \ {k} : a.latest[j] = m.latest[j]
      BY <1>0, <1>1 DEF Mains
    <3> QED
      BY <2>1, <3>1, <3>2, <1>1, <1>4
  <2>2. CASE e # a
    <3>1. PICK x \in Keys \ {k} : Disposed(a, e, x)
      BY <2>2, <1>8
    <3>2. Sound(e, tw \o e.out, w, tm) /\ Ids(tw \o e.out) = Ids(tw)
      <4>1. Sound(a, tw \o a.out, w, tm) /\ x \in Keys
        BY <1>4
      <4>2. tw \in Seq(Posts)
        BY <1>0
      <4>3. Sound(e, tw \o e.out, w, tm) /\ Ids(tw \o e.out) = Ids(tw \o a.out)
        BY <3>1, <4>1, <4>2, MdSoundDisposed
      <4> QED
        BY <4>3, <1>4
    <3>3. /\ ViewsKeep(a, e) /\ e.keys \subseteq a.keys /\ k \in e.keys
          /\ e.nextID = id /\ e.disabled = m.disabled
          /\ DOMAIN e.pending \subseteq DOMAIN m.pending
      BY <3>1, <1>1 DEF Disposed, Loses
    <3>4. /\ a.active \in [Keys -> HighlightRequests \cup {None}]
          /\ a.queued \in [Keys -> HighlightRequests \cup {None}]
          /\ a.states \in [Keys -> TokenStates \cup {None}]
          /\ a.latest \in [Keys -> Nat] /\ a.latest[k] = id
          /\ \A j \in Keys \ {k} : a.latest[j] = m.latest[j]
      BY <1>0, <1>1, <1>2 DEF MainOK, Mains
    <3>5. \A j \in Keys :
            IF j = x THEN e.active[j] = None /\ e.states[j] = None /\ e.latest[j] = 0
            ELSE /\ e.active[j] = m.active[j] /\ e.queued[j] = m.queued[j]
                 /\ e.states[j] = m.states[j] /\ e.latest[j] = a.latest[j]
      BY <3>1, <3>4, <1>1 DEF Disposed
    <3> QED
      BY <3>2, <3>3, <3>4, <3>5
  <2> QED
    BY <2>1, <2>2
<1>10. MainOK(e)
  BY <1>9 DEF Sound
<1>11. /\ MainOK(p) /\ p.views = e.views /\ p.keys = e.keys /\ p.nextID = id
       /\ p.disabled = m.disabled /\ p.latest = e.latest /\ p.active = e.active
       /\ p.queued = e.queued /\ p.states = e.states
       /\ DOMAIN p.pending = DOMAIN e.pending \cup {id}
       /\ p.pending[id] = [key |-> k, code |-> c]
       /\ \A i \in DOMAIN e.pending : i # id => p.pending[i] = e.pending[i]
  BY <1>0, <1>9, <1>10, MdNoted
<1>12. req \in HighlightRequests /\ req.key = k /\ req.id = id /\ req # None
  BY <1>0, MdNoneAssumption DEF Request, HighlightRequests
<1>13. Sent(p, n, req)
  BY <1>11, <1>12, MdSend DEF n
<1>14. id \notin DOMAIN e.pending /\ Fresh(id, tw \o e.out, w, tm)
  <2>1. id \notin DOMAIN m.pending /\ id \notin 1..m.nextID
    BY <1>0
  <2>2. Ids(tw) \cup Ids(w.jobs) \cup Ids(tm) \cup RunningIds(w) \subseteq 1..m.nextID
    BY <1>0 DEF TransportOK, OneEach
  <2> QED
    BY <2>1, <2>2, <1>9 DEF Fresh
<1>15. Sound(n, tw \o n.out, w, tm)
  <2>1. WorkerUp(e) /\ e.nextID \in Nat \ {0}
    BY <1>0, <1>9 DEF WorkerUp
  <2>2. p = Noted(e, k, c) /\ req = Request(e.nextID, k, c)
    BY <1>9
  <2> HIDE DEF p, req, id
  <2> QED
    BY <2>1, <2>2, <1>0, <1>9, <1>13, <1>14, MdSoundSent
<1> HIDE DEF p, req
<1>16. FewKeys(n) /\ n.nextID = id /\ n.disabled = m.disabled
  <2>1. n.keys = e.keys /\ n.nextID = id /\ n.disabled = m.disabled
    BY <1>11, <1>13 DEF Sent
  <2>2. IsFiniteSet(e.keys)
    BY <1>6, <1>9, FS_Subset
  <2> QED
    BY <2>1, <2>2, <1>8 DEF FewKeys
<1>17. ASSUME NEW j \in Keys PROVE Numbered(n, j)
  <2>1. n.latest = e.latest /\ n.states = e.states
    BY <1>11, <1>13 DEF Sent
  <2>2. e.active \in [Keys -> HighlightRequests \cup {None}]
        /\ e.queued \in [Keys -> HighlightRequests \cup {None}]
    BY <1>10 DEF MainOK, Mains
  <2>3. Numbered(m, j) /\ m.latest[j] \in Nat
        /\ m.states[j] \in TokenStates \cup {None}
    BY <1>0 DEF Mains
  <2>4. m.states[j] # None => m.states[j].id \in Nat
    BY <2>3 DEF TokenStates
  <2>5. CASE j = k
    <3>1. m.active[k] = None => n.active[k] = req /\ n.queued[k] = e.queued[k]
      BY <2>2, <1>9, <1>11, <1>12, <1>13 DEF Sent
    <3>2. m.active[k] # None => n.active[k] = m.active[k] /\ n.queued[k] = req
      BY <2>2, <1>9, <1>11, <1>12, <1>13 DEF Sent
    <3>3. m.active[k] = None => m.queued[k] = None
      BY <1>0 DEF Slotted
    <3> QED
      BY <2>1, <2>3, <2>4, <2>5, <3>1, <3>2, <3>3, <1>0, <1>9, <1>12, <1>16 DEF Numbered
  <2>6. CASE j # k
    <3>1. n.active[j] = e.active[j] /\ n.queued[j] = e.queued[j]
      BY <2>2, <2>6, <1>11, <1>12, <1>13 DEF Sent
    <3> QED
      BY <2>1, <2>3, <2>4, <2>6, <3>1, <1>0, <1>9, <1>16 DEF Numbered
  <2> QED
    BY <2>5, <2>6
<1>18. ViewsKeep(p, n) /\ id \in DOMAIN n.pending /\ n.pending[id] = [key |-> k, code |-> c]
  <2>1. ViewsKeep(p, n)
    BY <1>13 DEF Sent
  <2>2. id \notin {r.id : r \in {p.queued[k]} \ {None}}
    <3>1. m.queued[k] # None => m.queued[k].id \in DOMAIN m.pending
      BY <1>0 DEF Slotted, Asks
    <3>2. id \notin DOMAIN m.pending
      BY <1>0
    <3> QED
      BY <3>1, <3>2, <1>9, <1>11
  <2>3. id \in DOMAIN n.pending
    BY <2>2, <1>11, <1>12, <1>13 DEF Sent, Loses
  <2>4. n.pending[id] = p.pending[id]
    BY <2>3, <1>13 DEF Sent, Loses
  <2> QED
    BY <2>1, <2>3, <2>4, <1>11
<1>19. ASSUME NEW j \in Keys \ {k}, ViewOK(m, j) PROVE ViewOK(n, j)
  <2>1. ViewOK(a, j)
    <3>1. a.views[j] = m.views[j]
      BY <1>0, <1>1 DEF Mains
    <3> QED
      BY <3>1, <1>1, <1>19 DEF ViewOK
  <2>2. ViewOK(e, j)
    BY <2>1, <1>9 DEF ViewsKeep
  <2>3. ViewOK(p, j)
    BY <2>2, <1>11, <1>14 DEF ViewOK
  <2> QED
    BY <2>3, <1>18 DEF ViewsKeep
<1>20. n.views[k].text = c /\ n.views[k].fetch = id
  <2>1. a.views[k].text = c /\ a.views[k].fetch = id
    <3>1. m.views \in [Keys -> Views] /\ m.views[k] \in Views
      BY <1>0 DEF Mains
    <3> QED
      BY <3>1, <1>1 DEF Views
  <2>2. id \notin DOMAIN a.pending
    BY <1>0, <1>1
  <2>3. e.views[k].text = c /\ e.views[k].fetch = id
    BY <2>1, <2>2, <1>9 DEF ViewsKeep
  <2> QED
    BY <2>3, <1>11, <1>18 DEF ViewsKeep
<1> QED
  BY <1>3, <1>15, <1>16, <1>17, <1>18, <1>19, <1>20

\* A view changes, and nothing else.
ViewSet(m, n, k, V) ==
  /\ n \in Mains /\ SameRest(m, n) /\ n.pending = m.pending /\ n.views[k] = V
  /\ \A j \in Keys \ {k} : n.views[j] = m.views[j]

\* What the steps of the page keep, next to the transport and the deltas.
Tidy(m) == FewKeys(m) /\ \A k \in Keys : Numbered(m, k) /\ ViewOK(m, k)

\* A change of one view disturbs nothing else.
LEMMA MdViewSet ==
  ASSUME NEW m, NEW tw, NEW w, NEW tm, Sound(m, tw, w, tm), FewKeys(m),
         \A j \in Keys : Numbered(m, j),
         NEW k \in Keys, NEW n, NEW V, ViewSet(m, n, k, V)
  PROVE  /\ MainOK(n) /\ SameRest(m, n) /\ n.pending = m.pending /\ n.views[k] = V
         /\ Sound(n, tw, w, tm) /\ FewKeys(n)
         /\ \A j \in Keys : Numbered(n, j)
         /\ \A j \in Keys \ {k} : ViewOK(m, j) => ViewOK(n, j)
<1>1. /\ n \in Mains /\ SameRest(m, n) /\ n.pending = m.pending /\ n.views[k] = V
      /\ \A j \in Keys \ {k} : n.views[j] = m.views[j]
  BY DEF ViewSet
<1>2. MainOK(n) /\ m.nextID \in Nat
  BY <1>1 DEF Sound, MainOK, Mains, SameRest
<1>3. Sound(n, tw, w, tm)
  <2>1. WorkerUp(m) => WorkerUp(n)
    BY <1>1 DEF WorkerUp, SameRest
  <2>2. /\ n.active = m.active /\ n.queued = m.queued /\ n.states = m.states
        /\ m.keys \subseteq n.keys /\ m.nextID <= n.nextID
    BY <1>1, <1>2 DEF SameRest
  <2> QED
    BY <2>1, <2>2, <1>1, <1>2, MdSoundSame
<1>4. FewKeys(n)
  BY <1>1 DEF FewKeys, SameRest
<1>5. \A j \in Keys : Numbered(n, j)
  BY <1>1 DEF Numbered, SameRest
<1>6. \A j \in Keys \ {k} : ViewOK(m, j) => ViewOK(n, j)
  BY <1>1 DEF ViewOK
<1> QED
  BY <1>1, <1>2, <1>3, <1>4, <1>5, <1>6

\* The text of a block changes.
LEMMA MdFetch ==
  ASSUME NEW m, NEW tw, NEW w, NEW tm, Sound(m, tw, w, tm), m.out = << >>, Tidy(m),
         NEW k \in Keys, NEW c \in Codes
  PROVE  LET n == Fetch(m, k, c)
         IN /\ Sound(n, tw \o n.out, w, tm) /\ Tidy(n)
            /\ n.nextID \in {m.nextID, m.nextID + 1}
<1> DEFINE n == Fetch(m, k, c)
           view == m.views[k]
           V == [view EXCEPT !.text = c]
           m1 == [m EXCEPT !.views = [m.views EXCEPT ![k] = V]]
           U == [view EXCEPT !.text = c, !.fetch = -1]
           now(b) == [m EXCEPT !.views = [m.views EXCEPT ![k] = Resolved(U, -1, b)]]
           hs == HighlightStreamingCode(m1, k, c)
           W == Shown(hs.views[k])
           cached == view.cached
<1>0. MainOK(m) /\ tw \in Seq(Posts) /\ tw \o << >> = tw
  BY DEF Sound, WayTyped
<1>1. view \in Views /\ V \in Views /\ U \in Views /\ V.text = c /\ U.text = c /\ U.fetch = -1
      /\ cached \in SpeltBlocks \cup {None}
  <2>1. view \in Views /\ -1 \in Int
    BY <1>0 DEF MainOK, Mains
  <2> HIDE DEF view
  <2> QED
    BY <2>1 DEF Views
<1>2. n = IF c.complete /\ cached # None /\ cached.code = c THEN now(cached)
          ELSE IF m.disabled THEN now(PlainBlock(c))
          ELSE [hs EXCEPT !.views = [hs.views EXCEPT ![k] = W]]
  <2>0. m.views \in [Keys -> Views] /\ m \in Mains
    BY <1>0 DEF MainOK, Mains
  <2>1. m1 = [m EXCEPT !.views[k].text = c]
    OBVIOUS
  <2>2. \A b : now(b) = Resolve([m1 EXCEPT !.views[k].fetch = -1], k, -1, b)
    <3>1. [m1 EXCEPT !.views[k].fetch = -1] = [m EXCEPT !.views = [m.views EXCEPT ![k] = U]]
      <4>1. m1.views = [m.views EXCEPT ![k] = V]
        BY <2>0 DEF Mains
      <4>2. [V EXCEPT !.fetch = -1] = U
        BY <1>1 DEF Views
      <4> HIDE DEF V, U
      <4>3. [m1.views EXCEPT ![k] = [m1.views[k] EXCEPT !.fetch = -1]] = [m.views EXCEPT ![k] = U]
        BY <2>0, <4>1, <4>2
      <4> QED
        BY <2>0, <4>3 DEF Mains
    <3> HIDE DEF U, m1
    <3> DEFINE P == [m.views EXCEPT ![k] = U]
               X == [m EXCEPT !.views = P]
    <3>2. P \in [Keys -> Views] /\ P[k] = U /\ \A r : [P EXCEPT ![k] = r] = [m.views EXCEPT ![k] = r]
      BY <2>0, <1>1
    <3> HIDE DEF P
    <3>3. X.views = P /\ \A z : [X EXCEPT !.views = z] = [m EXCEPT !.views = z]
      BY <2>0 DEF Mains
    <3> HIDE DEF X
    <3>4. \A b : Resolve(X, k, -1, b) = [X EXCEPT !.views = [X.views EXCEPT ![k] = Resolved(X.views[k], -1, b)]]
      BY DEF Resolve
    <3>5. \A b : Resolve(X, k, -1, b) = [m EXCEPT !.views = [m.views EXCEPT ![k] = Resolved(U, -1, b)]]
      <4> TAKE b
      <4> DEFINE R == Resolved(U, -1, b)
      <4>1. Resolved(X.views[k], -1, b) = R
        BY <3>2, <3>3
      <4> HIDE DEF R
      <4>2. Resolve(X, k, -1, b) = [X EXCEPT !.views = [P EXCEPT ![k] = R]]
        BY <3>3, <3>4, <4>1
      <4>3. [P EXCEPT ![k] = R] = [m.views EXCEPT ![k] = R]
        BY <3>2
      <4>4. Resolve(X, k, -1, b) = [m EXCEPT !.views = [m.views EXCEPT ![k] = R]]
        BY <3>3, <4>2, <4>3
      <4> QED
        BY <4>4 DEF R
    <3>6. [m1 EXCEPT !.views[k].fetch = -1] = X
      BY <3>1 DEF X, P
    <3> QED
      BY <3>5, <3>6
  <2>3. [hs EXCEPT !.views = [hs.views EXCEPT ![k] = W]] = [hs EXCEPT !.views[k] = Shown(@)]
    OBVIOUS
  <2> HIDE DEF m1, now, W
  <2> QED
    BY <2>1, <2>2, <2>3 DEF Fetch, hs
<1> HIDE DEF n, V, U, W
<1>3. ASSUME NEW b \in SpeltBlocks, b.code = c, n = now(b)
      PROVE  /\ Sound(n, tw \o n.out, w, tm) /\ Tidy(n)
             /\ n.nextID \in {m.nextID, m.nextID + 1}
  <2> DEFINE R == Resolved(U, -1, b)
  <2>1. R \in Views /\ R.text = c /\ R.fetch = 0 /\ R.dom # None /\ R.dom.code = c
    <3>1. -1 \in Int
      OBVIOUS
    <3> HIDE DEF R
    <3> QED
      BY <3>1, <1>1, <1>3, MdResolved DEF R
  <2> HIDE DEF R
  <2>2. ViewSet(m, n, k, R)
    <3>1. n = [m EXCEPT !.views = [m.views EXCEPT ![k] = R]]
      BY <1>3 DEF R
    <3> QED
      BY <2>1, <3>1, <1>0 DEF MainOK, Mains, ViewSet, SameRest
  <2>3. /\ SameRest(m, n) /\ n.views[k] = R
        /\ Sound(n, tw, w, tm) /\ FewKeys(n)
        /\ \A j \in Keys : Numbered(n, j)
        /\ \A j \in Keys \ {k} : ViewOK(n, j)
    BY <2>2, MdViewSet DEF Tidy
  <2>4. ViewOK(n, k)
    <3>1. c # None
      BY MdNoneAssumption
    <3> QED
      BY <2>1, <2>3, <3>1, MdStartsWithItself DEF ViewOK
  <2> QED
    BY <2>3, <2>4, <1>0 DEF Tidy, SameRest
<1>4. CASE c.complete /\ cached # None /\ cached.code = c
  <2>1. cached \in SpeltBlocks /\ cached.code = c /\ n = now(cached)
    BY <1>1, <1>2, <1>4
  <2> HIDE DEF now, cached
  <2> QED
    BY <2>1, <1>3 DEF n
<1>5. CASE ~ (c.complete /\ cached # None /\ cached.code = c) /\ m.disabled
  <2>1. PlainBlock(c) \in SpeltBlocks /\ PlainBlock(c).code = c
    BY MdPlainTyped
  <2>2. n = now(PlainBlock(c))
    BY <1>2, <1>5
  <2> HIDE DEF now
  <2> QED
    BY <2>1, <2>2, <1>3 DEF n
<1>6. CASE ~ (c.complete /\ cached # None /\ cached.code = c) /\ ~ m.disabled
  <2> DEFINE id == m.nextID + 1
  <2>1. /\ MainOK(m1) /\ SameRest(m, m1) /\ m1.views[k] = V
        /\ Sound(m1, tw, w, tm) /\ FewKeys(m1)
        /\ \A j \in Keys : Numbered(m1, j)
        /\ \A j \in Keys \ {k} : ViewOK(m1, j)
    <3>1. ViewSet(m, m1, k, V)
      BY <1>0, <1>1 DEF MainOK, Mains, ViewSet, SameRest
    <3> HIDE DEF m1
    <3> QED
      BY <3>1, MdViewSet DEF Tidy
  <2> HIDE DEF m1
  <2>2. /\ Sound(hs, tw \o hs.out, w, tm) /\ FewKeys(hs) /\ hs.nextID = id
        /\ \A j \in Keys : Numbered(hs, j)
        /\ \A j \in Keys \ {k} : ViewOK(m1, j) => ViewOK(hs, j)
        /\ hs.views[k].text = c /\ hs.views[k].fetch = id
        /\ id \in DOMAIN hs.pending /\ hs.pending[id] = [key |-> k, code |-> c]
    <3>1. m1.out = << >> /\ ~ m1.disabled /\ m1.nextID = m.nextID /\ m1.views[k].text = c
      BY <2>1, <1>1, <1>6 DEF SameRest
    <3> HIDE DEF hs
    <3> QED
      BY <2>1, <3>1, MdHighlight DEF hs
  <2> HIDE DEF hs
  <2>3. MainOK(hs) /\ hs.views[k] \in Views /\ id # 0 /\ c # None
    <3>1. MainOK(hs) /\ m.nextID \in Nat
      BY <2>2, <1>0 DEF Sound, MainOK, Mains
    <3> QED
      BY <3>1, MdNoneAssumption DEF MainOK, Mains
  <2>4. W \in Views /\ W.text = c /\ W.fetch = id /\ W.dom # None /\ StartsWith(c, W.dom.code)
    <3> HIDE DEF id
    <3> QED
      BY <2>2, <2>3, MdShown DEF W
  <2>5. n = [hs EXCEPT !.views = [hs.views EXCEPT ![k] = W]]
    BY <1>2, <1>6
  <2>6. /\ SameRest(hs, n) /\ n.views[k] = W /\ n.pending = hs.pending
        /\ Sound(n, tw \o hs.out, w, tm) /\ FewKeys(n)
        /\ \A j \in Keys : Numbered(n, j)
        /\ \A j \in Keys \ {k} : ViewOK(n, j)
    <3>1. ViewSet(hs, n, k, W)
      BY <2>3, <2>4, <2>5 DEF MainOK, Mains, ViewSet, SameRest
    <3> QED
      BY <3>1, <2>1, <2>2, MdViewSet
  <2>7. ViewOK(n, k)
    BY <2>2, <2>3, <2>4, <2>6 DEF ViewOK
  <2>8. n.out = hs.out /\ n.nextID = m.nextID + 1
    BY <2>2, <2>6 DEF SameRest
  <2>9. \A j \in Keys : Numbered(n, j) /\ ViewOK(n, j)
    BY <2>6, <2>7
  <2>10. Sound(n, tw \o n.out, w, tm)
    BY <2>6, <2>8
  <2> HIDE DEF id
  <2> QED
    BY <2>6, <2>8, <2>9, <2>10 DEF Tidy, n
<1> QED
  BY <1>4, <1>5, <1>6 DEF n

\* The page shows the block no more.
LEMMA MdDrop ==
  ASSUME NEW m, NEW tw, NEW w, NEW tm, Sound(m, tw, w, tm), m.out = << >>, Tidy(m),
         NEW k \in Keys, NEW r \in {None, m.views[k].result}
  PROVE  LET n == DisposeStreamingCode([m EXCEPT !.views[k].text = None, !.views[k].fetch = 0,
                                                 !.views[k].dom = None, !.views[k].result = r], k)
         IN Sound(n, tw \o n.out, w, tm) /\ Tidy(n) /\ n.nextID = m.nextID
<1> DEFINE V == [m.views[k] EXCEPT !.text = None, !.fetch = 0, !.dom = None, !.result = r]
           d == [m EXCEPT !.views = [m.views EXCEPT ![k] = V]]
           n == DisposeStreamingCode(d, k)
<1>0. MainOK(m) /\ tw \in Seq(Posts) /\ tw \o << >> = tw /\ m \in Mains
      /\ m.views \in [Keys -> Views] /\ m.views[k] \in Views
  BY DEF Sound, WayTyped, MainOK, Mains
<1>1. V \in Views /\ V.fetch = 0 /\ V.dom = None
  <2>1. r \in SpeltBlocks \cup {None}
    BY <1>0 DEF Views
  <2>2. 0 \in Int
    OBVIOUS
  <2> QED
    BY <2>1, <2>2, <1>0 DEF Views
<1>2. d = [m EXCEPT !.views[k].text = None, !.views[k].fetch = 0,
                    !.views[k].dom = None, !.views[k].result = r]
  BY <1>0 DEF Mains
<1> HIDE DEF V
<1>3. /\ MainOK(d) /\ SameRest(m, d) /\ d.views[k] = V
      /\ Sound(d, tw, w, tm) /\ FewKeys(d)
      /\ \A j \in Keys : Numbered(d, j)
      /\ \A j \in Keys \ {k} : ViewOK(d, j)
  <2>1. ViewSet(m, d, k, V)
    BY <1>0, <1>1 DEF MainOK, Mains, ViewSet, SameRest
  <2> HIDE DEF d
  <2> QED
    BY <2>1, MdViewSet DEF Tidy
<1> HIDE DEF d
<1>4. ViewOK(d, k)
  BY <1>1, <1>3 DEF ViewOK
<1>5. Disposed(d, n, k)
  <2>1. Slotted(d, k)
    BY <1>3 DEF Sound, TransportOK
  <2> QED
    BY <2>1, <1>3, MdDispose
<1> HIDE DEF n
<1>6. Sound(n, tw \o n.out, w, tm)
  <2>1. Sound(d, tw \o d.out, w, tm)
    BY <1>0, <1>3 DEF SameRest
  <2> QED
    BY <2>1, <1>0, <1>5, MdSoundDisposed
<1>7. FewKeys(n)
  <2>1. n.keys \subseteq d.keys /\ IsFiniteSet(d.keys) /\ Cardinality(d.keys) <= Limit
    BY <1>3, <1>5 DEF Disposed, FewKeys
  <2>2. IsFiniteSet(n.keys) /\ Cardinality(n.keys) <= Cardinality(d.keys)
    BY <2>1, FS_Subset
  <2>3. Cardinality(n.keys) \in Nat /\ Cardinality(d.keys) \in Nat
    BY <2>1, <2>2, FS_CardinalityType
  <2> QED
    BY <2>1, <2>2, <2>3, MdLimitAssumption DEF FewKeys
<1>8. \A j \in Keys : Numbered(n, j) /\ ViewOK(n, j)
  <2> TAKE j \in Keys
  <2>1. ViewOK(n, j)
    BY <1>3, <1>4, <1>5 DEF Disposed, ViewsKeep
  <2>2. Numbered(d, j) /\ d.nextID \in Nat
    BY <1>3, MdOutTyped
  <2>3. IF j = k THEN n.active[j] = None /\ n.states[j] = None /\ n.latest[j] = 0
        ELSE n.active[j] = d.active[j] /\ n.queued[j] = d.queued[j]
             /\ n.states[j] = d.states[j] /\ n.latest[j] = d.latest[j]
    BY <1>3, <1>5 DEF Disposed, MainOK, Mains
  <2> QED
    BY <2>1, <2>2, <2>3, <1>5 DEF Numbered, Disposed
<1> QED
  BY <1>2, <1>3, <1>5, <1>6, <1>7, <1>8 DEF Tidy, Disposed, SameRest, n

\* The waiting request is nowhere on its way.
LEMMA MdQueuedFresh ==
  ASSUME NEW m, NEW tw, NEW w, NEW tm, MainOK(m), WayTyped(tw, w, tm),
         TransportOK(m, tw, w, tm), NEW k \in Keys, m.queued[k] # None
  PROVE  Fresh(m.queued[k].id, tw, w, tm)
<1> DEFINE id == m.queued[k].id
<1>1. /\ id \in DOMAIN m.pending /\ m.pending[id].key = k
      /\ m.active[k] # None /\ m.active[k].id < id
      /\ m.active[k].id \in Nat /\ id \in Nat
  <2>1. \A j \in Keys : Slotted(m, j)
    BY DEF TransportOK
  <2>2. /\ id \in DOMAIN m.pending /\ m.pending[id].key = k
        /\ m.active[k] # None /\ m.active[k].id < id /\ m.active[k].id \in DOMAIN m.pending
    BY <2>1, MdSlots
  <2> HIDE DEF id
  <2> QED
    BY <2>2, MdPromises DEF MainOK, Mains
<1> HIDE DEF id
<1>2. ASSUME NEW r \in Items(tw) \cup Items(w.jobs) \cup RunningItems(w) \cup Items(tm), r.id = id
      PROVE  FALSE
  <2>1. r.key \in Keys /\ m.active[r.key] # None /\ m.active[r.key].id = id
    <3>1. CASE r \in Items(tw) \cup Items(w.jobs) \cup RunningItems(w)
      <4>1. r.key \in Keys /\ r # None
        BY <3>1, MdWay, MdNoneAssumption DEF RunningItems
      <4>2. Live(m, r)
        BY <1>1, <1>2, <3>1 DEF TransportOK, Known, RunningItems
      <4> QED
        BY <4>1, <4>2, <1>2 DEF Live
    <3>2. CASE r \in Items(tm)
      <4>1. r.key \in Keys
        BY <3>2, MdWay
      <4>2. AnswersActive(m, r)
        BY <1>1, <1>2, <3>2 DEF TransportOK, Known
      <4> QED
        BY <4>1, <4>2, <1>2 DEF AnswersActive
    <3> QED
      BY <3>1, <3>2
  <2>2. m.pending[id].key = r.key
    BY <2>1, MdSlots DEF TransportOK
  <2>3. m.active[k].id = id
    BY <1>1, <2>1, <2>2
  <2> QED
    BY <1>1, <2>3
<1>3. id \notin Ids(tw) \cup Ids(w.jobs) \cup Ids(tm)
  BY <1>2 DEF Ids
<1>4. id \notin RunningIds(w)
  BY <1>2 DEF RunningIds, RunningItems
<1> QED
  BY <1>3, <1>4 DEF Fresh, id

\* An answer settles the promise of the active request, and its state of the
\* block is taken over.
Settling(m, b, n, w, tm, k, id) ==
  /\ MainOK(b) /\ tm # << >> /\ k = Head(tm).key /\ id = Head(tm).id
  /\ id \in DOMAIN m.pending /\ Loses(m, b, {id}) /\ \A j \in Keys : ViewOK(b, j)
  /\ b.active = m.active /\ b.queued = m.queued /\ b.nextID = m.nextID
  /\ b.disabled = m.disabled /\ b.out = << >>
  /\ \A j \in Keys \ {k} : b.states[j] = m.states[j] /\ b.latest[j] = m.latest[j]
  /\ b.states[k] # None => b.states[k].id \in Nat /\ b.states[k].id <= id
  /\ \/ b.keys = m.keys /\ b.latest[k] = m.latest[k]
     \/ b.keys = m.keys \ {k} /\ b.latest[k] = 0 /\ m.queued[k] = None
  /\ IF Head(tm).type = "highlight"
     THEN w.streams[k] # None =>
            b.states[k] # None /\ b.states[k].stable = StableTokens(m.active[k].code)
     ELSE b.states[k] = m.states[k]
  /\ Completed(b, n, k, id)

\* The promise of the request that was answered is settled, and the waiting
\* request posted.
LEMMA MdAnswered ==
  ASSUME NEW m, NEW b, NEW n, NEW tw, NEW w, NEW tm, NEW k \in Keys, NEW id,
         Sound(m, tw, w, tm), m.out = << >>, Tidy(m), Settling(m, b, n, w, tm, k, id)
  PROVE  Sound(n, tw \o n.out, w, Tail(tm)) /\ Tidy(n) /\ n.nextID = m.nextID
<1> USE DEF Settling
<1> DEFINE t == Tail(tm)
           q == m.queued[k]
           out == IF q # None THEN Append(tw, q) ELSE tw
<1>0. /\ MainOK(m) /\ WayTyped(tw, w, tm) /\ TransportOK(m, tw, w, tm)
      /\ tw \in Seq(Posts) /\ tm \in Seq(Answers) /\ m.nextID \in Nat
      /\ \A j \in Keys : Slotted(m, j)
      /\ m.active \in [Keys -> HighlightRequests \cup {None}]
      /\ m.queued \in [Keys -> HighlightRequests \cup {None}]
  BY DEF Sound, WayTyped, MainOK, Mains, TransportOK
<1>1. /\ TransportOK(n, out, w, t) /\ WayTyped(out, w, t)
      /\ m.active[k] # None /\ m.active[k].id = id
  <2>1. Taken(m, b, n, tm, k, id)
    <3>1. {id} \cap DOMAIN m.pending = {id}
      OBVIOUS
    <3> QED
      BY <3>1 DEF Taken
  <2>2. LET o == IF id \in DOMAIN m.pending /\ m.queued[k] # None
                 THEN Append(tw, m.queued[k]) ELSE tw
        IN /\ TransportOK(n, o, w, Tail(tm)) /\ WayTyped(o, w, Tail(tm))
           /\ id \in DOMAIN m.pending <=> (m.active[k] # None /\ m.active[k].id = id)
    BY <1>0, <2>1, MdTransportAnswered
  <2> QED
    BY <2>2
<1>2. /\ MainOK(n) /\ n.views = b.views /\ n.pending = b.pending
      /\ n.nextID = m.nextID /\ n.keys = b.keys
      /\ n.latest = b.latest /\ n.states = b.states
      /\ n.active[k] = q /\ n.queued[k] = None
      /\ \A j \in Keys \ {k} : n.active[j] = m.active[j] /\ n.queued[j] = m.queued[j]
      /\ n.out = IF q = None THEN << >> ELSE Append(<< >>, q)
  BY <1>0, <1>1 DEF Completed
<1>3. q # None => q \in HighlightRequests /\ q.key = k /\ q \in Posts
  BY <1>0 DEF Slotted, Asks, Posts
<1>4. tw \o n.out = out
  <2>1. CASE q = None
    BY <2>1, <1>0, <1>2
  <2>2. CASE q # None
    <3>1. Append(<< >>, q) = << q >>
      OBVIOUS
    <3> HIDE DEF q
    <3>2. tw \o << q >> = Append(tw, q)
      BY <2>2, <1>0, <1>3, MdPosted
    <3> QED
      BY <2>2, <3>1, <3>2, <1>2
  <2> QED
    BY <2>1, <2>2
<1>5. Head(tm) = tm[1] /\ 1 \in DOMAIN tm
  BY <1>0, MdTailAt
<1>6. q # None => q.id \notin Ids(tw) \cup Ids(w.jobs) \cup RunningIds(w) \cup Ids(t)
  <2>1. tm \in Seq(Answers) /\ tm # << >>
    BY <1>0
  <2>2. Ids(t) \subseteq Ids(tm)
    BY <2>1, MdItemsTail DEF Ids
  <2> QED
    BY <2>2, <1>0, MdQueuedFresh DEF Fresh
<1> HIDE DEF t, out
<1>7. ASSUME NEW j \in Keys \ {k} PROVE InStep(n, out, w, t, j)
  <2>1. InStep(m, tw, w, tm, j)
    BY DEF Sound
  <2>2. InStep(m, tw, w, t, j)
    <3>1. ~ LiveAnswer(m, tm, 1, j)
      BY <1>5 DEF LiveAnswer
    <3> QED
      BY <2>1, <3>1, <1>0, MdStepSkipped DEF t
  <2>3. InStep(m, out, w, t, j)
    <3>1. CASE q = None
      BY <3>1, <2>2 DEF out
    <3>2. CASE q # None
      <4>1. InStep(m, Append(tw, q), w, t, j)
        <5>1. q \in Posts /\ q.key # j
          BY <3>2, <1>3
        <5> HIDE DEF q
        <5> QED
          BY <5>1, <2>2, <1>0, MdStepOther
      <4> QED
        BY <3>2, <4>1 DEF out
    <3> QED
      BY <3>1, <3>2
  <2> QED
    BY <2>3, <1>2, MdStepSame
<1>8. InStep(n, out, w, t, k)
  <2> DEFINE z == [active |-> [m.active EXCEPT ![k] = None], states |-> b.states]
  <2>1. z.active[k] = None /\ z.states = b.states
    BY <1>0
  <2> HIDE DEF z
  <2>2. InStep(m, tw, w, tm, k) /\ LiveAnswer(m, tm, 1, k)
    BY <1>1, <1>5 DEF Sound, LiveAnswer
  <2>3. IF tm[1].type = "highlight"
        THEN w.streams[k] # None =>
               z.states[k] # None /\ z.states[k].stable = StableTokens(m.active[k].code)
        ELSE z.states[k] = m.states[k]
    BY <2>1, <1>5
  <2>4. InStep(z, tw, w, t, k)
    BY <2>1, <2>2, <2>3, <1>0, MdStepAnswered DEF t
  <2>5. CASE q = None
    <3>1. n.active[k] = z.active[k] /\ n.states[k] = z.states[k]
      BY <2>1, <2>5, <1>2
    <3> QED
      BY <2>4, <2>5, <3>1, MdStepSame DEF out
  <2>6. CASE q # None
    <3>1. q \in HighlightRequests /\ q.key = k /\ n.active[k] = q /\ n.states[k] = z.states[k]
      BY <2>1, <2>6, <1>2, <1>3
    <3>2. WayTyped(tw, w, t)
      <4>1. t \in Seq(Answers)
        BY <1>0, HeadTailProperties DEF t
      <4> QED
        BY <4>1, <1>0 DEF WayTyped
    <3> HIDE DEF q
    <3>3. InStep(n, Append(tw, q), w, t, k)
      BY <2>1, <2>4, <2>6, <3>1, <3>2, <1>6, MdStepPosted
    <3> QED
      BY <2>6, <3>3 DEF out
  <2> QED
    BY <2>5, <2>6
<1>9. FewKeys(n)
  <2>1. n.keys \subseteq m.keys /\ IsFiniteSet(m.keys) /\ Cardinality(m.keys) <= Limit
    BY <1>2 DEF FewKeys, Tidy
  <2>2. IsFiniteSet(n.keys) /\ Cardinality(n.keys) <= Cardinality(m.keys)
    BY <2>1, FS_Subset
  <2>3. Cardinality(n.keys) \in Nat /\ Cardinality(m.keys) \in Nat
    BY <2>1, <2>2, FS_CardinalityType
  <2> QED
    BY <2>1, <2>2, <2>3, MdLimitAssumption DEF FewKeys
<1>10. ASSUME NEW j \in Keys PROVE Numbered(n, j) /\ ViewOK(n, j)
  <2>1. ViewOK(n, j)
    BY <1>2 DEF ViewOK
  <2>2. Numbered(m, j)
    BY DEF Tidy
  <2>3. CASE j # k
    BY <2>1, <2>2, <2>3, <1>2 DEF Numbered
  <2>4. CASE j = k
    <3>1. id \in 1..m.nextID
      BY <1>0 DEF MainOK
    <3>2. q # None => id < q.id /\ q.id \in Nat
      <4>1. q # None => m.active[k].id < q.id
        BY <1>0 DEF Slotted
      <4>2. q # None => q.id \in Nat
        BY <1>3 DEF HighlightRequests
      <4> QED
        BY <4>1, <4>2, <1>1
    <3>3. q # None => m.latest[k] = q.id /\ m.latest[k] <= m.nextID /\ b.latest[k] = m.latest[k]
      BY <2>2, <2>4, <1>1 DEF Numbered
    <3>4. b.latest[k] <= m.nextID
      BY <2>2, <2>4, <1>0 DEF Numbered
    <3>5. b.states[k] # None => b.states[k].id <= m.nextID
                                /\ (q # None => b.states[k].id < q.id)
      BY <3>1, <3>2, <1>0
    <3> QED
      BY <2>1, <2>4, <3>3, <3>4, <3>5, <1>2 DEF Numbered
  <2> QED
    BY <2>3, <2>4
<1> QED
  BY <1>1, <1>2, <1>4, <1>7, <1>8, <1>9, <1>10 DEF Sound, Tidy, t

\* A delta continues the tokens that are held, or replaces them, by those of c.
Extends(s, a, c) ==
  /\ s \in TokenStates \cup {None} /\ a \in Deltas /\ c \in Codes
  /\ s # None => s.id < a.id
  /\ a.unstable = UnstableTokens(c)
  /\ a.reset => a.stable = StableTokens(c)
  /\ ~ a.reset => s # None /\ s.stable \o a.stable = StableTokens(c)

\* A delta that fits gives the tokens of the version that was asked for.
LEMMA MdApplied ==
  ASSUME NEW s, NEW a, NEW c, Extends(s, a, c)
  PROVE  LET t == ApplyResponse(s, a, c)
             b == Rendered(c, t.gen, t.stable, t.unstable)
         IN /\ t \in TokenStates /\ t # None /\ t.id = a.id
            /\ t.stable = StableTokens(c) /\ b \in SpeltBlocks /\ b.code = c
<1> DEFINE t == ApplyResponse(s, a, c)
           b == Rendered(c, t.gen, t.stable, t.unstable)
           gen  == IF s = None THEN 0 ELSE s.gen
           have == IF s = None THEN << >> ELSE s.stable
           g    == gen + (IF a.reset THEN 1 ELSE 0)
           st   == IF a.reset THEN a.stable ELSE have \o a.stable
<1> USE DEF Extends
<1>1. /\ s # None => s.id \in Nat /\ s.gen \in Nat /\ s.stable \in Seq(Tokens)
      /\ a.id \in Nat /\ a.reset \in BOOLEAN
  BY DEF TokenStates, Deltas
<1>2. t = [id |-> a.id, gen |-> g, stable |-> st, unstable |-> a.unstable]
  <2>1. ~ (s # None /\ a.id <= s.id)
    BY <1>1
  <2> QED
    BY <2>1 DEF ApplyResponse
<1>3. st = StableTokens(c)
  BY <1>1
<1>4. g \in Nat
  BY <1>1
<1> HIDE DEF st, g, gen, have
<1>5. t.id = a.id /\ t.gen = g /\ t.stable = st /\ t.unstable = a.unstable
  BY <1>2
<1>6. t \in TokenStates
  BY <1>1, <1>2, <1>3, <1>4, MdTokensTyped DEF TokenStates
<1> HIDE DEF t
<1>7. b = [code |-> c, gen |-> g, stable |-> StableTokens(c), unstable |-> UnstableTokens(c)]
  BY <1>3, <1>5 DEF Rendered
<1> HIDE DEF b
<1>8. b \in Blocks /\ Spelt(b) /\ b.code = c
  BY <1>4, <1>7, MdTokensTyped DEF Blocks, Spelt
<1>9. t # None
  BY <1>6, MdNoneAssumption
<1> QED
  BY <1>3, <1>5, <1>6, <1>8, <1>9 DEF SpeltBlocks, t, b

\* The promise of a delta resolves with the tokens.
LEMMA MdDelta ==
  ASSUME NEW m, NEW n, NEW tw, NEW w, NEW tm, Sound(m, tw, w, tm), m.out = << >>, Tidy(m),
         tm # << >>, NEW k \in Keys, k = Head(tm).key, NEW id, id = Head(tm).id,
         Head(tm) \in Deltas, id \in DOMAIN m.pending, k \in m.keys,
         n = OnMessage(m, Head(tm))
  PROVE  Sound(n, tw \o n.out, w, Tail(tm)) /\ Tidy(n) /\ n.nextID = m.nextID
<1> DEFINE a == Head(tm)
           c == m.pending[id].code
           s == ApplyResponse(m.states[k], a, c)
           blk == Rendered(c, s.gen, s.stable, s.unstable)
           q == Restrict(m.pending, DOMAIN m.pending \ {id})
           free == ShouldRelease(c.complete, m.latest[k], id)
           R == Resolved(m.views[k], id, blk)
           vs == [m.views EXCEPT ![k] = R]
           ss == [m.states EXCEPT ![k] = IF free THEN None ELSE s]
           ls == IF free THEN [m.latest EXCEPT ![k] = 0] ELSE m.latest
           ks == IF free THEN m.keys \ {k} ELSE m.keys
           b == [m EXCEPT !.pending = q, !.views = vs, !.states = ss, !.latest = ls, !.keys = ks]
<1>0. /\ MainOK(m) /\ m \in Mains /\ WayTyped(tw, w, tm) /\ TransportOK(m, tw, w, tm)
      /\ m.nextID \in Nat /\ DOMAIN m.pending \subseteq 1..m.nextID
      /\ m.pending \in PromiseMaps /\ m.views \in [Keys -> Views]
      /\ m.states \in [Keys -> TokenStates \cup {None}] /\ m.latest \in [Keys -> Nat]
      /\ m.keys \in SUBSET Keys /\ \A j \in Keys : Slotted(m, j)
      /\ tm \in Seq(Answers)
  BY DEF Sound, MainOK, Mains, TransportOK, WayTyped
<1>1. /\ 1 \in DOMAIN tm /\ a = tm[1] /\ a.type = "highlight" /\ id \in Nat
      /\ IsHeld(a)
  <2>1. 1 \in DOMAIN tm /\ a = tm[1]
    BY <1>0, MdTailAt
  <2> HIDE DEF a
  <2>2. a.type = "highlight" /\ a.id = id /\ a.id \in Nat
    BY DEF Deltas, a
  <2> QED
    BY <2>1, <2>2 DEF IsHeld
<1>2. /\ m.active[k] # None /\ m.active[k].id = id /\ m.active[k].code = c
      /\ m.pending[id].key = k /\ c \in Codes
  <2>1. a \in Items(tm)
    BY <1>1 DEF Items, Held
  <2>2. AnswersActive(m, a)
    BY <2>1, <1>0 DEF TransportOK, Known
  <2>3. m.active[k] # None /\ m.active[k].id = id
    BY <2>2 DEF AnswersActive
  <2>4. m.pending[m.active[k].id].key = k /\ m.pending[m.active[k].id].code = m.active[k].code
    BY <2>3, <1>0, MdSlots
  <2>5. c \in Codes
    BY <1>0, MdPromises
  <2> QED
    BY <2>3, <2>4, <2>5
<1>3. Fits(m, w, a, k)
  <2>1. InStep(m, tw, w, tm, k)
    BY DEF Sound
  <2>2. LiveAnswer(m, tm, 1, k)
    BY <1>1, <1>2 DEF LiveAnswer
  <2> QED
    BY <2>1, <2>2, <1>1 DEF InStep
<1>4. Numbered(m, k)
  BY DEF Tidy
<1> HIDE DEF a, c
<1>5. /\ a.unstable = UnstableTokens(c)
      /\ a.reset => a.stable = StableTokens(c)
      /\ ~ a.reset => m.states[k] # None /\ m.states[k].stable \o a.stable = StableTokens(c)
      /\ w.streams[k] = IF c.complete THEN None ELSE c
  BY <1>2, <1>3 DEF Fits
<1>6. /\ s \in TokenStates /\ s # None /\ s.id = id /\ s.stable = StableTokens(c)
      /\ blk \in SpeltBlocks /\ blk.code = c
  <2>1. m.states[k] \in TokenStates \cup {None} /\ a \in Deltas /\ a.id = id
    BY <1>0 DEF a
  <2>2. m.states[k] # None => m.states[k].id < a.id
    BY <2>1, <1>2, <1>4 DEF Numbered
  <2> DEFINE u == m.states[k]
  <2>3. Extends(u, a, c)
    BY <2>1, <2>2, <1>2, <1>5 DEF Extends
  <2> HIDE DEF u
  <2> DEFINE y == ApplyResponse(u, a, c)
             z == Rendered(c, y.gen, y.stable, y.unstable)
  <2>5. /\ y \in TokenStates /\ y # None /\ y.id = a.id
        /\ y.stable = StableTokens(c) /\ z \in SpeltBlocks /\ z.code = c
    BY <2>3, MdApplied
  <2>6. s = y /\ blk = z
    BY DEF u
  <2> HIDE DEF y, z, s, blk
  <2> QED
    BY <2>1, <2>5, <2>6
<1> HIDE DEF s, blk
<1>7. /\ R \in Views /\ R.text = m.views[k].text
      /\ m.views[k].fetch = id => R.fetch = 0 /\ R.dom # None /\ R.dom.code = c
      /\ m.views[k].fetch # id => R.fetch = m.views[k].fetch /\ R.dom = m.views[k].dom
  <2>1. m.views[k] \in Views /\ id \in Int
    BY <1>0, <1>1
  <2> QED
    BY <2>1, <1>6, MdResolved
<1> HIDE DEF R
<1>8. /\ DOMAIN q = DOMAIN m.pending \ {id} /\ \A i \in DOMAIN q : q[i] = m.pending[i]
      /\ q \in PromiseMaps
  <2>1. DOMAIN q = DOMAIN m.pending \ {id} /\ \A i \in DOMAIN q : q[i] = m.pending[i]
    BY DEF Restrict
  <2>2. q \in [DOMAIN m.pending \ {id} -> Promises]
    BY <1>0, MdPromises DEF Restrict
  <2>3. DOMAIN m.pending \ {id} \in SUBSET Nat
    BY <1>0, MdPromises
  <2> HIDE DEF q
  <2> QED
    BY <2>1, <2>2, <2>3 DEF PromiseMaps
<1>9. free <=> c.complete /\ m.latest[k] = id
  BY DEF ShouldRelease
<1>10. n = Complete(b, k, id)
  <2> DEFINE m1 == [m EXCEPT !.pending = q]
             m2 == IF free THEN [m1 EXCEPT !.states = [m1.states EXCEPT ![k] = None],
                                 !.latest = [m1.latest EXCEPT ![k] = 0],
                                 !.keys = m1.keys \ {k}]
                   ELSE [m1 EXCEPT !.states = [m1.states EXCEPT ![k] = s]]
  <2>1. m1 = Settle(m, {id})
    BY DEF Settle
  <2>2. n = Complete(Resolve(m2, k, id, blk), k, id)
    <3>1. ~ (k \notin m.keys \/ a.type \in {"superseded", "error"})
      BY <1>1
    <3>2. a.key = k /\ a.id = id
      BY DEF a
    <3> HIDE DEF m1
    <3>3. n = OnMessage(m, a)
      BY DEF a
    <3> HIDE DEF free, q
    <3> QED
      BY <2>1, <3>1, <3>2, <3>3 DEF OnMessage, free, c, s, blk
  <2>3. Resolve(m2, k, id, blk) = [m2 EXCEPT !.views = [m2.views EXCEPT ![k] = Resolved(m2.views[k], id, blk)]]
    BY DEF Resolve
  <2> HIDE DEF q, free
  <2>4. m2.views = m.views
    BY <1>0 DEF Mains
  <2>5. Resolve(m2, k, id, blk) = [m2 EXCEPT !.views = vs]
    <3> HIDE DEF m2
    <3> QED
      BY <2>3, <2>4 DEF R
  <2> HIDE DEF vs
  <2>6. [m2 EXCEPT !.views = vs] = b
    <3>1. CASE free
      BY <3>1, <1>0 DEF Mains
    <3>2. CASE ~ free
      BY <3>2, <1>0 DEF Mains
    <3> QED
      BY <3>1, <3>2
  <2> HIDE DEF b, m2
  <2> QED
    BY <2>2, <2>5, <2>6
<1>11. /\ vs \in [Keys -> Views] /\ ss \in [Keys -> TokenStates \cup {None}]
       /\ ls \in [Keys -> Nat] /\ ks \in SUBSET Keys
  <2> HIDE DEF free
  <2> QED
    BY <1>0, <1>6, <1>7
<1>12. /\ vs[k] = R /\ \A j \in Keys \ {k} : vs[j] = m.views[j]
       /\ ss[k] = (IF free THEN None ELSE s) /\ \A j \in Keys \ {k} : ss[j] = m.states[j]
       /\ ls[k] = (IF free THEN 0 ELSE m.latest[k])
       /\ \A j \in Keys \ {k} : ls[j] = m.latest[j]
  <2> HIDE DEF free
  <2> QED
    BY <1>0
<1>13. ks = IF free THEN m.keys \ {k} ELSE m.keys
  OBVIOUS
<1> HIDE DEF q, vs, ss, ls, ks, free
<1>14. /\ b \in Mains /\ b.pending = q /\ b.views = vs /\ b.states = ss /\ b.latest = ls
       /\ b.keys = ks /\ b.active = m.active /\ b.queued = m.queued /\ b.nextID = m.nextID
       /\ b.disabled = m.disabled /\ b.out = m.out
  BY <1>0, <1>8, <1>11 DEF Mains
<1> HIDE DEF b
<1>15. MainOK(b) /\ Loses(m, b, {id})
  BY <1>0, <1>8, <1>14 DEF MainOK, Loses
<1>16. ASSUME NEW j \in Keys PROVE ViewOK(b, j)
  <2> DEFINE v == m.views[j]
             r == b.views[j]
  <2>1. ViewOK(m, j)
    BY DEF Tidy
  <2>2. /\ v.fetch # 0 => /\ v.text # None /\ v.fetch \in DOMAIN m.pending
                          /\ m.pending[v.fetch] = [key |-> j, code |-> v.text]
        /\ v.dom # None => /\ v.text # None /\ StartsWith(v.text, v.dom.code)
                           /\ v.fetch = 0 => v.dom.code = v.text
    BY <2>1 DEF ViewOK
  <2>3. CASE j = k /\ v.fetch = id
    <3>1. v.text # None /\ v.text = c
      <4>1. v.fetch # 0
        BY <2>3, <1>0
      <4> QED
        BY <4>1, <2>2, <2>3 DEF c
    <3>2. r.fetch = 0 /\ r.dom.code = c /\ r.text = c
      BY <2>3, <3>1, <1>7, <1>12, <1>14
    <3> QED
      BY <3>1, <3>2, <1>2, MdStartsWithItself DEF ViewOK
  <2>4. CASE j # k \/ v.fetch # id
    <3>1. r.fetch = v.fetch /\ r.dom = v.dom /\ r.text = v.text
      BY <2>4, <1>7, <1>12, <1>14
    <3>2. v.fetch # 0 => v.fetch # id
      <4>1. v.fetch # 0 => m.pending[v.fetch].key = j
        BY <2>2
      <4> QED
        BY <4>1, <2>4, <1>2
    <3>3. v.fetch # 0 => v.fetch \in DOMAIN b.pending /\ b.pending[v.fetch] = m.pending[v.fetch]
      BY <2>2, <3>2, <1>8, <1>14
    <3> HIDE DEF r, v
    <3>4. /\ r.fetch # 0 => /\ r.text # None /\ r.fetch \in DOMAIN b.pending
                            /\ b.pending[r.fetch] = [key |-> j, code |-> r.text]
          /\ r.dom # None => /\ r.text # None /\ StartsWith(r.text, r.dom.code)
                             /\ r.fetch = 0 => r.dom.code = r.text
      BY <2>2, <3>1, <3>3
    <3> QED
      BY <3>4 DEF ViewOK, r
  <2> QED
    BY <2>3, <2>4
<1>17. Completed(b, n, k, id)
  <2>1. b.queued[k] # None => b.queued[k].key = k
    BY <1>0, <1>14, MdSlots
  <2> QED
    BY <2>1, <1>10, <1>15, MdComplete
<1>18. free => m.queued[k] = None
  <2>1. m.latest[k] = IF m.queued[k] = None THEN id ELSE m.queued[k].id
    BY <1>2, <1>4 DEF Numbered
  <2>2. m.queued[k] # None => id < m.queued[k].id /\ m.queued[k].id \in Nat
    <3>1. m.queued[k] # None => m.queued[k].id \in DOMAIN m.pending /\ id < m.queued[k].id
      BY <1>0, <1>2, MdSlots
    <3> QED
      BY <3>1, <1>0
  <2> QED
    BY <2>1, <2>2, <1>1, <1>9
<1>19. Settling(m, b, n, w, tm, k, id)
  <2>1. b.states[k] # None => b.states[k].id \in Nat /\ b.states[k].id <= id
    BY <1>1, <1>6, <1>12, <1>14
  <2>2. \/ b.keys = m.keys /\ b.latest[k] = m.latest[k]
        \/ b.keys = m.keys \ {k} /\ b.latest[k] = 0 /\ m.queued[k] = None
    BY <1>12, <1>13, <1>14, <1>18
  <2>3. w.streams[k] # None => b.states[k] # None /\ b.states[k].stable = StableTokens(m.active[k].code)
    BY <1>2, <1>5, <1>6, <1>9, <1>12, <1>14
  <2>4. \A j \in Keys \ {k} : b.states[j] = m.states[j] /\ b.latest[j] = m.latest[j]
    BY <1>12, <1>14
  <2> QED
    BY <2>1, <2>2, <2>3, <2>4, <1>1, <1>14, <1>15, <1>16, <1>17 DEF Settling, a
<1> QED
  BY <1>19, MdAnswered

\* The page takes the first message from its port.
LEMMA MdMessage ==
  ASSUME NEW m, NEW tw, NEW w, NEW tm, Sound(m, tw, w, tm), m.out = << >>, Tidy(m),
         tm # << >>
  PROVE  LET n == OnMessage(m, Head(tm))
         IN Sound(n, tw \o n.out, w, Tail(tm)) /\ Tidy(n) /\ n.nextID = m.nextID
<1> DEFINE a  == Head(tm)
           k  == a.key
           id == a.id
           n  == OnMessage(m, a)
<1>0. /\ MainOK(m) /\ WayTyped(tw, w, tm) /\ TransportOK(m, tw, w, tm)
      /\ m.nextID \in Nat /\ DOMAIN m.pending \subseteq 1..m.nextID
      /\ \A j \in Keys : Slotted(m, j)
      /\ tm \in Seq(Answers) /\ tw \in Seq(Posts)
  BY DEF Sound, MainOK, Mains, TransportOK, WayTyped
<1>1. 1 \in DOMAIN tm /\ a = tm[1] /\ a \in Answers
  BY <1>0, MdTailAt
<1> HIDE DEF a
<1>2. k \in Keys /\ id \in Nat /\ IsHeld(a)
  BY <1>1 DEF Answers, Deltas, Refusals, IsHeld
<1> HIDE DEF k, id
<1>3. id \in DOMAIN m.pending =>
        m.active[k] # None /\ m.active[k].id = id /\ k \in m.keys
  <2>1. a \in Items(tm)
    BY <1>1, <1>2 DEF Items, Held
  <2>2. id \in DOMAIN m.pending => AnswersActive(m, a)
    BY <2>1, <1>0 DEF TransportOK, Known, id
  <2> QED
    BY <2>2, <1>0, <1>2 DEF AnswersActive, Slotted, k, id
<1>4. CASE id \notin DOMAIN m.pending
  <2>1. ~ (m.active[k] # None /\ m.active[k].id = id)
    BY <1>0, <1>2, <1>4, MdSlots
  <2>2. n = m
    BY <2>1, <1>4 DEF OnMessage, Complete, k, id
  <2>3. Taken(m, m, m, tm, k, id)
    <3>1. Completed(m, m, k, id)
      BY <2>1, <1>0 DEF Completed
    <3>2. Loses(m, m, {id} \cap DOMAIN m.pending)
      BY <1>4 DEF Loses
    <3> QED
      BY <3>1, <3>2, <1>0 DEF Taken, k, id, a
  <2>4. TransportOK(m, tw, w, Tail(tm)) /\ WayTyped(tw, w, Tail(tm))
    <3>1. LET out == IF id \in DOMAIN m.pending /\ m.queued[k] # None
                     THEN Append(tw, m.queued[k]) ELSE tw
          IN /\ TransportOK(m, out, w, Tail(tm)) /\ WayTyped(out, w, Tail(tm))
             /\ id \in DOMAIN m.pending <=> (m.active[k] # None /\ m.active[k].id = id)
      BY <2>3, <1>0, <1>2, MdTransportAnswered
    <3> QED
      BY <3>1, <1>4
  <2>5. ASSUME NEW j \in Keys PROVE InStep(m, tw, w, Tail(tm), j)
    <3>1. ~ LiveAnswer(m, tm, 1, j)
      BY <2>1, <1>1 DEF LiveAnswer, k, id
    <3>2. InStep(m, tw, w, tm, j)
      BY DEF Sound
    <3> QED
      BY <3>1, <3>2, <1>0, MdStepSkipped
  <2>6. tw \o m.out = tw
    BY <1>0
  <2> HIDE DEF n
  <2> QED
    BY <2>2, <2>4, <2>5, <2>6, <1>0 DEF Sound, n, a
<1>5. CASE id \in DOMAIN m.pending /\ a \in Deltas
  <2>1. n = OnMessage(m, Head(tm)) /\ k = Head(tm).key /\ id = Head(tm).id /\ Head(tm) \in Deltas
    BY <1>5 DEF a, k, id
  <2> HIDE DEF n
  <2>2. Sound(n, tw \o n.out, w, Tail(tm)) /\ Tidy(n) /\ n.nextID = m.nextID
    BY <2>1, <1>2, <1>3, <1>5, MdDelta
  <2> QED
    BY <2>2 DEF n, a
<1>6. CASE id \in DOMAIN m.pending /\ a \in Refusals
  <2> DEFINE b == RejectAll(m, {id})
  <2>1. a.type \in {"superseded", "error"} /\ a.type # "highlight"
    BY <1>6 DEF Refusals
  <2>2. n = Complete(b, k, id)
    BY <2>1, <1>6 DEF OnMessage, k, id
  <2>3. MainOK(b) /\ Loses(m, b, {id}) /\ ViewsKeep(m, b) /\ SameRest(m, b)
    BY <1>0, <1>6, MdRejectAll
  <2> HIDE DEF b, n
  <2>4. Completed(b, n, k, id)
    <3>1. b.queued[k] # None => b.queued[k].key = k
      BY <2>3, <1>0, <1>2, MdSlots DEF SameRest
    <3> QED
      BY <2>2, <2>3, <3>1, <1>2, MdComplete
  <2>5. \A j \in Keys : ViewOK(b, j)
    BY <2>3 DEF Tidy, ViewsKeep
  <2>6. m.states[k] # None => m.states[k].id \in Nat /\ m.states[k].id <= id
    <3>1. Numbered(m, k)
      BY <1>2 DEF Tidy
    <3>2. m.states[k] \in TokenStates \cup {None}
      BY <1>0, <1>2 DEF MainOK, Mains
    <3>3. m.states[k] # None => m.states[k].id \in Nat
      BY <3>2 DEF TokenStates
    <3> QED
      BY <3>1, <3>3, <1>2, <1>3, <1>6 DEF Numbered
  <2>7. Settling(m, b, n, w, tm, k, id)
    <3>1. k = Head(tm).key /\ id = Head(tm).id /\ Head(tm).type # "highlight"
      BY <2>1 DEF a, k, id
    <3> QED
      BY <3>1, <2>3, <2>4, <2>5, <2>6, <1>6 DEF Settling, SameRest
  <2>8. Sound(n, tw \o n.out, w, Tail(tm)) /\ Tidy(n) /\ n.nextID = m.nextID
    BY <2>7, <1>2, MdAnswered
  <2> QED
    BY <2>8 DEF n, a
<1>7. a \in Deltas \/ a \in Refusals
  BY <1>1 DEF Answers
<1> QED
  BY <1>4, <1>5, <1>6, <1>7 DEF n, a

\* With no promise and nothing on its way, all is well.
LEMMA MdIdle ==
  ASSUME NEW n, MainOK(n), DOMAIN n.pending = {}, n.keys = {},
         \A k \in Keys : /\ n.active[k] = None /\ n.queued[k] = None
                        /\ n.states[k] = None /\ n.latest[k] = 0
  PROVE  /\ Sound(n, << >>, IdleWorker, << >>) /\ FewKeys(n)
         /\ \A k \in Keys : Numbered(n, k)
<1>10. WayTyped(<< >>, IdleWorker, << >>)
  BY DEF WayTyped, IdleWorker, WorkerStates
<1>11. /\ IdleWorker.jobs = << >> /\ IdleWorker.running = None
       /\ \A k \in Keys : IdleWorker.streams[k] = None
  BY DEF IdleWorker
<1>12. DOMAIN << >> = {}
  OBVIOUS
<1>13. Items(<< >>) = {} /\ Ids(<< >>) = {} /\ Distinct(<< >>)
  BY <1>12 DEF Items, Ids, Distinct, Held
<1>14. TransportOK(n, << >>, IdleWorker, << >>)
  <2>1. \A k \in Keys : Slotted(n, k)
    BY DEF Slotted
  <2>2. Matched(n)
    BY DEF Matched
  <2>3. OneEach(n, << >>, IdleWorker, << >>)
    BY <1>11, <1>13 DEF OneEach, RunningIds
  <2>4. Known(n, << >>, IdleWorker, << >>)
    BY <1>11, <1>13 DEF Known
  <2>5. Present(n, << >>, IdleWorker, << >>) /\ Alone(n, << >>, IdleWorker, << >>)
    BY DEF Present, Alone
  <2> QED
    BY <2>1, <2>2, <2>3, <2>4, <2>5 DEF TransportOK
<1>15. ASSUME NEW k \in Keys PROVE InStep(n, << >>, IdleWorker, << >>, k)
  BY <1>11, <1>12 DEF InStep, Ordered, LiveAnswer, Continues
<1>16. FewKeys(n)
  BY MdLimitAssumption, FS_EmptySet DEF FewKeys
<1>17. ASSUME NEW k \in Keys PROVE Numbered(n, k)
  <2>1. n.nextID \in Nat
    BY DEF MainOK, Mains
  <2> QED
    BY <2>1 DEF Numbered
<1> QED
  BY <1>10, <1>14, <1>15, <1>16, <1>17 DEF Sound

\* The worker dies, and everything that was on its way with it.
LEMMA MdFail ==
  ASSUME NEW m, NEW tw, NEW w, NEW tm, Sound(m, tw, w, tm), m.out = << >>, Tidy(m)
  PROVE  LET n == [FailAll(m) EXCEPT !.out = << >>]
         IN /\ Sound(n, << >>, IdleWorker, << >>) /\ Tidy(n) /\ n.nextID = m.nextID
            /\ n.out = << >>
<1> DEFINE d  == [m EXCEPT !.disabled = TRUE]
           m1 == Supersede(d, {m.queued[k] : k \in Keys})
           r  == RejectAll(m1, DOMAIN m1.pending)
           no == [k \in Keys |-> None]
           n  == [FailAll(m) EXCEPT !.out = << >>]
<1>0. MainOK(m) /\ m \in Mains
  BY DEF Sound, MainOK
<1>1. MainOK(d) /\ d.views = m.views /\ d.pending = m.pending /\ d.nextID = m.nextID /\ d.disabled
  BY <1>0 DEF MainOK, Mains
<1>2. n = [r EXCEPT !.active = no, !.queued = no, !.states = no, !.keys = {},
                    !.latest = [k \in Keys |-> 0], !.out = << >>]
  BY DEF FailAll
<1> HIDE DEF d, n
<1>3. /\ MainOK(m1) /\ ViewsKeep(d, m1) /\ SameRest(d, m1)
  BY <1>1, MdSupersede
<1> HIDE DEF m1
<1>4. /\ MainOK(r) /\ ViewsKeep(m1, r) /\ SameRest(m1, r) /\ DOMAIN r.pending = {}
  <2>1. DOMAIN m1.pending \in SUBSET DOMAIN m1.pending
    OBVIOUS
  <2>2. MainOK(r) /\ Loses(m1, r, DOMAIN m1.pending) /\ ViewsKeep(m1, r) /\ SameRest(m1, r)
    BY <2>1, <1>3, MdRejectAll
  <2> HIDE DEF r
  <2> QED
    BY <2>2 DEF Loses
<1> HIDE DEF r
<1>5. r.nextID = m.nextID /\ r.disabled /\ m.nextID \in Nat
  BY <1>0, <1>1, <1>3, <1>4 DEF SameRest, Mains
<1>6. r \in Mains
  BY <1>4 DEF MainOK
<1>7. /\ n \in Mains /\ n.pending = r.pending /\ n.views = r.views /\ n.nextID = m.nextID
      /\ n.disabled /\ n.active = no /\ n.queued = no /\ n.states = no /\ n.keys = {}
      /\ n.latest = [k \in Keys |-> 0] /\ n.out = << >>
  <2> DEFINE nil == [k \in Keys |-> 0]
  <2>1. /\ \A X : no \in [Keys -> X \cup {None}]
        /\ nil \in [Keys -> Nat] /\ {} \in SUBSET Keys /\ << >> \in Seq(Posts)
    OBVIOUS
  <2> HIDE DEF no, nil
  <2>2. n = [r EXCEPT !.active = no, !.queued = no, !.states = no, !.keys = {},
                      !.latest = nil, !.out = << >>]
    BY <1>2 DEF nil
  <2>3. n \in Mains
    BY <2>1, <2>2, <1>6 DEF Mains
  <2>4. /\ n.pending = r.pending /\ n.views = r.views /\ n.nextID = r.nextID
        /\ n.disabled = r.disabled /\ n.active = no /\ n.queued = no /\ n.states = no
        /\ n.keys = {} /\ n.latest = nil /\ n.out = << >>
    BY <2>2, <1>6 DEF Mains
  <2> QED
    BY <2>3, <2>4, <1>5 DEF nil
<1> HIDE DEF n
<1>8. MainOK(n)
  BY <1>4, <1>7 DEF MainOK
<1>9. /\ Sound(n, << >>, IdleWorker, << >>) /\ FewKeys(n)
      /\ \A k \in Keys : Numbered(n, k)
  BY <1>4, <1>7, <1>8, MdIdle
<1>10. ASSUME NEW k \in Keys PROVE ViewOK(n, k)
  <2>2. ViewOK(d, k)
    BY <1>1 DEF Tidy, ViewOK
  <2>3. ViewOK(r, k)
    BY <2>2, <1>3, <1>4 DEF ViewsKeep
  <2> QED
    BY <2>3, <1>7 DEF ViewOK
<1> QED
  BY <1>7, <1>9, <1>10 DEF Tidy, n

-----------------------------------------------------------------------------
(* Steps of the worker. *)

\* A worker with something to do is up.
LEMMA MdUp ==
  ASSUME NEW m, NEW tw, NEW w, NEW tm, Sound(m, tw, w, tm),
         tw # << >> \/ w.jobs # << >> \/ w.running # None
  PROVE  WorkerUp(m)
<1>1. Alone(m, tw, w, tm)
  BY DEF Sound, TransportOK
<1> QED
  BY <1>1 DEF Alone, IdleWorker

\* The worker takes a message into its queue.
LEMMA MdTaken ==
  ASSUME NEW m, NEW tw, NEW w, NEW tm, Sound(m, tw, w, tm), w.out = << >>, tw # << >>
  PROVE  LET v == Enqueue(w, Head(tw))
         IN Sound(m, Tail(tw), [v EXCEPT !.out = << >>], tm \o v.out)
<1> DEFINE v == Enqueue(w, Head(tw))
           u == [v EXCEPT !.out = << >>]
<1>0. /\ MainOK(m) /\ WayTyped(tw, w, tm) /\ TransportOK(m, tw, w, tm) /\ WorkerUp(m)
      /\ \A j \in Keys : InStep(m, tw, w, tm, j)
  BY MdUp DEF Sound
<1>1. TransportOK(m, Tail(tw), u, tm \o v.out) /\ WayTyped(Tail(tw), u, tm \o v.out)
  BY <1>0, MdTransportEnqueued
<1>2. \A k \in Keys : InStep(m, Tail(tw), u, tm \o v.out, k)
  BY <1>0, MdStepEnqueued
<1> HIDE DEF v, u
<1> QED
  BY <1>0, <1>1, <1>2 DEF Sound, u, v

\* The worker starts its next job.
LEMMA MdStarted ==
  ASSUME NEW m, NEW tw, NEW w, NEW tm, Sound(m, tw, w, tm), w.out = << >>,
         w.jobs # << >>, w.running = None
  PROVE  LET v == StartJob(w)
         IN Sound(m, tw, [v EXCEPT !.out = << >>], tm \o v.out)
<1> DEFINE v == StartJob(w)
<1>0. /\ MainOK(m) /\ WayTyped(tw, w, tm) /\ TransportOK(m, tw, w, tm) /\ WorkerUp(m)
      /\ \A j \in Keys : InStep(m, tw, w, tm, j) /\ tm \in Seq(Answers)
  BY MdUp DEF Sound, WayTyped
<1>1. /\ TransportOK(m, tw, v, tm) /\ WayTyped(tw, v, tm)
      /\ v.out = << >> /\ v.jobs = Tail(w.jobs)
      /\ v.running = (IF Head(w.jobs).type = "highlight" THEN Head(w.jobs) ELSE None)
      /\ v.streams = IF Head(w.jobs).type = "dispose"
                     THEN [w.streams EXCEPT ![Head(w.jobs).key] = None] ELSE w.streams
  BY <1>0, MdTransportStarted
<1> HIDE DEF v
<1>2. \A k \in Keys : InStep(m, tw, v, tm, k)
  BY <1>0, <1>1, MdStepStarted
<1>3. [v EXCEPT !.out = << >>] = v
  BY <1>1 DEF WayTyped, WorkerStates
<1>4. tm \o v.out = tm
  BY <1>0, <1>1
<1> QED
  BY <1>0, <1>1, <1>2, <1>3, <1>4 DEF Sound, v

\* The worker has an answer to the request it runs.
Replies(m, w, v, a) ==
  /\ w.running # None /\ v \in WorkerStates /\ v.jobs = w.jobs /\ v.running = None
  /\ a \in Answers /\ a.id = w.running.id /\ a.key = w.running.key
  /\ \A j \in Keys \ {a.key} : v.streams[j] = w.streams[j]
  /\ IF a.type = "highlight"
     THEN m.active[a.key] = w.running /\ Continues(m, w, a.key) => Fits(m, v, a, a.key)
     ELSE v.streams[a.key] = w.streams[a.key]

\* An answer that is posted keeps the transport and the deltas sound.
LEMMA MdReplied ==
  ASSUME NEW m, NEW tw, NEW w, NEW tm, Sound(m, tw, w, tm), NEW v, NEW a,
         Replies(m, w, v, a)
  PROVE  Sound(m, tw, v, tm \o << a >>)
<1> USE DEF Replies
<1>0. /\ MainOK(m) /\ WayTyped(tw, w, tm) /\ TransportOK(m, tw, w, tm) /\ WorkerUp(m)
      /\ \A j \in Keys : InStep(m, tw, w, tm, j)
      /\ tm \in Seq(Answers)
  BY MdUp DEF Sound, WayTyped
<1>1. TransportOK(m, tw, v, tm \o << a >>) /\ WayTyped(tw, v, tm \o << a >>)
  BY <1>0, MdTransportReplied
<1>2. tm \o << a >> = Append(tm, a)
  BY <1>0, MdPosted
<1>3. ASSUME NEW k \in Keys PROVE InStep(m, tw, v, tm \o << a >>, k)
  <2>1. CASE k = a.key
    <3>1. InStep(m, tw, v, Append(tm, a), k)
      BY <2>1, <1>0, MdStepReplied
    <3> QED
      BY <3>1, <1>2
  <2>2. CASE k # a.key
    <3>1. v.streams[k] = w.streams[k] /\ InStep(m, tw, w, tm, k)
      BY <2>2, <1>0
    <3>2. InStep(m, tw, v, Append(tm, a), k)
      BY <2>2, <3>1, <1>0, MdStepElsewhere
    <3> QED
      BY <3>2, <1>2
  <2> QED
    BY <2>1, <2>2
<1> QED
  BY <1>0, <1>1, <1>3 DEF Sound

\* The tokens of the version it runs.
LEMMA MdRan ==
  ASSUME NEW m, NEW tw, NEW w, NEW tm, Sound(m, tw, w, tm), w.out = << >>, w.running # None
  PROVE  LET v == RunHighlight(w, w.running)
         IN Sound(m, tw, [v EXCEPT !.out = << >>], tm \o v.out)
<1> DEFINE v == RunHighlight(w, w.running)
           u == [v EXCEPT !.out = << >>]
           k == w.running.key
           c == w.running.code
<1>0. /\ w \in WorkerStates /\ w.running \in HighlightRequests
      /\ w.streams \in [Keys -> {x \in Codes : ~ x.complete} \cup {None}]
  BY DEF Sound, WayTyped, WorkerStates
<1>1. k \in Keys /\ c \in Codes
  BY <1>0 DEF HighlightRequests
<1>2. PICK a \in Answers :
        /\ v.out = << a >> /\ u \in WorkerStates /\ u.jobs = w.jobs /\ u.running = None
        /\ a.type = "highlight" /\ a.id = w.running.id /\ a.key = k
        /\ a.unstable = UnstableTokens(c)
        /\ a.reset => a.stable = StableTokens(c)
        /\ ~ a.reset => /\ w.streams[k] # None
                        /\ StableTokens(w.streams[k]) \o a.stable = StableTokens(c)
        /\ u.streams = [w.streams EXCEPT ![k] = IF c.complete THEN None ELSE c]
  BY <1>0, MdReply
<1> HIDE DEF v, u, k, c
<1>3. /\ \A j \in Keys \ {a.key} : u.streams[j] = w.streams[j]
      /\ u.streams[k] = IF c.complete THEN None ELSE c
  BY <1>0, <1>1, <1>2
<1>4. ASSUME m.active[k] = w.running, Continues(m, w, k) PROVE Fits(m, u, a, k)
  <2>1. m.active[k].code = c
    BY <1>4 DEF c
  <2>2. ~ a.reset => m.states[k] # None /\ m.states[k].stable \o a.stable = StableTokens(c)
    BY <1>2, <1>4 DEF Continues
  <2> QED
    BY <2>1, <2>2, <1>2, <1>3 DEF Fits
<1>5. Sound(m, tw, u, tm \o << a >>)
  <2>1. a.key = w.running.key
    BY <1>2 DEF k
  <2>2. m.active[a.key] = w.running /\ Continues(m, w, a.key) => Fits(m, u, a, a.key)
    BY <1>2, <1>4
  <2>3. Replies(m, w, u, a)
    BY <2>1, <2>2, <1>2, <1>3 DEF Replies
  <2> QED
    BY <2>3, MdReplied
<1> QED
  BY <1>2, <1>5 DEF u, v

\* It cannot highlight the version, and says so.
LEMMA MdRefused ==
  ASSUME NEW m, NEW tw, NEW w, NEW tm, Sound(m, tw, w, tm), w.out = << >>, w.running # None
  PROVE  LET v == RunFails(w, w.running)
         IN Sound(m, tw, [v EXCEPT !.out = << >>], tm \o v.out)
<1> DEFINE v == RunFails(w, w.running)
           u == [v EXCEPT !.out = << >>]
           a == [type |-> "error", id |-> w.running.id, key |-> w.running.key]
<1>0. w \in WorkerStates /\ w.running \in HighlightRequests
  BY DEF Sound, WayTyped, WorkerStates
<1>1. a \in Answers /\ a.id = w.running.id /\ a.key = w.running.key /\ a.type # "highlight"
  BY <1>0 DEF HighlightRequests, Answers, Refusals
<1>2. v.out = << a >> /\ u = [w EXCEPT !.running = None]
  <2>1. Append(<< >>, a) = << a >>
    OBVIOUS
  <2>2. v = [w EXCEPT !.running = None, !.out = Append(w.out, a)]
    BY DEF RunFails
  <2> HIDE DEF v, a
  <2>3. u = [w EXCEPT !.running = None, !.out = << >>]
    BY <2>2, <1>0 DEF WorkerStates
  <2> HIDE DEF u
  <2> QED
    BY <2>1, <2>2, <2>3, <1>0 DEF WorkerStates
<1> HIDE DEF v, u, a
<1>3. u \in WorkerStates /\ u.jobs = w.jobs /\ u.running = None /\ u.streams = w.streams
  BY <1>0, <1>2 DEF WorkerStates
<1>4. Replies(m, w, u, a)
  BY <1>1, <1>3 DEF Replies
<1>5. Sound(m, tw, u, tm \o << a >>)
  BY <1>4, MdReplied
<1> QED
  BY <1>2, <1>5 DEF u, v

-----------------------------------------------------------------------------
(* The invariant of the specification. *)

MdIInv ==
  /\ Sound(main, toWorker, worker, toMain) /\ Tidy(main)
  /\ main.nextID <= MaxRequests /\ main.out = << >> /\ worker.out = << >>

\* What was posted leaves the page.
LEMMA MdFlushed ==
  ASSUME NEW m, NEW tw, NEW w, NEW tm, Sound(m, tw, w, tm), Tidy(m)
  PROVE  LET n == [m EXCEPT !.out = << >>]
         IN Sound(n, tw, w, tm) /\ Tidy(n) /\ n.nextID = m.nextID /\ n.out = << >>
<1> DEFINE n == [m EXCEPT !.out = << >>]
<1>1. MainOK(m) /\ m \in Mains /\ m.nextID \in Nat
  BY DEF Sound, MainOK, Mains
<1>2. /\ n \in Mains /\ n.pending = m.pending /\ n.active = m.active /\ n.queued = m.queued
      /\ n.states = m.states /\ n.keys = m.keys /\ n.nextID = m.nextID /\ n.out = << >>
      /\ n.disabled = m.disabled /\ n.latest = m.latest /\ n.views = m.views
  <2>1. << >> \in Seq(Posts)
    OBVIOUS
  <2> QED
    BY <2>1, <1>1 DEF Mains
<1> HIDE DEF n
<1>3. MainOK(n)
  BY <1>1, <1>2 DEF MainOK
<1>4. Sound(n, tw, w, tm)
  <2>1. m.keys \subseteq n.keys /\ m.nextID <= n.nextID /\ (WorkerUp(m) => WorkerUp(n))
    BY <1>1, <1>2 DEF WorkerUp
  <2> QED
    BY <2>1, <1>2, <1>3, MdSoundSame
<1>5. Tidy(n)
  BY <1>2 DEF Tidy, FewKeys, Numbered, ViewOK
<1> QED
  BY <1>2, <1>4, <1>5 DEF n

\* The invariant holds when the page opens.
LEMMA MdInitial == MdInit => MdIInv
<1> SUFFICES ASSUME MdInit PROVE MdIInv
  OBVIOUS
<1> DEFINE nil == [k \in Keys |-> 0]
           no  == [k \in Keys |-> None]
           vs  == [k \in Keys |-> NewView]
<1>1. NewView \in Views
  BY DEF NewView, Views
<1>2. << >> \in PromiseMaps /\ DOMAIN << >> = {}
  <2>1. << >> \in [{} -> Promises] /\ {} \in SUBSET Nat /\ DOMAIN << >> = {}
    OBVIOUS
  <2> QED
    BY <2>1 DEF PromiseMaps
<1>3. /\ nil \in [Keys -> Nat] /\ vs \in [Keys -> Views]
      /\ \A X : no \in [Keys -> X \cup {None}]
      /\ << >> \in Seq(Posts) /\ {} \in SUBSET Keys /\ 0 \in Nat
  BY <1>1
<1>4. /\ \A k \in Keys : nil[k] = 0 /\ no[k] = None /\ vs[k] = NewView
  OBVIOUS
<1>5. main = [disabled |-> FALSE, nextID |-> 0, pending |-> << >>, keys |-> {},
              latest |-> nil, active |-> no, queued |-> no, states |-> no,
              views |-> vs, out |-> << >>]
  BY DEF MdInit
<1> HIDE DEF nil, no, vs
<1>6. main \in Mains
  BY <1>2, <1>3, <1>5 DEF Mains
<1>7. /\ main.pending = << >> /\ main.keys = {} /\ main.latest = nil /\ main.active = no
      /\ main.queued = no /\ main.states = no /\ main.views = vs /\ main.out = << >>
      /\ main.nextID = 0
  BY <1>5
<1>8. MainOK(main)
  BY <1>2, <1>6, <1>7 DEF MainOK
<1>9. /\ Sound(main, << >>, IdleWorker, << >>) /\ FewKeys(main)
      /\ \A k \in Keys : Numbered(main, k)
  BY <1>2, <1>4, <1>7, <1>8, MdIdle
<1>10. \A k \in Keys : ViewOK(main, k)
  BY <1>4, <1>7 DEF ViewOK, NewView
<1>11. worker = IdleWorker /\ toWorker = << >> /\ toMain = << >> /\ worker.out = << >>
  BY DEF MdInit, IdleWorker
<1> QED
  BY <1>7, <1>9, <1>10, <1>11, MdBoundsAssumption DEF MdIInv, Tidy

\* A step of the page, its messages posted.
LEMMA MdPageStep ==
  ASSUME NEW n, NEW w, NEW tm, Sound(n, toWorker \o n.out, w, tm), Tidy(n),
         n.nextID <= MaxRequests, MainBecomes(n), worker' = w, toMain' = tm,
         w.out = << >>
  PROVE  MdIInv'
<1>1. main' = [n EXCEPT !.out = << >>] /\ toWorker' = toWorker \o n.out
  BY DEF MainBecomes
<1> DEFINE o == [n EXCEPT !.out = << >>]
           p == toWorker \o n.out
<1>2. Sound(o, p, w, tm) /\ Tidy(o) /\ o.nextID = n.nextID /\ o.out = << >>
  <2> HIDE DEF p
  <2> QED
    BY MdFlushed DEF p
<1> HIDE DEF o, p
<1>3. main' = o /\ toWorker' = p
  BY <1>1 DEF o, p
<1> QED
  BY <1>2, <1>3 DEF MdIInv

\* A step of the worker, its answers posted.
LEMMA MdWorkerStep ==
  ASSUME NEW v, NEW tw, Sound(main, tw, [v EXCEPT !.out = << >>], toMain \o v.out),
         Tidy(main), main.nextID <= MaxRequests, main.out = << >>,
         WorkerBecomes(v), main' = main, toWorker' = tw
  PROVE  MdIInv'
<1>1. worker' = [v EXCEPT !.out = << >>] /\ toMain' = toMain \o v.out
  BY DEF WorkerBecomes
<1>2. [v EXCEPT !.out = << >>].out = << >>
  <2>1. [v EXCEPT !.out = << >>] \in WorkerStates
    BY DEF Sound, WayTyped
  <2>2. "out" \in DOMAIN [v EXCEPT !.out = << >>]
    BY <2>1 DEF WorkerStates
  <2> QED
    BY <2>2
<1> DEFINE u == [v EXCEPT !.out = << >>]
           o == toMain \o v.out
<1> HIDE DEF u, o
<1>3. worker' = u /\ toMain' = o /\ u.out = << >> /\ Sound(main, tw, u, o)
  BY <1>1, <1>2 DEF u, o
<1> QED
  BY <1>3 DEF MdIInv

\* Every step of the page and of the worker keeps the invariant.
LEMMA MdStep == MdIInv /\ [MdNext]_mdVars => MdIInv'
<1> SUFFICES ASSUME MdIInv, [MdNext]_mdVars PROVE MdIInv'
  OBVIOUS
<1>0. /\ Sound(main, toWorker, worker, toMain) /\ Tidy(main)
      /\ main.nextID <= MaxRequests /\ main.out = << >> /\ worker.out = << >>
      /\ MainOK(main) /\ main.nextID \in Nat
  BY DEF MdIInv, Sound, MainOK, Mains
<1>1. ASSUME NEW k \in Keys, NEW c \in Codes, Update(k, c) PROVE MdIInv'
  <2> DEFINE n == Fetch(main, k, c)
  <2>1. /\ Sound(n, toWorker \o n.out, worker, toMain) /\ Tidy(n)
        /\ n.nextID \in {main.nextID, main.nextID + 1}
    BY <1>0, MdFetch
  <2>2. MainBecomes(n) /\ worker' = worker /\ toMain' = toMain /\ main.nextID < MaxRequests
    BY <1>1 DEF Update
  <2> HIDE DEF n
  <2>3. n.nextID <= MaxRequests
    BY <2>1, <2>2, <1>0, MdBoundsAssumption
  <2> QED
    BY <2>1, <2>2, <2>3, <1>0, MdPageStep
<1>2. ASSUME NEW k \in Keys, NEW r \in {None, main.views[k].result}, Drop(k, r) PROVE MdIInv'
  <2> DEFINE n == DisposeStreamingCode(
                    [main EXCEPT !.views[k].text = None, !.views[k].fetch = 0,
                                 !.views[k].dom = None, !.views[k].result = r], k)
  <2>1. Sound(n, toWorker \o n.out, worker, toMain) /\ Tidy(n) /\ n.nextID = main.nextID
    BY <1>0, MdDrop
  <2>2. MainBecomes(n) /\ worker' = worker /\ toMain' = toMain
    BY <1>2 DEF Drop
  <2> HIDE DEF n
  <2> QED
    BY <2>1, <2>2, <1>0, MdPageStep
<1>3. ASSUME DeliverToMain PROVE MdIInv'
  <2> DEFINE n == OnMessage(main, Head(toMain))
  <2>1. /\ MainBecomes(n) /\ worker' = worker /\ toMain' = Tail(toMain) /\ toMain # << >>
    BY <1>3 DEF DeliverToMain
  <2>2. Sound(n, toWorker \o n.out, worker, Tail(toMain)) /\ Tidy(n) /\ n.nextID = main.nextID
    BY <2>1, <1>0, MdMessage
  <2> HIDE DEF n
  <2> QED
    BY <2>1, <2>2, <1>0, MdPageStep
<1>4. ASSUME DeliverToWorker PROVE MdIInv'
  <2> DEFINE v == Enqueue(worker, Head(toWorker))
  <2>1. /\ WorkerBecomes(v) /\ toWorker' = Tail(toWorker) /\ toWorker # << >> /\ main' = main
    BY <1>4 DEF DeliverToWorker
  <2>2. Sound(main, Tail(toWorker), [v EXCEPT !.out = << >>], toMain \o v.out)
    BY <2>1, <1>0, MdTaken
  <2> HIDE DEF v
  <2> QED
    BY <2>1, <2>2, <1>0, MdWorkerStep
<1>5. ASSUME Work PROVE MdIInv'
  <2> DEFINE v == StartJob(worker)
  <2>1. /\ WorkerBecomes(v) /\ toWorker' = toWorker /\ main' = main
        /\ worker.running = None /\ worker.jobs # << >>
    BY <1>5 DEF Work
  <2>2. Sound(main, toWorker, [v EXCEPT !.out = << >>], toMain \o v.out)
    BY <2>1, <1>0, MdStarted
  <2> HIDE DEF v
  <2> QED
    BY <2>1, <2>2, <1>0, MdWorkerStep
<1>6. ASSUME Answer PROVE MdIInv'
  <2>1. worker.running # None /\ toWorker' = toWorker /\ main' = main
    BY <1>6 DEF Answer
  <2>2. CASE WorkerBecomes(RunHighlight(worker, worker.running))
    <3> DEFINE v == RunHighlight(worker, worker.running)
    <3>1. Sound(main, toWorker, [v EXCEPT !.out = << >>], toMain \o v.out)
      BY <2>1, <1>0, MdRan
    <3>2. WorkerBecomes(v)
      BY <2>2
    <3> HIDE DEF v
    <3> QED
      BY <2>1, <3>1, <3>2, <1>0, MdWorkerStep
  <2>3. CASE WorkerBecomes(RunFails(worker, worker.running))
    <3> DEFINE v == RunFails(worker, worker.running)
    <3>1. Sound(main, toWorker, [v EXCEPT !.out = << >>], toMain \o v.out)
      BY <2>1, <1>0, MdRefused
    <3>2. WorkerBecomes(v)
      BY <2>3
    <3> HIDE DEF v
    <3> QED
      BY <2>1, <3>1, <3>2, <1>0, MdWorkerStep
  <2> QED
    BY <2>2, <2>3, <1>6 DEF Answer
<1>7. ASSUME WorkerFails PROVE MdIInv'
  <2> DEFINE n == [FailAll(main) EXCEPT !.out = << >>]
  <2>1. /\ Sound(n, << >>, IdleWorker, << >>) /\ Tidy(n) /\ n.nextID = main.nextID
        /\ n.out = << >>
    BY <1>0, MdFail
  <2>2. main' = n /\ worker' = IdleWorker /\ toWorker' = << >> /\ toMain' = << >>
    BY <1>7 DEF WorkerFails
  <2>3. IdleWorker.out = << >>
    BY DEF IdleWorker
  <2> HIDE DEF n
  <2> QED
    BY <2>1, <2>2, <2>3, <1>0 DEF MdIInv
<1>8. CASE UNCHANGED mdVars
  BY <1>0, <1>8 DEF MdIInv, mdVars
<1> QED
  BY <1>1, <1>2, <1>3, <1>4, <1>5, <1>6, <1>7, <1>8 DEF MdNext

\* The invariant of every reachable state.
LEMMA MdHolds == MdSpec => []MdIInv
  BY MdInitial, MdStep, PTL DEF MdSpec

-----------------------------------------------------------------------------
(* The properties. *)

\* The bounds of what the page holds: ids within those given out, promises of
\* ids that were, at most Limit keys with the worker (markdown-worker.ts 86-97).
THEOREM MdTypes == MdSpec => []MdTypeOK
<1>1. MdIInv => MdTypeOK
  <2> SUFFICES ASSUME MdIInv PROVE MdTypeOK
    OBVIOUS
  <2>1. /\ main \in Mains /\ DOMAIN main.pending \subseteq 1..main.nextID
        /\ main.nextID \in Nat /\ main.nextID <= MaxRequests
        /\ Cardinality(main.keys) <= Limit
        /\ worker \in WorkerStates
    BY DEF MdIInv, Sound, MainOK, Mains, Tidy, FewKeys, WayTyped
  <2>2. main.nextID \in 0..MaxRequests
    BY <2>1, MdBoundsAssumption
  <2>3. ASSUME NEW k \in Keys
        PROVE  /\ main.latest[k] \in 0..main.nextID
               /\ main.views[k].text \in Codes \cup {None}
               /\ worker.streams[k] \in {c \in Codes : ~c.complete} \cup {None}
    <3>1. Numbered(main, k)
      BY DEF MdIInv, Tidy
    <3>2. main.latest[k] \in Nat /\ main.views[k] \in Views
      BY <2>1 DEF Mains
    <3>3. main.latest[k] \in 0..main.nextID
      BY <3>1, <3>2, <2>1 DEF Numbered
    <3>4. main.views[k].text \in Codes \cup {None}
      BY <3>2 DEF Views
    <3>5. worker.streams[k] \in {c \in Codes : ~c.complete} \cup {None}
      BY <2>1 DEF WorkerStates
    <3> QED
      BY <3>3, <3>4, <3>5
  <2> QED
    BY <2>1, <2>2, <2>3 DEF MdTypeOK
<1> QED
  BY <1>1, MdHolds, PTL

\* However versions, deltas, evictions and failures interleave, the elements of
\* a block spell one version of its text that the current text starts with, and
\* the current one when no answer is awaited (markdown-code.ts updateCodeBlock).
THEOREM MdShows == MdSpec => []PageShowsItsText
<1>1. MdIInv => PageShowsItsText
  <2> SUFFICES ASSUME MdIInv, NEW k \in Keys, main.views[k].dom # None
               PROVE  LET view == main.views[k]
                          dom  == view.dom
                      IN /\ StartsWith(view.text, dom.code)
                         /\ view.fetch = 0 => dom.code = view.text
                         /\ dom.spans \in {PlainTokens(dom.code),
                                           StableTokens(dom.code) \o UnstableTokens(dom.code)}
    BY DEF PageShowsItsText
  <2> DEFINE view == main.views[k]
             dom  == view.dom
  <2>1. view \in Views /\ ViewOK(main, k)
    BY DEF MdIInv, Sound, MainOK, Mains, Tidy
  <2>2. dom \in DrawnBlocks
    BY <2>1 DEF Views
  <2>3. Drawn(dom)
    BY <2>2 DEF DrawnBlocks
  <2>4. StartsWith(view.text, dom.code) /\ (view.fetch = 0 => dom.code = view.text)
    BY <2>1 DEF ViewOK
  <2> HIDE DEF dom, view
  <2>5. dom.spans \in {PlainTokens(dom.code), StableTokens(dom.code) \o UnstableTokens(dom.code)}
    BY <2>3 DEF Drawn
  <2> QED
    BY <2>4, <2>5 DEF dom, view
<1> QED
  BY <1>1, MdHolds, PTL

\* What is on its way of a key, as the property counts it.
LEMMA MdTraffic ==
  ASSUME NEW k, NEW t
  PROVE  t \in Traffic(k) <=>
           \/ \E i \in Held(toWorker) : toWorker[i].key = k
                                        /\ t = <<"toWorker", <<toWorker[i].id, i>>>>
           \/ \E i \in Held(toMain) : toMain[i].key = k
                                      /\ t = <<"toMain", <<toMain[i].id, i>>>>
           \/ \E i \in Held(worker.jobs) : worker.jobs[i].key = k
                                           /\ t = <<"jobs", <<worker.jobs[i].id, i>>>>
           \/ /\ worker.running # None /\ worker.running.key = k
              /\ t = <<"running", <<worker.running.id, 0>>>>
  BY DEF Traffic, Held, IsHeld

\* Every unsettled promise is owed one answer that is on its way, or waits
\* behind the request of its key that is: no request is lost, and no two of a
\* key are at the worker (markdown-worker-transport.ts).
THEOREM MdOwed == MdSpec => []EveryPromiseHasItsAnswer
<1>1. MdIInv => EveryPromiseHasItsAnswer
  <2> SUFFICES ASSUME MdIInv, NEW id \in DOMAIN main.pending
               PROVE  LET k     == main.pending[id].key
                          Is(r) == r # None /\ r.id = id
                          owed  == {t \in Traffic(k) : t[2][1] = id}
                      IN \/ Is(main.active[k]) /\ Cardinality(owed) = 1
                         \/ Is(main.queued[k]) /\ owed = {} /\ main.active[k] # None
                              /\ main.active[k].id \in DOMAIN main.pending
    BY DEF EveryPromiseHasItsAnswer
  <2> DEFINE k    == main.pending[id].key
             owed == {t \in Traffic(k) : t[2][1] = id}
             AtWorker == \E i \in Held(toWorker) : toWorker[i].id = id
             AtJobs   == \E i \in Held(worker.jobs) : worker.jobs[i].id = id
             AtMain   == \E i \in Held(toMain) : toMain[i].id = id
             Runs     == worker.running # None /\ worker.running.id = id
  <2>0. /\ MainOK(main) /\ WayTyped(toWorker, worker, toMain)
        /\ TransportOK(main, toWorker, worker, toMain)
        /\ \A j \in Keys : Slotted(main, j) /\ main.pending \in PromiseMaps
        /\ k \in Keys
    <3>1. main.pending \in PromiseMaps
      BY DEF MdIInv, Sound, MainOK, Mains
    <3> QED
      BY <3>1, MdPromises DEF MdIInv, Sound, TransportOK
  <2>1. /\ AtWorker <=> id \in Ids(toWorker)
        /\ AtJobs <=> id \in Ids(worker.jobs)
        /\ AtMain <=> id \in Ids(toMain)
        /\ Runs <=> id \in RunningIds(worker)
    BY DEF Ids, Items, RunningIds
  <2>2. /\ \A i \in Held(toWorker) : toWorker[i].id = id => toWorker[i].key = k
        /\ \A i \in Held(worker.jobs) : worker.jobs[i].id = id => worker.jobs[i].key = k
        /\ \A i \in Held(toMain) : toMain[i].id = id => toMain[i].key = k
        /\ Runs => worker.running.key = k
    <3>1. ASSUME NEW r \in Items(toWorker) \cup Items(worker.jobs) \cup RunningItems(worker),
                 r.id = id
          PROVE  r.key = k
      <4>1. r.key \in Keys /\ r # None
        BY <2>0, MdWay, MdNoneAssumption DEF RunningItems
      <4>2. Live(main, r)
        BY <3>1, <2>0 DEF TransportOK, Known, RunningItems
      <4>3. main.pending[main.active[r.key].id].key = r.key
        BY <4>1, <4>2, <2>0, MdSlots DEF Live
      <4> QED
        BY <4>2, <4>3, <3>1 DEF Live
    <3>2. ASSUME NEW r \in Items(toMain), r.id = id
          PROVE  r.key = k
      <4>1. r.key \in Keys
        BY <2>0, MdWay
      <4>2. AnswersActive(main, r)
        BY <3>2, <2>0 DEF TransportOK, Known
      <4>3. main.pending[main.active[r.key].id].key = r.key
        BY <4>1, <4>2, <2>0, MdSlots DEF AnswersActive
      <4> QED
        BY <4>2, <4>3, <3>2 DEF AnswersActive
    <3> HIDE DEF k
    <3> QED
      BY <3>1, <3>2 DEF Items, RunningItems
  <2>3. ASSUME NEW t
        PROVE  t \in owed <=>
                 \/ \E i \in Held(toWorker) : toWorker[i].id = id
                                              /\ t = <<"toWorker", <<id, i>>>>
                 \/ \E i \in Held(toMain) : toMain[i].id = id
                                            /\ t = <<"toMain", <<id, i>>>>
                 \/ \E i \in Held(worker.jobs) : worker.jobs[i].id = id
                                                 /\ t = <<"jobs", <<id, i>>>>
                 \/ Runs /\ t = <<"running", <<id, 0>>>>
    <3> HIDE DEF k
    <3>1. t \in owed <=> t \in Traffic(k) /\ t[2][1] = id
      OBVIOUS
    <3> HIDE DEF owed
    <3> QED
      BY <2>2, <3>1, MdTraffic
  <2> HIDE DEF owed, AtWorker, AtJobs, AtMain, Runs
  <2>4. /\ AtWorker => ~ AtJobs /\ ~ AtMain /\ ~ Runs
        /\ AtJobs => ~ AtWorker /\ ~ AtMain /\ ~ Runs
        /\ AtMain => ~ AtWorker /\ ~ AtJobs /\ ~ Runs
        /\ Runs => ~ AtWorker /\ ~ AtJobs /\ ~ AtMain
    BY <2>0, <2>1 DEF TransportOK, OneEach
  <2>5. Distinct(toWorker) /\ Distinct(worker.jobs) /\ Distinct(toMain)
    BY <2>0 DEF TransportOK, OneEach
  <2>6. CASE main.active[k] # None /\ main.active[k].id = id
    <3>1. AtWorker \/ AtJobs \/ AtMain \/ Runs
      BY <2>0, <2>1, <2>6 DEF TransportOK, Present
    <3>2. \E t : owed = {t}
      <4>1. CASE AtWorker
        <5>1. PICK i \in Held(toWorker) : toWorker[i].id = id
          BY <4>1 DEF AtWorker
        <5>2. \A j \in Held(toWorker) : toWorker[j].id = id <=> j = i
          BY <5>1, <2>5 DEF Distinct
        <5>3. ~ AtJobs /\ ~ AtMain /\ ~ Runs
          BY <4>1, <2>4
        <5>4. ASSUME NEW t PROVE t \in owed <=> t = <<"toWorker", <<id, i>>>>
          BY <5>1, <5>2, <5>3, <2>3 DEF AtJobs, AtMain
        <5>5. owed = {<<"toWorker", <<id, i>>>>}
          BY <5>4
        <5> QED
          BY <5>5
      <4>2. CASE AtJobs
        <5>1. PICK i \in Held(worker.jobs) : worker.jobs[i].id = id
          BY <4>2 DEF AtJobs
        <5>2. \A j \in Held(worker.jobs) : worker.jobs[j].id = id <=> j = i
          BY <5>1, <2>5 DEF Distinct
        <5>3. ~ AtWorker /\ ~ AtMain /\ ~ Runs
          BY <4>2, <2>4
        <5>4. ASSUME NEW t PROVE t \in owed <=> t = <<"jobs", <<id, i>>>>
          BY <5>1, <5>2, <5>3, <2>3 DEF AtWorker, AtMain
        <5>5. owed = {<<"jobs", <<id, i>>>>}
          BY <5>4
        <5> QED
          BY <5>5
      <4>3. CASE AtMain
        <5>1. PICK i \in Held(toMain) : toMain[i].id = id
          BY <4>3 DEF AtMain
        <5>2. \A j \in Held(toMain) : toMain[j].id = id <=> j = i
          BY <5>1, <2>5 DEF Distinct
        <5>3. ~ AtWorker /\ ~ AtJobs /\ ~ Runs
          BY <4>3, <2>4
        <5>4. ASSUME NEW t PROVE t \in owed <=> t = <<"toMain", <<id, i>>>>
          BY <5>1, <5>2, <5>3, <2>3 DEF AtWorker, AtJobs
        <5>5. owed = {<<"toMain", <<id, i>>>>}
          BY <5>4
        <5> QED
          BY <5>5
      <4>4. CASE Runs
        <5>1. ~ AtWorker /\ ~ AtJobs /\ ~ AtMain
          BY <4>4, <2>4
        <5>2. ASSUME NEW t PROVE t \in owed <=> t = <<"running", <<id, 0>>>>
          BY <4>4, <5>1, <2>3 DEF AtWorker, AtJobs, AtMain
        <5>3. owed = {<<"running", <<id, 0>>>>}
          BY <5>2
        <5> QED
          BY <5>3
      <4> QED
        BY <3>1, <4>1, <4>2, <4>3, <4>4
    <3>3. Cardinality(owed) = 1
      BY <3>2, FS_Singleton
    <3> HIDE DEF k
    <3> QED
      BY <2>6, <3>3 DEF k, owed
  <2>7. CASE main.queued[k] # None /\ main.queued[k].id = id
    <3>1. main.active[k] # None /\ main.active[k].id \in DOMAIN main.pending
      BY <2>0, <2>7, MdSlots
    <3>2. ~ AtWorker /\ ~ AtJobs /\ ~ AtMain /\ ~ Runs
      BY <2>0, <2>1, <2>7, MdQueuedFresh DEF Fresh
    <3>3. \A t : t \notin owed
      BY <2>3, <3>2 DEF AtWorker, AtJobs, AtMain, Runs
    <3>4. owed = {}
      BY <3>3
    <3> HIDE DEF k
    <3> QED
      BY <2>7, <3>1, <3>4 DEF k, owed
  <2>8. \/ main.active[k] # None /\ main.active[k].id = id
        \/ main.queued[k] # None /\ main.queued[k].id = id
    BY <2>0 DEF TransportOK, Matched
  <2> QED
    BY <2>6, <2>7, <2>8 DEF owed
<1> QED
  BY <1>1, MdHolds, PTL

\* When nothing of a key is on its way, the page holds the stable tokens the
\* worker will continue from (markdown-worker-protocol.ts applyResponse and
\* markdown.worker.ts): the next delta fits.
THEOREM MdFitting == MdSpec => []DeltasFit
<1>1. MdIInv => DeltasFit
  <2> SUFFICES ASSUME MdIInv, NEW k \in Keys, Quiet(k), worker.streams[k] # None
               PROVE  /\ main.states[k] # None
                      /\ main.states[k].stable = StableTokens(worker.streams[k])
    BY DEF DeltasFit
  <2>1. InStep(main, toWorker, worker, toMain, k) /\ toMain \in Seq(Answers)
    BY DEF MdIInv, Sound, WayTyped
  <2>2. Undisposed(toWorker, worker, k)
    BY DEF Quiet, Undisposed, DisposalIn
  <2>3. \A i \in DOMAIN toMain : ~ LiveAnswer(main, toMain, i, k)
    <3> SUFFICES ASSUME NEW i \in DOMAIN toMain, toMain[i].key = k PROVE FALSE
      BY DEF LiveAnswer
    <3>1. toMain[i] \in Answers
      BY <2>1
    <3>2. i \in Held(toMain)
      BY <3>1 DEF Held, IsHeld, Answers, Deltas, Refusals
    <3>3. <<"toMain", <<toMain[i].id, i>>>> \in Traffic(k)
      BY <3>2, MdTraffic
    <3> QED
      BY <3>3 DEF Quiet
  <2> QED
    BY <2>1, <2>2, <2>3 DEF InStep, Continues
<1> QED
  BY <1>1, MdHolds, PTL
=============================================================================
