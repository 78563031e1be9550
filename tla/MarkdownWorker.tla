--------------------------- MODULE MarkdownWorker ---------------------------
(***************************************************************************)
(* Streaming code blocks of the desktop and web interface                  *)
(* (clients/gui/src/session-ui/components/markdown*.ts).  The page asks a  *)
(* web worker to highlight every version of a block while its text still   *)
(* arrives.  The worker answers with deltas; the page keeps what it has    *)
(* of each block, and updates the elements it shows in place.  The two     *)
(* threads share nothing but two ordered message ports.                    *)
(*                                                                         *)
(* A block's source is abstract: `v' stands for its language and its first *)
(* lines, `n' for how many lines it has.  The tokens of a line depend on   *)
(* the text before it alone, which is what a tokenizer guarantees.         *)
(***************************************************************************)
EXTENDS Integers, Sequences, SequencesExt, FiniteSets, Functions

CONSTANTS
  Keys,        \* block keys; each belongs to one Markdown component
  None,        \* no block, no state, no stream
  Limit,       \* how many keys may hold highlighter state (200 in the code)
  Codes,       \* bound: versions of a block's source
  MaxRequests, \* bound: highlight requests
  MaxChanges   \* bound: changes of the text on the page

ASSUME MdLimitAssumption  == Limit \in Nat \ {0}
ASSUME MdCodesAssumption  == Codes \subseteq [v : Nat, n : Nat \ {0}, complete : BOOLEAN]
ASSUME MdBoundsAssumption == MaxRequests \in Nat /\ MaxChanges \in Nat

VARIABLES
  main,      \* the page's thread: transport, pending promises and views
  worker,    \* the worker's thread: its job queue and token streams
  toWorker,  \* messages posted to the worker, in order
  toMain,    \* messages posted to the page, in order
  changes    \* how much of MaxChanges is used

mdVars == <<main, worker, toWorker, toMain, changes>>

-----------------------------------------------------------------------------
(* Text and tokens. *)

Tokens == (Nat \X Nat) \cup (Nat \X Nat \X {"tail", "plain"})

\* What the component's resource resolves to, and the elements made of it.
Blocks == [code : Codes, gen : Nat, stable : Seq(Tokens), unstable : Seq(Tokens)]

DomBlocks == [code : Codes, gen : Nat, stableCount : Nat, unstable : Seq(Tokens),
              spans : Seq(Tokens)]

\* What is posted to the worker, and what the page holds of a block's tokens.
HighlightRequests == [type : {"highlight"}, id : Nat, key : Keys, code : Codes]

TokenStates == [id : Nat, gen : Nat, stable : Seq(Tokens), unstable : Seq(Tokens)]

ASSUME MdNoneAssumption ==
  None \notin Codes \cup Blocks \cup DomBlocks \cup HighlightRequests \cup TokenStates

StartsWith(a, b) ==
  /\ a.v = b.v
  /\ IF b.complete THEN a.complete /\ a.n = b.n ELSE a.n >= b.n

StableTokens(c)   == [i \in 1..(IF c.complete THEN c.n ELSE c.n - 1) |-> <<c.v, i>>]
UnstableTokens(c) == IF c.complete THEN << >> ELSE << <<c.v, c.n, "tail">> >>
PlainTokens(c)    == << <<c.v, c.n, "plain">> >>

Rendered(c, gen, stable, unstable) ==
  [code |-> c, gen |-> gen, stable |-> stable, unstable |-> unstable]

PlainBlock(c) == Rendered(c, 0, << >>, PlainTokens(c))

-----------------------------------------------------------------------------
(* The elements on the page. *)

\* Mutant: an earlier version's elements are kept whatever the text begins with.
ResetByCount(previous, next) ==
  previous.gen # next.gen \/ Len(next.stable) < previous.stableCount

ShouldResetCodeTokens(previous, next) ==
  \/ previous.gen # next.gen
  \/ Len(next.stable) < previous.stableCount
  \/ ~ StartsWith(next.code, previous.code)

UpdateCodeBlock(dom, next) ==
  IF dom = None
  THEN [code |-> next.code, gen |-> next.gen, stableCount |-> Len(next.stable),
        unstable |-> next.unstable, spans |-> next.stable \o next.unstable]
  ELSE LET reset  == ShouldResetCodeTokens(dom, next)
           stable == IF reset THEN 0 ELSE dom.stableCount
           tail   == SubSeq(next.stable, stable + 1, Len(next.stable)) \o next.unstable
           prior  == IF reset THEN << >> ELSE dom.unstable
           keep   == stable + Len(LongestCommonPrefix({prior, tail}))
       IN [code |-> next.code, gen |-> next.gen, stableCount |-> Len(next.stable),
           unstable |-> next.unstable,
           spans |-> SubSeq(dom.spans, 1, keep)
                       \o SubSeq(tail, keep - stable + 1, Len(tail))]

\* While a newer version is on its way the last one is shown if the text only
\* grew since, and the bare text otherwise.
PendingBlock(view) ==
  IF view.fetch = 0 THEN view.result
  ELSE IF view.result # None /\ StartsWith(view.text, view.result.code)
       THEN view.result
       ELSE PlainBlock(view.text)

Shown(view) == [view EXCEPT !.dom = UpdateCodeBlock(@, PendingBlock(view))]

\* The promise of a fetch resolves: a complete block is remembered, and shown
\* unless a later fetch has taken this one's place.
Resolved(view, id, block) ==
  LET known == IF block.code.complete THEN [view EXCEPT !.cached = block] ELSE view
  IN IF view.fetch = id
     THEN Shown([known EXCEPT !.result = block, !.fetch = 0])
     ELSE known

Resolve(m, k, id, block) == [m EXCEPT !.views[k] = Resolved(@, id, block)]

-----------------------------------------------------------------------------
(* The transport: one request of a key at the worker, one waiting. *)

Settle(m, ids) == [m EXCEPT !.pending = Restrict(@, DOMAIN @ \ ids)]

\* What is left of view k when the promises `lost' of its block are rejected,
\* in the order of their requests.  A rejected promise resolves to the bare
\* text, whatever the reason.
AfterLoss(view, pending, lost) ==
  LET done  == {id \in lost : pending[id].code.complete}
      known == IF done = {} THEN view
               ELSE [view EXCEPT !.cached = PlainBlock(pending[Max(done)].code)]
  IN IF view.fetch \in lost
     THEN Shown([known EXCEPT !.result = PlainBlock(pending[view.fetch].code),
                              !.fetch = 0])
     ELSE known

RejectAll(m, ids) ==
  [Settle(m, ids) EXCEPT
     !.views = [k \in Keys |->
       AfterLoss(@[k], m.pending, {id \in ids : m.pending[id].key = k})]]

Supersede(m, reqs) == RejectAll(m, {r.id : r \in reqs \ {None}} \cap DOMAIN m.pending)

Post(m, req) == [m EXCEPT !.active[req.key] = req, !.out = Append(@, req)]

Send(m, req) ==
  IF m.active[req.key] = None THEN Post(m, req)
  ELSE [Supersede(m, {m.queued[req.key]}) EXCEPT !.queued[req.key] = req]

\* Mutant: any answer of the key counts, also one to a disposed request.
CompleteAny(m, k, id) ==
  IF m.active[k] = None THEN m
  ELSE IF m.queued[k] = None THEN [m EXCEPT !.active[k] = None]
       ELSE Post([m EXCEPT !.queued[k] = None], m.queued[k])

\* Mutant: the waiting request is left waiting.
CompleteForgets(m, k, id) ==
  IF m.active[k] = None \/ m.active[k].id # id THEN m
  ELSE [m EXCEPT !.active[k] = None]

Complete(m, k, id) ==
  IF m.active[k] = None \/ m.active[k].id # id THEN m
  ELSE IF m.queued[k] = None THEN [m EXCEPT !.active[k] = None]
       ELSE Post([m EXCEPT !.queued[k] = None], m.queued[k])

DisposeTransport(m, k) ==
  [Supersede(m, {m.queued[k]}) EXCEPT !.active[k] = None, !.queued[k] = None]

-----------------------------------------------------------------------------
(* The functions the page calls. *)

WorkerUp(m) == m.nextID > 0 /\ ~m.disabled

DisposeStreamingCode(m, k) ==
  LET m1 == DisposeTransport([m EXCEPT !.keys = @ \ {k}, !.latest[k] = 0, !.states[k] = None], k)
      m2 == RejectAll(m1, {id \in DOMAIN m1.pending : m1.pending[id].key = k})
  IN IF WorkerUp(m) THEN [m2 EXCEPT !.out = Append(@, [type |-> "dispose", key |-> k])]
                    ELSE m2

\* The code's set of keys is in the order of their latest requests.
Oldest(m) == CHOOSE k \in m.keys : \A j \in m.keys : m.latest[k] <= m.latest[j]

Recorded(pending, id, request) ==
  [i \in DOMAIN pending \cup {id} |-> IF i = id THEN request ELSE pending[i]]

\* Mutant: one key too many.
EvictLate(m) ==
  IF Cardinality(m.keys) > Limit + 1 THEN DisposeStreamingCode(m, Oldest(m)) ELSE m

Evict(m) ==
  IF Cardinality(m.keys) > Limit THEN DisposeStreamingCode(m, Oldest(m)) ELSE m

HighlightStreamingCode(m, k, c) ==
  LET id == m.nextID + 1
      m1 == [m EXCEPT !.nextID = id, !.latest[k] = id, !.keys = @ \cup {k},
                      !.views[k].fetch = id]
  IN Send([Evict(m1) EXCEPT !.pending = Recorded(@, id, [key |-> k, code |-> c])],
          [type |-> "highlight", id |-> id, key |-> k, code |-> c])

\* The component's resource is fetched again for its new text.
Fetch(m, k, c) ==
  LET cached == m.views[k].cached
      m1     == [m EXCEPT !.views[k].text = c]
      now(b) == Resolve([m1 EXCEPT !.views[k].fetch = -1], k, -1, b)
  IN IF c.complete /\ cached # None /\ cached.code = c THEN now(cached)
     ELSE IF m.disabled THEN now(PlainBlock(c))
     ELSE [HighlightStreamingCode(m1, k, c) EXCEPT !.views[k] = Shown(@)]

ApplyResponse(state, msg, c) ==
  IF state # None /\ msg.id <= state.id THEN state
  ELSE LET gen  == IF state = None THEN 0 ELSE state.gen
           have == IF state = None THEN << >> ELSE state.stable
       IN [id |-> msg.id, gen |-> gen + (IF msg.reset THEN 1 ELSE 0),
           stable |-> IF msg.reset THEN msg.stable ELSE have \o msg.stable,
           unstable |-> msg.unstable]

\* Mutant: a complete block's state goes although a newer request is out.
ReleaseAny(complete, latest, id) == complete

ShouldRelease(complete, latest, id) == complete /\ latest = id

OnMessage(m, msg) ==
  LET k  == msg.key
      id == msg.id
  IN IF id \notin DOMAIN m.pending THEN Complete(m, k, id)
     ELSE IF k \notin m.keys \/ msg.type \in {"superseded", "error"}
     THEN Complete(RejectAll(m, {id}), k, id)
     ELSE LET c     == m.pending[id].code
              state == ApplyResponse(m.states[k], msg, c)
              m1    == Settle(m, {id})
              m2    == IF ShouldRelease(c.complete, m.latest[k], id)
                       THEN [m1 EXCEPT !.states[k] = None, !.latest[k] = 0,
                                       !.keys = @ \ {k}]
                       ELSE [m1 EXCEPT !.states[k] = state]
          IN Complete(Resolve(m2, k, id, Rendered(c, state.gen, state.stable,
                                                  state.unstable)), k, id)

\* The worker dies: everything outstanding is rejected, and it never returns.
FailAll(m) ==
  LET m1 == Supersede([m EXCEPT !.disabled = TRUE], {m.queued[k] : k \in Keys})
      no == [k \in Keys |-> None]
  IN [RejectAll(m1, DOMAIN m1.pending) EXCEPT
        !.active = no, !.queued = no, !.states = no, !.keys = {},
        !.latest = [k \in Keys |-> 0]]

-----------------------------------------------------------------------------
(* The worker. *)

\* The job of key k that has not been started, disposed of or emptied.
Slots(w, k) ==
  {i \in DOMAIN w.jobs : w.jobs[i].type = "highlight" /\ w.jobs[i].key = k}

Emptied(k) == [type |-> "empty", key |-> k]

Superseded(req) == [type |-> "superseded", id |-> req.id, key |-> req.key]

\* highlightQueue.highlight and highlightQueue.dispose
Enqueue(w, msg) ==
  LET slots == Slots(w, msg.key)
      slot  == CHOOSE i \in slots : TRUE
  IN IF slots = {} THEN [w EXCEPT !.jobs = Append(@, msg)]
     ELSE [w EXCEPT !.out  = Append(@, Superseded(w.jobs[slot])),
                    !.jobs = IF msg.type = "dispose"
                             THEN Append([@ EXCEPT ![slot] = Emptied(msg.key)], msg)
                             ELSE [@ EXCEPT ![slot] = msg]]

StartJob(w) ==
  LET job == Head(w.jobs)
      w1  == [w EXCEPT !.jobs = Tail(@)]
  IN CASE job.type = "dispose"   -> [w1 EXCEPT !.streams[job.key] = None]
       [] job.type = "highlight" -> [w1 EXCEPT !.running = job]
       [] job.type = "empty"     -> w1

RunHighlight(w, req) ==
  LET c      == req.code
      source == w.streams[req.key]
      reset  == c.complete \/ source = None \/ ~ StartsWith(c, source)
      have   == IF reset THEN 0 ELSE Len(StableTokens(source))
  IN [w EXCEPT !.running = None,
               !.streams[req.key] = IF c.complete THEN None ELSE c,
               !.out = Append(@, [type |-> "highlight", id |-> req.id, key |-> req.key,
                                  reset |-> reset,
                                  stable |-> SubSeq(StableTokens(c), have + 1, Len(StableTokens(c))),
                                  unstable |-> UnstableTokens(c)])]

RunFails(w, req) ==
  [w EXCEPT !.running = None,
            !.out = Append(@, [type |-> "error", id |-> req.id, key |-> req.key])]

-----------------------------------------------------------------------------
(* Steps. *)

NewView   == [text |-> None, fetch |-> 0, result |-> None, cached |-> None, dom |-> None]
IdleWorker == [jobs |-> << >>, running |-> None, streams |-> [k \in Keys |-> None],
               out |-> << >>]

MdInit ==
  /\ main = [disabled |-> FALSE, nextID |-> 0, pending |-> << >>, keys |-> {},
             latest |-> [k \in Keys |-> 0], active |-> [k \in Keys |-> None],
             queued |-> [k \in Keys |-> None], states |-> [k \in Keys |-> None],
             views |-> [k \in Keys |-> NewView], out |-> << >>]
  /\ worker = IdleWorker
  /\ toWorker = << >> /\ toMain = << >>
  /\ changes = 0

\* What a step of the page posted enters the port at its end.
MainBecomes(next) ==
  \E m \in {next} : /\ main' = [m EXCEPT !.out = << >>]
                    /\ toWorker' = toWorker \o m.out

WorkerBecomes(next) ==
  \E w \in {next} : /\ worker' = [w EXCEPT !.out = << >>]
                    /\ toMain' = toMain \o w.out

\* The message's text changed: the block grew, was closed, was rewritten, or
\* is the same with more text below it.
Update(k, c) ==
  /\ changes < MaxChanges /\ changes' = changes + 1
  /\ main.nextID < MaxRequests
  /\ MainBecomes(Fetch(main, k, c))
  /\ UNCHANGED <<worker, toMain>>

\* The text shows no code block here any more, or its component goes away.
Drop(k, result) ==
  /\ changes < MaxChanges /\ changes' = changes + 1
  /\ main.views[k].text # None
  /\ MainBecomes(DisposeStreamingCode(
       [main EXCEPT !.views[k].text = None, !.views[k].fetch = 0,
                    !.views[k].dom = None, !.views[k].result = result], k))
  /\ UNCHANGED <<worker, toMain>>

DeliverToMain ==
  /\ toMain # << >>
  /\ MainBecomes(OnMessage(main, Head(toMain)))
  /\ toMain' = Tail(toMain)
  /\ UNCHANGED <<worker, changes>>

DeliverToWorker ==
  /\ toWorker # << >>
  /\ WorkerBecomes(Enqueue(worker, Head(toWorker)))
  /\ toWorker' = Tail(toWorker)
  /\ UNCHANGED <<main, changes>>

Work ==
  /\ worker.running = None /\ worker.jobs # << >>
  /\ WorkerBecomes(StartJob(worker))
  /\ UNCHANGED <<main, toWorker, changes>>

Answer ==
  /\ worker.running # None
  /\ \/ WorkerBecomes(RunHighlight(worker, worker.running))
     \/ WorkerBecomes(RunFails(worker, worker.running))
  /\ UNCHANGED <<main, toWorker, changes>>

\* worker.onerror or onmessageerror: the worker is terminated and its messages lost.
WorkerFails ==
  /\ WorkerUp(main)
  /\ main' = [FailAll(main) EXCEPT !.out = << >>]
  /\ worker' = IdleWorker
  /\ toWorker' = << >> /\ toMain' = << >>
  /\ UNCHANGED changes

MdNext ==
  \/ \E k \in Keys, c \in Codes : Update(k, c)
  \/ \E k \in Keys : \E r \in {None, main.views[k].result} : Drop(k, r)
  \/ DeliverToMain
  \/ DeliverToWorker
  \/ Work
  \/ Answer
  \/ WorkerFails

\* The browser delivers messages and the worker runs its queue.  The page
\* takes a message with DeliverToMain, the only step that leaves the tail of
\* the port; naming the port keeps ENABLED simple.
TakesMessage == toMain # << >> /\ toMain' = Tail(toMain)

MdFairness ==
  /\ WF_toMain(TakesMessage)
  /\ WF_mdVars(DeliverToWorker)
  /\ WF_mdVars(Work)
  /\ WF_mdVars(Answer)

MdSpec == MdInit /\ [][MdNext]_mdVars /\ MdFairness

-----------------------------------------------------------------------------
(* Properties. *)

\* What the page holds of a block is well formed.
MdTypeOK ==
  /\ main.nextID \in 0..MaxRequests /\ DOMAIN main.pending \subseteq 1..main.nextID
  /\ \A k \in Keys :
       /\ main.latest[k] \in 0..main.nextID
       /\ main.views[k].text \in Codes \cup {None}
       /\ worker.streams[k] \in {c \in Codes : ~c.complete} \cup {None}
  /\ Cardinality(main.keys) <= Limit

\* However versions, deltas, evictions and failures interleave, the elements
\* of a block spell one version of its text, highlighted or bare: one the
\* current text starts with, and the current one when nothing is on its way.
\* (updateCodeBlock keeps elements of earlier versions.)
PageShowsItsText ==
  \A k \in Keys :
    LET view == main.views[k]
        dom  == view.dom
    IN dom # None =>
         /\ StartsWith(view.text, dom.code)
         /\ view.fetch = 0 => dom.code = view.text
         /\ dom.spans \in {PlainTokens(dom.code),
                            StableTokens(dom.code) \o UnstableTokens(dom.code)}

\* Requests and answers of key k on their way, each with its id.
Traffic(k) ==
  LET ids(s) == {<<s[i].id, i>> : i \in {p \in DOMAIN s :
                   s[p].type \notin {"dispose", "empty"} /\ s[p].key = k}}
  IN ({"toWorker"} \X ids(toWorker)) \cup ({"toMain"} \X ids(toMain))
       \cup ({"jobs"} \X ids(worker.jobs))
       \cup (IF worker.running # None /\ worker.running.key = k
             THEN {<<"running", <<worker.running.id, 0>>>>} ELSE {})

\* Every unsettled promise is owed exactly one answer that is on its way, or
\* waits behind the request of its key that is: the transport neither loses a
\* request nor has two of a key at the worker, across disposal and reuse of
\* the key.
EveryPromiseHasItsAnswer ==
  \A id \in DOMAIN main.pending :
    LET k      == main.pending[id].key
        Is(r)  == r # None /\ r.id = id
        owed   == {t \in Traffic(k) : t[2][1] = id}
    IN \/ Is(main.active[k]) /\ Cardinality(owed) = 1
       \/ Is(main.queued[k]) /\ owed = {} /\ main.active[k] # None
            /\ main.active[k].id \in DOMAIN main.pending

\* When nothing of a key is on its way, the page holds exactly the stable
\* tokens the worker will continue from: the next delta fits.
Quiet(k) ==
  /\ Traffic(k) = {}
  /\ \A i \in DOMAIN toWorker : toWorker[i].key # k
  /\ \A i \in DOMAIN worker.jobs : worker.jobs[i].key # k

DeltasFit ==
  \A k \in Keys : Quiet(k) /\ worker.streams[k] # None =>
    /\ main.states[k] # None
    /\ main.states[k].stable = StableTokens(worker.streams[k])

\* The page catches up with its text, also when the worker fails, a request is
\* answered by an error, or its key is evicted.
CatchesUp ==
  \A k \in Keys : (main.views[k].fetch # 0) ~> (main.views[k].fetch = 0)
=============================================================================
