---------------------------- MODULE EsqlLifetime ----------------------------
(***************************************************************************)
(* How long the things of the library live: the library itself between     *)
(* esql_init and esql_shutdown, an object (plain, or a pool with its       *)
(* members), the events about it that the main loop has not delivered, and *)
(* the results of its queries, with the references the program and its     *)
(* iterators hold on them (src/lib/esql.c, esql_res.c, esql_pool.c and the *)
(* places where events are added).                                         *)
(*                                                                         *)
(* Nothing in C says that memory has been freed.  Here `stale' becomes     *)
(* true at the step that would use something freed, and nothing happens    *)
(* after it.  What a connection talks about is left to Esql: its input and *)
(* output may wait, end the call under way, or fail.                       *)
(***************************************************************************)
EXTENDS Integers, Sequences, FiniteSets

CONSTANTS
  Size,        \* connections of a pool
  MaxRes,      \* bound on results
  Wrap,        \* 2^32, the range of event_count
  RetryTimers, \* the reconnect timers an object can have at a time
  Budget       \* bounds on what the program and the world may still do

\* "turn" is shared by failures, disconnects, timeouts set and references taken.
BudgetKinds == {"init", "connect", "query", "turn"}

ASSUME LifetimeAssumption ==
  /\ Size \in Nat \ {0} /\ MaxRes \in Nat /\ Wrap \in Nat \ {0, 1}
  /\ Budget \in [BudgetKinds -> Nat]
  /\ RetryTimers \cap {"fd", "job", "timeout"} = {}

Members == 1 .. Size
Objs == 0 .. Size               \* 0 is what the program holds: the object, or struct Esql_Pool
Results == 1 .. MaxRes
None == 0
AboutObject == 0                \* an event about object 0; another event is its result

VARIABLES
  lib,         \* esql_init_count_, and what esql_init set up
  kind,        \* what esql_new or esql_pool_new made: "none", "plain" or "pool"
  heap,        \* the objects, the pool's e_connected, the events and the results
  handle,      \* whether the program may still use its object
  held,        \* the references the program and its iterators hold, by result
  run,         \* "loop", or inside one of the program's callbacks or event handlers
  budget,
  (* history *)
  tidy,        \* whether the program has freed, shut down and taken references when it may
  stale        \* whether something freed has been used

vars == <<lib, kind, heap, handle, held, run, budget, tidy, stale>>

----------------------------------------------------------------------------
(* The shape of the state *)

\* What the main loop will call about an object: its descriptor, its job, its
\* timeout timer, and every reconnect timer that was added, of which
\* e->reconnect_timer is only the last.
SourceKinds == {"fd", "job", "timeout"} \cup RetryTimers

ObjectRec ==
  [st : {"none", "live", "freed"}, dead : BOOLEAN, count : 0 .. Wrap - 1,
   connected : BOOLEAN, current : {"none", "init", "query"},
   res : Results \cup {None}, src : SUBSET SourceKinds]

ResultRec ==
  [st : {"none", "live", "freed"}, refs : Int, error : BOOLEAN]

HeapRec ==
  [obj : [Objs -> ObjectRec], econn : Int, events : Seq({AboutObject} \cup Results),
   res : [Results -> ResultRec]]

LibRec == [inits : Nat, up : BOOLEAN, users : Nat, broken : BOOLEAN]

CallbackKinds == {"ready", "refused", "answered", "failed"}
RunRec == [at : {"loop", "handler"} \cup CallbackKinds, c : Objs, what : {AboutObject} \cup Results]

\* The types of the variables.
TypeOK ==
  /\ lib \in LibRec
  /\ kind \in {"none", "plain", "pool"}
  /\ heap \in HeapRec
  /\ handle \in BOOLEAN
  /\ held \in [Results -> Nat]
  /\ run \in RunRec
  /\ budget \in [BudgetKinds -> Nat]
  /\ tidy \in BOOLEAN /\ stale \in BOOLEAN

Loop == [at |-> "loop", c |-> 0, what |-> AboutObject]

NoObject ==
  [st |-> "none", dead |-> FALSE, count |-> 0, connected |-> FALSE, current |-> "none",
   res |-> None, src |-> {}]

Init ==
  /\ lib = [inits |-> 0, up |-> FALSE, users |-> 0, broken |-> FALSE]
  /\ kind = "none"
  /\ heap = [obj |-> [o \in Objs |-> NoObject], econn |-> 0, events |-> <<>>,
             res |-> [r \in Results |-> [st |-> "none", refs |-> 0, error |-> FALSE]]]
  /\ handle = FALSE
  /\ held = [r \in Results |-> 0]
  /\ run = Loop
  /\ budget = Budget
  /\ tidy = TRUE
  /\ stale = FALSE

Conns == IF kind = "pool" THEN Members ELSE IF kind = "plain" THEN {0} ELSE {}
Can(what) == budget[what] > 0
Spend(what) == budget' = [budget EXCEPT ![what] = @ - 1]
LiveResults == {r \in Results : heap.res[r].st = "live"}

----------------------------------------------------------------------------
(* What the code does to the heap *)

\* ecore_event_add of an event about the object, or about the pool of the
\* member, and e->event_count++ of the object itself.
Plus1(n) == (n + 1) % Wrap
ToldUncounted(h, c) == [h EXCEPT !.events = Append(@, AboutObject)]    \* mutant: no event_count++
Told(h, c) == [h EXCEPT !.events = Append(@, AboutObject), !.obj[c].count = Plus1(@)]

\* esql_disconnect of a connection.
Unplugged(h, c) ==
  [h EXCEPT !.obj[c].src = @ \ {"fd"}, !.obj[c].connected = FALSE,
            !.econn = IF kind = "pool" /\ h.obj[c].connected THEN @ - 1 ELSE @]
TellsLoss(h, c) == h.obj[c].connected /\ (kind = "plain" \/ Unplugged(h, c).econn = 0)
Disconnected(h, c) == IF TellsLoss(h, c) THEN Told(Unplugged(h, c), c) ELSE Unplugged(h, c)

\* esql_disconnect of connected members one after the other: the one with which
\* e_connected reaches 0 tells the loss.
TellsLastLoss(h, cs, c) == c \in cs /\ h.econn = Cardinality({d \in cs : d <= c})
HungUp(h, cs) ==
  [h EXCEPT
     !.econn = @ - Cardinality(cs),
     !.events = IF \E c \in cs : TellsLastLoss(h, cs, c) THEN Append(@, AboutObject) ELSE @,
     !.obj = [c \in Objs |->
                IF c \notin cs THEN h.obj[c]
                ELSE [h.obj[c] EXCEPT !.src = @ \ {"fd"}, !.connected = FALSE,
                                       !.count = IF TellsLastLoss(h, cs, c) THEN Plus1(@) ELSE @]]]

\* esql_free of one connection.  Without modules it is not disconnected, and
\* nothing cancels its job, its timers or the handler of a dial under way.
FreedConn(h, c) ==
  IF h.obj[c].count # 0
  THEN [h EXCEPT !.obj[c].dead = TRUE]
  ELSE LET g == IF lib.up /\ h.obj[c].connected THEN Disconnected(h, c) ELSE h
       IN [g EXCEPT !.obj[c].st = "freed"]

\* esql_pool_free: members that no event was counted for are freed, the others
\* wait.
PoolFreed(h) ==
  LET idle == {c \in Members : h.obj[c].count = 0}
      g == IF lib.up THEN HungUp(h, {c \in idle : h.obj[c].connected}) ELSE h
  IN [g EXCEPT !.obj = [c \in Objs |-> IF c \in {0} \cup idle THEN [g.obj[c] EXCEPT !.st = "freed"]
                                      ELSE [g.obj[c] EXCEPT !.dead = TRUE]]]

\* esql_free, of a pool with all of its members.
Freed(h) == IF h.obj[0].count # 0 \/ kind = "plain" THEN FreedConn(h, 0) ELSE PoolFreed(h)

\* esql_fake_free, at the end of an event about the object: the count of what
\* the event names, for a pool not the one that was incremented.
Minus1(n) == (n + Wrap - 1) % Wrap
AnyEvent(n) == TRUE                                                     \* mutant: not asked
OneLeft(n) == n = 1                                                     \* mutant: asked before the decrement
LastEvent(n) == n = 0
FakeFreed(h) ==
  LET g == [h EXCEPT !.obj[0].count = Minus1(@)]
  IN IF LastEvent(g.obj[0].count) /\ g.obj[0].dead THEN Freed([g EXCEPT !.obj[0].count = 0]) ELSE g

\* esql_res_calloc: a result for the program, owned by what it holds.
Unused == {r \in Results : heap.res[r].st = "none"}
NewResult == CHOOSE r \in Unused : \A s \in Unused : r <= s
Made(h, r, error) ==
  [h EXCEPT !.res[r] = [st |-> "live", refs |-> 1, error |-> error], !.obj[0].res = r]

\* esql_res_unref: the last reference frees the result, and the object that
\* still has it forgets it.
Unreffed(h, r) ==
  IF h.res[r].refs # 1
  THEN [h EXCEPT !.res[r].refs = @ - 1]
  ELSE [h EXCEPT !.res[r].refs = 0, !.res[r].st = "freed",
                 !.obj[0].res = IF @ = r THEN None ELSE @]

Next_(h, c) == [h EXCEPT !.obj[c].current = "none"]                     \* esql_next, nothing queued

----------------------------------------------------------------------------
(* The library *)

\* esql_init.  Eina, the log domain, Ecore, the memory pools or the modules
\* may fail: what was set up is shut down again, the count stays.
EsqlInit ==
  /\ run.at = "loop"
  /\ Can("init") /\ Spend("init")
  /\ IF lib.inits # 0
     THEN lib' = [lib EXCEPT !.inits = @ + 1, !.users = @ + 1]
     ELSE \/ lib' = [lib EXCEPT !.inits = 1, !.users = @ + 1, !.up = TRUE]
          \/ lib' = [lib EXCEPT !.inits = 1, !.broken = TRUE]
  /\ UNCHANGED <<kind, heap, handle, held, run, tidy, stale>>

\* No result is left and nothing will be called about an object: the library may
\* be shut down (what the program made may be freed later).
SettledToShutDown == LiveResults = {} /\ \A c \in Conns : heap.obj[c].src = {}

\* esql_shutdown.
LastUser(n) == n = 1
EsqlShutdown ==
  /\ run.at = "loop"
  /\ lib.users > 0
  /\ lib' = [lib EXCEPT !.inits = @ - 1, !.users = @ - 1, !.up = @ /\ ~LastUser(lib.inits)]
  /\ tidy' = (tidy /\ (LastUser(lib.inits) => SettledToShutDown))
  /\ UNCHANGED <<kind, heap, handle, held, run, budget, stale>>

----------------------------------------------------------------------------
(* The program's calls: from the loop, a callback or an event handler *)

Usable == lib.up /\ handle

\* esql_new and esql_pool_new.
New(k) ==
  /\ run.at = "loop"
  /\ lib.up /\ lib.users > 0 /\ kind = "none"
  /\ kind' = k
  /\ handle' = TRUE
  /\ heap' = [heap EXCEPT !.obj = [o \in Objs |-> IF o = 0 \/ k = "pool"
                                                  THEN [NoObject EXCEPT !.st = "live"] ELSE @[o]]]
  /\ UNCHANGED <<lib, held, run, budget, tidy, stale>>

\* esql_connect, of a pool for each member that is not connected.  (A program
\* that dials while a dial is under way is left to Esql.)
Dialled(o) ==
  IF o.connected THEN o ELSE [o EXCEPT !.current = "init", !.src = @ \cup {"fd"}]
Connect ==
  /\ Usable /\ Can("connect") /\ Spend("connect")
  /\ \E c \in Conns : ~heap.obj[c].connected
  /\ \A c \in Conns : heap.obj[c].connected \/ "fd" \notin heap.obj[c].src
  /\ heap' = [heap EXCEPT !.obj = [c \in Objs |-> IF c \in Conns THEN Dialled(heap.obj[c]) ELSE heap.obj[c]]]
  /\ UNCHANGED <<lib, kind, handle, held, run, tidy, stale>>

\* esql_disconnect, of a pool for each member that is connected.
Disconnect ==
  /\ Usable /\ Can("turn") /\ Spend("turn")
  /\ heap' = IF kind = "plain" THEN Disconnected(heap, 0)
             ELSE [HungUp(heap, {c \in Members : heap.obj[c].connected}) EXCEPT !.obj[0].connected = FALSE]
  /\ UNCHANGED <<lib, kind, handle, held, run, tidy, stale>>

\* esql_query: the object is idle, a job is added.  (What is queued behind
\* another call holds nothing of the heap.)
Query(c) ==
  /\ Usable /\ Can("query") /\ Spend("query")
  /\ heap.obj[0].connected /\ heap.obj[c].connected /\ heap.obj[c].current = "none"
  /\ heap' = [heap EXCEPT !.obj[c].current = "query", !.obj[c].src = @ \cup {"job"}]
  /\ UNCHANGED <<lib, kind, handle, held, run, tidy, stale>>

\* esql_connect_timeout_set, on or off.
TimeoutSet(on) ==
  /\ Usable /\ Can("turn") /\ Spend("turn")
  /\ heap' = [heap EXCEPT !.obj = [c \in Objs |->
                IF c \notin Conns THEN heap.obj[c]
                ELSE [heap.obj[c] EXCEPT !.src = IF on THEN @ \cup {"timeout"} ELSE @ \ {"timeout"}]]]
  /\ UNCHANGED <<lib, kind, handle, held, run, tidy, stale>>

NotReffed(h, r) == h                                                    \* mutant: an iterator that takes none
Reffed(h, r) == [h EXCEPT !.res[r].refs = @ + 1]

\* esql_res_ref, and esql_res_row_iterator_new, of the result at hand or of one
\* already held.
Hold(r) ==
  /\ lib.up /\ Can("turn") /\ Spend("turn")
  /\ heap.res[r].st = "live"
  /\ held[r] > 0 \/ (run.at \in {"answered", "failed", "handler"} /\ run.what = r)
  /\ held' = [held EXCEPT ![r] = @ + 1]
  /\ heap' = Reffed(heap, r)
  /\ tidy' = (tidy /\ ~heap.res[r].error)
  /\ UNCHANGED <<lib, kind, handle, run, stale>>

\* esql_res_unref, and eina_iterator_free of such an iterator.
OwnersLive == lib.up /\ heap.obj[0].st = "live"
MayUnref(r) == heap.res[r].st = "live" /\ (heap.res[r].refs = 1 => OwnersLive)
Release(r) ==
  /\ held[r] > 0
  /\ MayUnref(r)
  /\ held' = [held EXCEPT ![r] = @ - 1]
  /\ heap' = Unreffed(heap, r)
  /\ UNCHANGED <<lib, kind, handle, run, budget, tidy, stale>>

\* No callback of the object is running and none will be called, it has no
\* descriptor and no result is left: the program may free it.  (For a pool
\* no event may be left either.)
SettledToFree ==
  /\ run.at \in {"loop", "handler"}
  /\ \A c \in Conns : heap.obj[c].src = {}
  /\ LiveResults = {}
  /\ IF kind = "pool" THEN run.at = "loop" /\ heap.events = <<>> ELSE Len(heap.events) < Wrap - 1

\* esql_free.
EsqlFree ==
  /\ handle
  /\ handle' = FALSE
  /\ heap' = Freed(heap)
  /\ tidy' = (tidy /\ SettledToFree)
  /\ UNCHANGED <<lib, kind, held, run, budget, stale>>

Program ==
  \/ EsqlInit \/ EsqlShutdown
  \/ \E k \in {"plain", "pool"} : New(k)
  \/ Connect \/ Disconnect \/ EsqlFree
  \/ \E c \in Conns : Query(c)
  \/ \E on \in BOOLEAN : TimeoutSet(on)
  \/ \E r \in Results : Hold(r) \/ Release(r)

----------------------------------------------------------------------------
(* The main loop: input and output, timers *)

Alive(c) == lib.up /\ heap.obj[c].st = "live" /\ heap.obj[0].st = "live"
AtLoop == run.at = "loop"
Callback(why, c, r) == run' = [at |-> why, c |-> c, what |-> r]

\* The job has run; the descriptor stays.
Served(c) == [heap EXCEPT !.obj[c].src = @ \ {"job"}]
Ready(c) == AtLoop /\ Alive(c) /\ heap.obj[c].src \cap {"fd", "job"} # {}

Waits(c) ==
  /\ Ready(c)
  /\ "job" \in heap.obj[c].src
  /\ heap' = Served(c)
  /\ UNCHANGED <<lib, kind, handle, held, run, budget, tidy, stale>>

\* esql_call_complete of a handshake: the CONNECT callback or event, of a pool
\* when it is the last member it waited for.
ReadyToTell(h) == kind = "plain" \/ (~h.obj[0].connected /\ h.econn = Size)
CompleteInit(c) ==
  LET g == [Served(c) EXCEPT !.obj[c].connected = TRUE,
                             !.econn = IF kind = "pool" THEN @ + 1 ELSE @]
      h == [g EXCEPT !.obj[0].connected = @ \/ ReadyToTell(g)]
  IN /\ Ready(c)
     /\ heap.obj[c].current = "init" /\ "fd" \in heap.obj[c].src
     /\ \/ ~ReadyToTell(g) /\ heap' = Next_(g, c) /\ UNCHANGED run
        \/ ReadyToTell(g) /\ heap' = Next_(Told(h, c), c) /\ UNCHANGED run
        \/ ReadyToTell(g) /\ heap' = h /\ Callback("ready", c, AboutObject)
     /\ UNCHANGED <<lib, kind, handle, held, budget, tidy, stale>>

\* esql_call_complete of a query: e->res if there is one, else a new result.
\* Without a callback the RESULT event takes it; no object counts that event.
Given(h, c, r) ==
  [Next_(h, c) EXCEPT !.events = Append(@, r), !.obj[0].res = None, !.obj[c].res = None]
CompleteQuery(c) ==
  LET kept == heap.obj[c].res # None
      r == IF kept THEN heap.obj[c].res ELSE NewResult
      h == Made(Served(c), r, kept /\ heap.res[r].error)
  IN /\ Ready(c)
     /\ heap.obj[c].current = "query" /\ heap.obj[c].connected
     /\ kept \/ Unused # {}
     /\ \/ heap' = Given(h, c, r) /\ UNCHANGED run
        \/ heap' = h /\ Callback("answered", c, r)
     /\ UNCHANGED <<lib, kind, handle, held, budget, tidy, stale>>

\* The last lines of esql_event_error, and of esql_timeout_cb.
AndRetry(h, c) ==
  {h} \cup {[h EXCEPT !.obj[c].src = @ \cup {timer}] : timer \in RetryTimers \ h.obj[c].src}
Down(h, c) == AndRetry(Disconnected(Told(h, c), c), c)

\* After the failure of a query the next call is taken, if the descriptor is
\* in order.
AfterFailure(h, c) == {Next_(h, c)} \cup Down(h, c)

\* esql_event_error, called by esql_connect_handler.
Fails(c) ==
  /\ Ready(c)
  /\ Can("turn") /\ Spend("turn")
  /\ IF heap.obj[c].current = "query"
     THEN \/ heap' \in AfterFailure(Served(c), c) /\ UNCHANGED run
          \/ /\ Unused # {}
             /\ heap' = Made(Served(c), NewResult, TRUE)
             /\ Callback("failed", c, NewResult)
     ELSE \/ heap' \in Down(Served(c), c) /\ UNCHANGED run
          \/ heap' = Served(c) /\ Callback("refused", c, AboutObject)
  /\ UNCHANGED <<lib, kind, handle, held, tidy, stale>>

\* esql_timeout_cb.
TimeoutFires(c) ==
  /\ AtLoop /\ Alive(c)
  /\ "timeout" \in heap.obj[c].src
  /\ heap' \in AndRetry(Disconnected([heap EXCEPT !.obj[c].src = @ \ {"timeout"}], c), c)
  /\ UNCHANGED <<lib, kind, handle, held, run, budget, tidy, stale>>

\* esql_reconnect_handler: a dial, or a DISCONNECT event.
RetryFires(c) == \E timer \in RetryTimers :
  LET h == [heap EXCEPT !.obj[c].src = @ \ {timer}]
  IN /\ AtLoop /\ Alive(c)
     /\ timer \in heap.obj[c].src
     /\ \/ heap' = [h EXCEPT !.obj[c].current = "init", !.obj[c].src = @ \cup {"fd"}] /\ UNCHANGED budget
        \/ Can("turn") /\ Spend("turn") /\ heap' = Told(h, c)
     /\ UNCHANGED <<lib, kind, handle, held, run, tidy, stale>>

\* The callback returns and the chain goes on with the object.
CallbackReturns ==
  LET c == run.c
      r == run.what
  IN /\ run.at \in CallbackKinds
     /\ Alive(c)
     /\ CASE run.at = "ready" -> heap' = Next_(heap, c)
          [] run.at = "refused" -> heap' \in Down(heap, c)
          [] run.at = "answered" ->
               /\ MayUnref(r)
               /\ heap' = [Next_(Unreffed(heap, r), c) EXCEPT !.obj[0].res = None, !.obj[c].res = None]
          [] run.at = "failed" -> MayUnref(r) /\ heap' \in AfterFailure(Unreffed(heap, r), c)
     /\ run' = Loop
     /\ UNCHANGED <<lib, kind, handle, held, budget, tidy, stale>>

----------------------------------------------------------------------------
(* The main loop: events *)

EventLives(event) == IF event = AboutObject THEN heap.obj[0].st = "live" ELSE heap.res[event].st = "live"

\* The handlers of an event are called ...
EventStarts ==
  /\ AtLoop
  /\ heap.events # <<>>
  /\ EventLives(Head(heap.events))
  /\ run' = [at |-> "handler", c |-> 0, what |-> Head(heap.events)]
  /\ heap' = [heap EXCEPT !.events = Tail(@)]
  /\ UNCHANGED <<lib, kind, handle, held, budget, tidy, stale>>

\* ... then its end callback: esql_fake_free or esql_res_free.
EventEnds ==
  /\ run.at = "handler"
  /\ EventLives(run.what)
  /\ IF run.what = AboutObject
     THEN heap' = FakeFreed(heap)
     ELSE MayUnref(run.what) /\ heap' = Unreffed(heap, run.what)
  /\ run' = Loop
  /\ UNCHANGED <<lib, kind, handle, held, budget, tidy, stale>>

----------------------------------------------------------------------------
(* Something freed is used *)

NamesFreed ==
  \/ AtLoop /\ \E c \in Conns : heap.obj[c].src # {} /\ ~Alive(c)
  \/ run.at \in CallbackKinds /\ ~Alive(run.c)
  \/ run.at \in {"answered", "failed"} /\ ~MayUnref(run.what)
  \/ AtLoop /\ heap.events # <<>> /\ ~EventLives(Head(heap.events))
  \/ run.at = "handler" /\ ~EventLives(run.what)
  \/ run.at = "handler" /\ run.what # AboutObject /\ ~MayUnref(run.what)
  \/ \E r \in Results : held[r] > 0 /\ ~MayUnref(r)

UsesFreed ==
  /\ NamesFreed
  /\ stale' = TRUE
  /\ UNCHANGED <<lib, kind, heap, handle, held, run, budget, tidy>>

Io(c) == Waits(c) \/ CompleteInit(c) \/ CompleteQuery(c) \/ Fails(c)
Timers(c) == TimeoutFires(c) \/ RetryFires(c)
Events == EventStarts \/ EventEnds

Next ==
  /\ ~stale
  /\ Program \/ CallbackReturns \/ Events \/ UsesFreed \/ \E c \in Conns : Io(c) \/ Timers(c)

Spec == Init /\ [][Next]_vars
=============================================================================
