------------------------------- MODULE Server -------------------------------
(***************************************************************************)
(* Interview.Web: the program that accepts HTTP requests on one thread and *)
(* handles each of them on another (main.cpp, evHttpResponse.hpp).         *)
(*                                                                         *)
(* The main thread starts the product handler, binds the socket and then   *)
(* alternates between one pass of libevent's loop, whose callback          *)
(* evHttpHandleRequest puts a std::async future in the list eventPool, and *)
(* a sweep over that list, which sends the responses that are ready.  The  *)
(* workers read the evhttp_request they were given and call the router.    *)
(*                                                                         *)
(* A request is a member of Requests; its kind stands for what handling it *)
(* does: "plain" writes a response (GET /, 404, 405, 400), "product" runs  *)
(* one of the two product handlers, which write only when the product      *)
(* handler returns SUCCESS (it returns NOT_IMPLEMENTED), and "payload" has *)
(* a body without a NUL byte, on which the worker throws.                  *)
(***************************************************************************)
EXTENDS Naturals, Sequences, FiniteSets, SequencesExt

CONSTANTS
  Requests,      (* the requests that clients send                         *)
  Kinds,         (* the kinds of request of this instance                  *)
  MaxThreads,    (* how many std::async tasks the runtime runs at a time   *)
  LoopMayFail,   (* may event_base_loop return -1?                         *)
  ConnStrings,   (* "clean": the connection string is the inside of a JSON
                    string; "raw": it holds a bare quote or backslash      *)
  ConfigClosing  (* the tokens main.cpp appends after that string          *)

ASSUME ServerAssumption ==
  /\ Kinds \subseteq {"plain", "product", "payload"}
  /\ MaxThreads \in Nat \ {0}
  /\ LoopMayFail \in BOOLEAN
  /\ ConnStrings \subseteq {"clean", "raw"}
  /\ ConfigClosing \in Seq({"quote", "brace"})

VARIABLES
  main,      (* where the main thread is                                   *)
  product,   (* ProductHandlerMSSql::state                                 *)
  router,    (* main's local router and productHandler: alive or destroyed *)
  conn,      (* conn[r]: "waiting" in the kernel, "held" by the program,
                "sending" its reply, or "freed" by libevent                *)
  kind,      (* kind[r]: what handling r does                              *)
  pool,      (* eventPool, by the request of each future                   *)
  it,        (* the sweep's iterator, an index into pool                   *)
  task,      (* task[r]: the std::async call of r and its future           *)
  outcome,   (* outcome[r]: what the finished worker left in the future    *)
  replies,   (* replies[r]: how often evhttp_send_reply was called         *)
  swept      (* history: the requests this sweep has looked at             *)

vars == <<main, product, router, conn, kind, pool, it, task, outcome,
          replies, swept>>

startup == <<product, router>>
threads == <<task, outcome>>

Running == {"queued", "reading", "handling"}   \* wait_for is not ready

TypeOK ==
  /\ main \in {"init", "bind", "loop", "sweep", "closing", "exited",
               "terminated"}
  /\ product \in {"Uninitialized", "Initialized"}
  /\ router \in {"alive", "destroyed"}
  /\ conn \in [Requests -> {"waiting", "held", "sending", "freed"}]
  /\ kind \in [Requests -> Kinds]
  /\ pool \in Seq(Requests)
  /\ it \in Nat \ {0}
  /\ task \in [Requests -> Running \cup {"none", "ready", "taken", "erased"}]
  /\ outcome \in [Requests -> {"none", "written", "silent", "thrown"}]
  /\ replies \in [Requests -> Nat]
  /\ swept \in SUBSET Requests

Init ==
  /\ main = "init"
  /\ product = "Uninitialized"
  /\ router = "alive"
  /\ conn = [r \in Requests |-> "waiting"]
  /\ kind \in [Requests -> Kinds]
  /\ pool = <<>>
  /\ it = 1
  /\ task = [r \in Requests |-> "none"]
  /\ outcome = [r \in Requests |-> "none"]
  /\ replies = [r \in Requests |-> 0]
  /\ swept = {}

-----------------------------------------------------------------------------
(* Start of main() and its ways out                                        *)

(* json::parse of the text main() builds: an object that is open, a string *)
(* inside it, and what follows.  One closing quote and one brace make it a *)
(* JSON object, provided the string can stand inside quotes.               *)
IsJsonObject(connString, closing) ==
  /\ connString = "clean"
  /\ closing = <<"quote", "brace">>

(* Every return destroys main's locals, router and productHandler; the     *)
(* static destructors, eventPool's among them, run after that.             *)
Return ==
  /\ main' = "closing"
  /\ router' = "destroyed"

(* ProductHandlerMSSql::Init, and main's return 1 when it refuses.         *)
InitProductHandler ==
  /\ main = "init"
  /\ \E connString \in ConnStrings :
       \/ /\ IsJsonObject(connString, ConfigClosing)
          /\ product' = "Initialized"
          /\ main' = "bind"
          /\ UNCHANGED router
       \/ /\ ~ IsJsonObject(connString, ConfigClosing)
          /\ Return
          /\ UNCHANGED product
  /\ UNCHANGED <<conn, kind, pool, it, threads, replies, swept>>

BindSucceeds ==
  /\ main = "bind"
  /\ main' = "loop"
  /\ UNCHANGED <<startup, conn, kind, pool, it, threads, replies, swept>>

(* The socket could not be bound: Shutdown, return 0.                      *)
BindFails ==
  /\ main = "bind"
  /\ product' = "Uninitialized"
  /\ Return
  /\ UNCHANGED <<conn, kind, pool, it, threads, replies, swept>>

(* event_base_loop returned -1: Shutdown, return 1, whatever is running.   *)
LoopFails ==
  /\ main = "loop"
  /\ LoopMayFail
  /\ product' = "Uninitialized"
  /\ Return
  /\ UNCHANGED <<conn, kind, pool, it, threads, replies, swept>>

(* A variant for mutation: the list drops its futures without joining.     *)
DropFront ==
  /\ main = "closing"
  /\ pool # <<>>
  /\ pool' = Tail(pool)
  /\ UNCHANGED <<main, startup, conn, kind, it, threads, replies, swept>>

(* ~list() destroys the futures from the front; the destructor of one that *)
(* std::async returned waits for its task.                                 *)
JoinFront ==
  /\ main = "closing"
  /\ pool # <<>>
  /\ task[Head(pool)] \notin Running
  /\ pool' = Tail(pool)
  /\ UNCHANGED <<main, startup, conn, kind, it, threads, replies, swept>>

Exit ==
  /\ main = "closing"
  /\ pool = <<>>
  /\ main' = "exited"
  /\ UNCHANGED <<startup, conn, kind, pool, it, threads, replies, swept>>

-----------------------------------------------------------------------------
(* One pass of event_base_loop: libevent's callbacks run on main           *)

(* evHttpHandleRequest: std::async starts a task for the request and its   *)
(* future joins the list.                                                  *)
Deliver(r) ==
  /\ main = "loop"
  /\ conn[r] = "waiting"
  /\ conn' = [conn EXCEPT ![r] = "held"]
  /\ task' = [task EXCEPT ![r] = "queued"]
  /\ pool' = Append(pool, r)
  /\ UNCHANGED <<main, startup, kind, it, outcome, replies, swept>>

(* evhttp_send_done: the reply is on the wire (or the peer is gone), and   *)
(* libevent frees the request.                                             *)
SendDone(r) ==
  /\ main = "loop"
  /\ conn[r] = "sending"
  /\ conn' = [conn EXCEPT ![r] = "freed"]
  /\ UNCHANGED <<main, startup, kind, pool, it, threads, replies, swept>>

(* A variant for mutation: the sweep begins one before the first entry.    *)
SweepFromBefore ==
  /\ main = "loop"
  /\ main' = "sweep"
  /\ it' = 0
  /\ swept' = {}
  /\ UNCHANGED <<startup, conn, kind, pool, threads, replies>>

LoopReturns ==
  /\ main = "loop"
  /\ main' = "sweep"
  /\ it' = 1
  /\ swept' = {}
  /\ UNCHANGED <<startup, conn, kind, pool, threads, replies>>

-----------------------------------------------------------------------------
(* The sweep: one visit of the iterator at a time                          *)

Current == pool[it]

Visit ==
  /\ main = "sweep"
  /\ it <= Len(pool)
  /\ swept' = swept \cup {Current}

Advance == it' = it + 1

(* process_response: evhttp_send_reply hands the request back to libevent. *)
SendReply(r) ==
  /\ conn' = [conn EXCEPT ![r] = "sending"]
  /\ replies' = [replies EXCEPT ![r] = @ + 1]

(* A variant for mutation: the sweep answers without asking the future.    *)
AnswerAtOnce ==
  /\ Visit
  /\ task[Current] \in Running
  /\ SendReply(Current)
  /\ Advance
  /\ UNCHANGED <<main, startup, kind, pool, threads>>

(* The future is not ready: look again in the next sweep.                  *)
VisitRunning ==
  /\ Visit
  /\ task[Current] \in Running
  /\ Advance
  /\ UNCHANGED <<main, startup, conn, kind, pool, threads, replies>>

(* A variant for mutation: the entry stays in the list after the reply.    *)
AnswerAndKeep ==
  /\ Visit
  /\ task[Current] = "ready"
  /\ outcome[Current] = "written"
  /\ SendReply(Current)
  /\ Advance
  /\ UNCHANGED <<main, startup, kind, pool, threads>>

(* A variant for mutation: erase, and then ++ as well.                     *)
AnswerAndSkip ==
  /\ Visit
  /\ task[Current] = "ready"
  /\ outcome[Current] = "written"
  /\ SendReply(Current)
  /\ task' = [task EXCEPT ![Current] = "erased"]
  /\ pool' = RemoveAt(pool, it)
  /\ Advance
  /\ UNCHANGED <<main, startup, kind, outcome>>

(* A variant for mutation: the entry is erased before the reply is sent.   *)
EraseUnanswered ==
  /\ Visit
  /\ task[Current] = "ready"
  /\ outcome[Current] = "written"
  /\ task' = [task EXCEPT ![Current] = "erased"]
  /\ pool' = RemoveAt(pool, it)
  /\ UNCHANGED <<main, startup, conn, kind, it, outcome, replies>>

(* get() returns a response that was written: send it and erase the entry; *)
(* the iterator stands on the next one.                                    *)
VisitWritten ==
  /\ Visit
  /\ task[Current] = "ready"
  /\ outcome[Current] = "written"
  /\ SendReply(Current)
  /\ task' = [task EXCEPT ![Current] = "erased"]
  /\ pool' = RemoveAt(pool, it)
  /\ UNCHANGED <<main, startup, kind, it, outcome>>

(* A variant for mutation: erase the entry whether or not it was answered. *)
EraseSilent ==
  /\ Visit
  /\ task[Current] = "ready"
  /\ outcome[Current] = "silent"
  /\ task' = [task EXCEPT ![Current] = "erased"]
  /\ pool' = RemoveAt(pool, it)
  /\ UNCHANGED <<main, startup, conn, kind, it, outcome, replies>>

(* get() returns a response nobody wrote: the entry stays for another try, *)
(* but get() has taken the future's shared state.                          *)
VisitSilent ==
  /\ Visit
  /\ task[Current] = "ready"
  /\ outcome[Current] = "silent"
  /\ task' = [task EXCEPT ![Current] = "taken"]
  /\ Advance
  /\ UNCHANGED <<main, startup, conn, kind, pool, outcome, replies>>

(* get() rethrows what the worker threw, and nothing in main() catches it; *)
(* wait_for throws future_error(no_state) on a future already taken.       *)
VisitThrows ==
  /\ Visit
  /\ \/ task[Current] = "ready" /\ outcome[Current] = "thrown"
     \/ task[Current] = "taken"
  /\ main' = "terminated"
  /\ UNCHANGED <<startup, conn, kind, pool, it, threads, replies>>

SweepEnds ==
  /\ main = "sweep"
  /\ it > Len(pool)
  /\ main' = "loop"
  /\ UNCHANGED <<startup, conn, kind, pool, it, threads, replies, swept>>

-----------------------------------------------------------------------------
(* The workers: one std::async task per request                            *)

Alive == main \notin {"exited", "terminated"}

WorkerOnly == UNCHANGED <<main, startup, conn, kind, pool, it, replies, swept>>

OnThread == {q \in Requests : task[q] \in {"reading", "handling"}}

(* The runtime's thread pool starts queued tasks, MaxThreads at a time.    *)
StartTask(r) ==
  /\ Alive
  /\ task[r] = "queued"
  /\ Cardinality(OnThread) < MaxThreads
  /\ task' = [task EXCEPT ![r] = "reading"]
  /\ UNCHANGED outcome
  /\ WorkerOnly

Finish(r, how) ==
  /\ task' = [task EXCEPT ![r] = "ready"]
  /\ outcome' = [outcome EXCEPT ![r] = how]

(* The lambda up to the call of the router: it reads the evhttp_request.   *)
(* resize(find(NUL)) throws length_error when the body holds no NUL.       *)
ReadRequest(r) ==
  /\ Alive
  /\ task[r] = "reading"
  /\ \/ /\ kind[r] = "payload"
        /\ Finish(r, "thrown")
     \/ /\ kind[r] # "payload"
        /\ task' = [task EXCEPT ![r] = "handling"]
        /\ UNCHANGED outcome
  /\ WorkerOnly

(* Mux::handle_request, by what is left in the response.                   *)
HandleRequest(r) ==
  /\ Alive
  /\ task[r] = "handling"
  /\ router = "alive"
  /\ \/ kind[r] = "plain" /\ Finish(r, "written")
     \/ kind[r] = "product" /\ Finish(r, "silent")
  /\ WorkerOnly

(* The same call through the pointer to a destroyed router: undefined.  It *)
(* may still finish in any way, or take the process down.                  *)
HandleDangling(r) ==
  /\ Alive
  /\ task[r] = "handling"
  /\ router = "destroyed"
  /\ \/ /\ \E how \in {"written", "silent", "thrown"} : Finish(r, how)
        /\ UNCHANGED main
     \/ /\ main' = "terminated"
        /\ UNCHANGED threads
  /\ UNCHANGED <<startup, conn, kind, pool, it, replies, swept>>

-----------------------------------------------------------------------------
Callback(r) == Deliver(r) \/ SendDone(r)

Sweep ==
  \/ VisitRunning
  \/ VisitWritten
  \/ VisitSilent
  \/ VisitThrows
  \/ SweepEnds

Startup == InitProductHandler \/ BindSucceeds \/ BindFails

Closing == JoinFront \/ Exit

Worker(r) == ReadRequest(r) \/ HandleRequest(r) \/ HandleDangling(r)

Next ==
  \/ Startup
  \/ LoopFails
  \/ LoopReturns
  \/ Sweep
  \/ Closing
  \/ \E r \in Requests : Callback(r) \/ StartTask(r) \/ Worker(r)

(* The main thread never blocks in its loop (EVLOOP_NONBLOCK, wait_for of  *)
(* zero), and the operating system runs every thread: weak fairness.  A    *)
(* callback is due only while main is inside event_base_loop, which runs   *)
(* every event that is ready, and a queued task only while a thread is     *)
(* free: both come and go, and both get their turn, so strong fairness.    *)
Fairness ==
  /\ WF_vars(Startup)
  /\ WF_vars(LoopReturns)
  /\ WF_vars(Sweep)
  /\ WF_vars(Closing)
  /\ \A r \in Requests : SF_vars(Deliver(r)) /\ SF_vars(SendDone(r))
  /\ \A r \in Requests : SF_vars(StartTask(r)) /\ WF_vars(Worker(r))

Spec == Init /\ [][Next]_vars /\ Fairness

-----------------------------------------------------------------------------
(* Safety                                                                  *)

Serving == main \in {"loop", "sweep"}

(* A worker reads evhttp_request (main.cpp:64-118) only while the program  *)
(* holds it: once evhttp_send_reply gives it back, libevent may free it.   *)
WorkerOwnsRequest ==
  \A r \in Requests : task[r] \in Running => conn[r] = "held"

(* No request is answered twice, and none whose handler has not written a  *)
(* response (evHttpResponse.hpp:19-66 against the sweep in main.cpp).      *)
AtMostOneReply ==
  \A r \in Requests :
    /\ replies[r] <= 1
    /\ replies[r] = 1 => outcome[r] = "written"

(* While the server serves, eventPool holds the requests the program has   *)
(* not answered, each once: nothing is leaked, nothing is kept too long.   *)
PoolIsExact ==
  Serving =>
    /\ ToSet(pool) = {r \in Requests : conn[r] = "held"}
    /\ IsInjective(pool)

(* Erasing while iterating skips no entry and repeats none: what is behind *)
(* the iterator was looked at in this sweep, what is ahead was not.        *)
SweepIsExact ==
  main = "sweep" =>
    \A i \in 1..Len(pool) : i < it <=> pool[i] \in swept

(* The process does not exit while one of its tasks runs: eventPool's      *)
(* destructor joins them all.                                              *)
ExitJoinsWorkers ==
  main = "exited" => \A r \in Requests : task[r] \notin Running

(* The comment in the sweep (main.cpp:246-247) says that a response that   *)
(* was not sent is tried again later: the program then lives to do it.     *)
UnsentIsTriedAgain ==
  \A r \in Requests : task[r] = "taken" => main # "terminated"

-----------------------------------------------------------------------------
(* Liveness and refinement                                                 *)

(* When all handlers write, every request that libevent delivered gets its *)
(* reply on the wire, unless the event loop breaks first.                  *)
EveryRequestAnswered ==
  (\A r \in Requests : kind[r] = "plain")
    => \A r \in Requests : conn[r] = "held" ~> (conn[r] = "freed" \/ ~ Serving)

StageOf(c) ==
  CASE c = "waiting" -> "new"
    [] c = "held" -> "accepted"
    [] c \in {"sending", "freed"} -> "answered"

ServiceOf(m) ==
  CASE m \in {"init", "bind"} -> "starting"
    [] m \in {"loop", "sweep"} -> "up"
    [] m \in {"closing", "exited"} -> "closed"
    [] m = "terminated" -> "crashed"

Service == INSTANCE RequestService
             WITH stage <- [r \in Requests |-> StageOf(conn[r])],
                  service <- ServiceOf(main)

(* The program implements the service it promises: it answers only what it *)
(* accepted, is closed and crashes only for the reasons the service may,   *)
(* and answers what it can for as long as it is up.  A broken event loop   *)
(* is one of these reasons: it tears down the router under the workers     *)
(* (main.cpp:229-234), which may answer no more but may crash the process. *)
ImplementsService == Service!Spec
=============================================================================
