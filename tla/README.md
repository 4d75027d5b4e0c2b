# Verification of Interview.Web and its router

TLA+ models of the programs in `src/Development Project`: the HTTP server
`Interview.Web`, the router library `Sparcpoint.Core.Lib` it is built on, and the
product handler it calls. TLC checks the models on small instances; TLAPS proves for
every instance what the server promises, that the radix tree is a table of routes and that
a lookup in it finds the most specific one, which middlewares and which route a request
gets, what the routing context holds on its way, and what a request and a response
become on the wire.

File names below are relative to `src/Development Project`.

## 1. The system

`Interview.Web` reads a TOML file, builds a routing table, starts a product handler and
serves HTTP with libevent. About 5200 lines are the project's own; `vendor/` holds fmt,
libevent, libsodium, nlohmann json, spdlog and toml++. The repository has no tests and is
built with MSVC only, so `std::async` means the Windows thread pool.

### Components, their state and what makes them correct

| Component | State | Operations | Correct when |
|---|---|---|---|
| Request server (`Interview.Web/main.cpp`, `evHttpResponse.hpp`) | `eventPool`, a static `std::list<std::future<...>>`; one task and one `evhttp_request` per request; main's locals | start, bind, one pass of the loop, `evHttpHandleRequest`, sweep, reply, return, static destruction | a worker only touches a request the program holds; each request is answered at most once, and every one that can be is; the pool is exactly what is unanswered; the process does not end under a worker |
| Radix tree (`Sparcpoint.Core.Lib/router.tree.*`) | nested nodes: type, label, tail, prefix, expression, endpoints by method, four groups of children | `insert_route`, `add_child`, split, `nodes_sort`, `find_route`, `find_pattern`, `get_routes` | it holds the table of what was registered, whatever the order; lookup finds a match if there is one, the most specific one, with the right values |
| Mux (`router.mux.*`, `router.cpp`) | middlewares, parent, inline flag, shared tree, captured chain, two fallback handlers | `use`, `with`, `group`, `handle` and its fronts, `mount`, `route`, `set_not_found`, `set_method_not_allowed`, `match`, `walk_routes`, `handle_request` | every accepted middleware runs once, in order; a mounted route is reached with the rest of its path; 404 and 405 are told apart |
| RoutingContext, RouteParams (`router.context.*`, `router.RouteParams.*`) | path and method on the way, stacks of parameters, matched patterns, the 405 hint | `get_url_param`, `join_route_patterns`, `get_route_params`, `reset` | keys and values stay aligned across sub-routers; the innermost value of a key is the one that is read |
| Application middlewares (`Interview.Web/middlewares.hpp`) | none | trim a slash, log, read an id | no access outside the path; a handler gets the id that its own pattern took, or is not called |
| HTTP messages (`http.*`, `uri.h`, `context.h`) | header multimap, URI parts, method | parse, canonicalise, get and set | names have no case, whatever the spelling; the parts of a target are all of it |
| Status codes (`StatusCode.*`) | two tables | code to text and back | each named code can be sent |
| String utilities (`StrUtils.h`) | none | replace, join | `//` and `/*/` are folded away |
| Product handler (`Sparcpoint.ProductsHandler.LIb`) | `state`: Uninitialized or Initialized | `Init`, `Shutdown`, product calls that return NOT_IMPLEMENTED | only an initialised handler is called |
| Configuration (`Interview.Web/config.*`) | a function static with a mutex | load, get | |
| Inventory database (`Sparcpoint.Inventory.Database`) | seven tables | foreign keys, cascades | no orphans |

### How they interact

The main thread alternates between `event_base_loop(EVLOOP_NONBLOCK)` and a sweep over
`eventPool`. libevent calls `evHttpHandleRequest` on the main thread; it starts a
`std::async` task and appends its future. The task reads the `evhttp_request`, builds a
`http::Request` and calls `Router::route`, which is `Mux::handle_request`: the chain of
middlewares, then the tree, then the endpoint, which is a handler of the application or a
sub-router. The handlers call the product handler through a captured reference. The sweep
takes a response with `get()`, gives it to libevent with `process_response`, and erases
the future. There is no lock between the two threads: the future and the pool are all the
synchronisation there is.

What is hard here: the interleaving of the sweep, libevent's callbacks and the workers;
erasing from the list that is being walked; a worker that throws, or that writes nothing;
the ways out of `main` with workers running; a tree whose lookup depends on an order that
every insertion restores by hand; a search that backtracks over one shared list of
values; chains that are captured at registration and run much later.

The hazards are listed line by line in `PROJECT.json`, with the properties that watch
them, or the reason why none does yet.

## 2. Modules

| Module | Models | Used by |
|---|---|---|
| `Server` | `main.cpp`, `evHttpResponse.hpp`, the part of the product handler and of libevent that they use | `MCServer`, `ServerProofs` |
| `RequestService` | what the server promises a client: no threads, no pool | `Server`, by `INSTANCE` |
| `ServerProofs` | theorems about `Server` | |
| `RoutePatterns` | patterns as `pat_next_segment`, `pat_param_keys` and `mount` see them; what a pattern filled with values is | `RouteTree`, `Routing`, `PatternLemmas` |
| `RouteTree` | `router.tree.cpp`, and how `handle_impl` and `mount` fill the tree | `RouteCalls`, `MCRouteTree`, `RouteLookupProofs` |
| `RouteCalls` | `RouteTree` with a history of the calls of `insert_route`: which method and pattern, and whether it returned | `MCRouteCalls`, `RouteTreeProofs` |
| `RouteTable` | what the tree stands for: a table by shape of pattern and method, and what a registration does to it | `RouteCalls`, by `INSTANCE` |
| `RouteTreeProofs` | theorems about `RouteTree`: the structure of the tree, the table it implements | `RouteLookupProofs` |
| `RouteLookupProofs` | theorems about `RouteTree`: what the lookups find, what a mount overwrites | |
| `Mux` | `router.mux.cpp`: building muxes and the way of a request | `MCMux`, `MuxProofs` |
| `MuxProofs` | theorems about `Mux` | |
| `Routing` | one request with its data: `router.context.*`, `find_route`, `mount`'s function, `middlewares.hpp` | `RouteMatch`, `RoutingProofs` |
| `RouteMatch` | `match`, over the trees and the way of a request in `Routing` | `MCRouting` |
| `RoutingProofs` | theorems about `Routing` | |
| `Exchange` | one request and its response as data: `evHttpHandleRequest`, `http.h`, `process_response` | `MCExchange`, `ExchangeProofs` |
| `Header`, `StatusCode` | the class `Header`, the tables of `StatusCode.cpp` | `Exchange` |
| `Uri` | `Uri::parse` | `Exchange`, by `INSTANCE` |
| `HeaderFields` | what `Header` promises: fields by name, no canonical keys | `Exchange`, by `INSTANCE` |
| `ExchangeProofs` | theorems about `Exchange`: headers and statuses, what is received and sent, what `Uri::parse` makes of a target | |
| `SequenceLemmas`, `PatternLemmas` | lemmas about sequences and about patterns | the proofs |
| `StrUtils` | `replace_copy`, `iequals`, and `std::find` and `std::from_chars` as they are used | `Routing`, `Uri` |
| `MC...` | constants for TLC | the `.cfg` files |

Operators with the suffix of a bug in their name (each is preceded by "A variant for
mutation") are not part of the models. Each is a plausible slip in the definition that
follows it, and is what `PROJECT.json` puts in its place to see that a property notices.

### Server

| Variable | In the code |
|---|---|
| `main` | where `main()` is: before `Init`, before the bind, inside `event_base_loop`, in the sweep, past a return, gone |
| `product` | `ProductHandlerMSSql::state` |
| `router` | whether the locals `router` and `productHandler` exist |
| `conn[r]` | who has the `evhttp_request`: not delivered, the program, libevent sending, freed |
| `kind[r]` | what handling `r` does: `plain` writes a response, `product` calls the product handler and writes nothing, `payload` throws at `main.cpp:115` |
| `pool`, `it` | `eventPool` and the sweep's iterator |
| `task[r]`, `outcome[r]` | the `std::async` task and its future: queued, reading the request, in the router, ready, `get()` done, erased; and what was left in it |
| `replies[r]`, `swept` | history: calls of `evhttp_send_reply`, entries seen in this sweep |

Each visit of the iterator is one action, so workers, which need no lock, interleave with
it; callbacks do not, because they run on the main thread inside the loop. A call through
the pointer to the destroyed router (`HandleDangling`) is undefined behaviour and may end
in any outcome or take the process down. It happens after the return on a broken event
loop (`main.cpp:229-234`), which destroys the router while workers run; so `RequestService`
has a service that is `closed` with accepted requests left and may still crash
(`CrashAfterClose`). libevent is modelled from how it is used: it
delivers a request, and frees it after the reply.

**The configuration text.** `main.cpp:140-141` closes the JSON text with one quote too
many, so with the constant `ConfigClosing` as the code has it (`CodeClosing`) the program
returns 1 from its start and serves nothing. The server runs give the constant the value that
a corrected literal would have (`RepairedClosing`), because everything behind the start would
be unreachable otherwise.
The theorems hold for both.

**Abstracted:** headers, status lines and bodies, which are `Exchange`'s; logging. A client
sends finitely many requests.

### RouteTree

A pattern is a sequence of tokens (a character, `{key}`, `{key:rex}`, `*`, or a brace
that nothing closes), a path a sequence of characters; which expressions compile and what
they accept are constants. The tree is a function from the names of its nodes to the nodes,
and a node has the names of its children where the code has pointers. A node is named by
what the way to it from the root stands for, and no insertion changes that: the node that is
split is the lower half afterwards, ends where it ended and keeps its name, and the new
upper half has a shorter one. A name is used as a pointer is, to get at the node and for
nothing else. The model keeps the order of the code's steps: a throw in the middle of
`insert_route` leaves the nodes it has split or attached, the loop of `nodes_sort` that runs from the back is there
with its swaps, lookup is the binary search and the serial loop, with the second try of
the last child that follows the loop. A mount is a check and then up to three separate
insertions.

`find_pattern` drops a parameter of the pattern with `find('}') + 1`
(`router.tree.cpp:718`), which ends at the first closing brace, also at one of the expression's own, as in
`{id:[0-9]{3}}`. The constant `Behind` gives what is then left of such a token, and
`BehindBrace` puts it in front of the rest: a mount on a pattern like that does not see the one
before it. No pattern of the runs has such an expression; the theorems hold for any `Behind`.

The code's loops and its recursion are recursive functions: over the rounds of a loop
(`Rounds`), over the nodes that `add_child` makes of one pattern (`WithChain`), over the
levels of the tree that a search has below it (`Find`, `FindPattern`). As many levels as the
longest pattern is long (`Height`) are enough for every tree that registrations build,
because each node is named by a part of a pattern (`Typed`, section 4).

Three choices are worth knowing. `std::sort` is not stable by contract; for as few
children as a group has here (up to 32) the MSVC library uses insertion sort, which is; the
theorems take the sort to be stable for groups of any size. Two
patterns have the same *shape* when they differ only in the names of their parameters,
which is what the tree goes by. And the meaning of a pattern (`ValueFits`) is written
independently of the search: a value is non-empty, does not contain the character after
the parameter, and no slash unless there is an expression. Two parameters side by side
promise nothing, as the comment at `router.tree.cpp:402` says.

The assumptions say what a character is. `CharAssumption`: the alphabet is a list without
repetition and contains the slash, the star and the open brace. `LetterAssumption`: a
parameter, an expression and an unclosed brace are no characters, and no expression is a
single character, because `pat_next_segment` puts `^` and `$` around it.
What is left of a token behind a brace (`Behind`) is again made of these. `CallAssumption`: a program makes finitely many calls with finitely many patterns, which are
sequences of these; an open brace is no character of a pattern, as it begins a parameter.

### Mux

A path is a sequence of segments (the constant `Segments`; `MuxAssumption` says that
`""` and `*` are two of them, and that no mount is on a pattern that ends with `*`, which
the tree would refuse). A mux has its middlewares, whether its chain is built,
the chain, its parent and its two fallbacks; `table[m]` are the endpoints in the tree `m`
made, which stands for a `RouteTree` (that a tree is such a table is `TreeImplementsTable`).
An inline mux shares the table of its parent. `set_method_not_allowed` assigns
`notFoundHandler`, as `router.mux.cpp:422` does; `update_subroutes` has no effect, because
the walk behind `get_routes` is a stub that visits nothing. A request goes through
`Enter` (the chain) and `Route` (the tree and the endpoint), as often as there are
mounts. The program mounts a sub-router once, as `route()` does.

Not in the module: `match` and the parameters' values, which are `Routing`'s, and
`walk_routes`.

### Routing

`Mux` asks which chain runs and which mux is reached, with a table for a tree. `Routing`
asks what the request carries, with the trees themselves: `tree[m]` is what the
registrations of `m` build, and each lookup is a search in it. What a tree is and does
are constants of the module (`NewTree`, `TreeInsert`, `TreeFind`, `TreeFindPattern`), so
that its theorems hold for any tree that does what is assumed of it. `MCRouting.cfg` gives them
`RouteTree`'s `Insert` and `Find`: TLC follows a request through the real trees. The
proofs need of a tree what `TreeAssumption` says and no more: whatever a lookup finds was
registered for the method, and the values it found make the pattern into the path. TLC
evaluates that assumption with the real trees, for every program and for every path that
a router of it can be asked for (`RoutePaths`).

| Variable | In the code |
|---|---|
| `program` | what each mux registers: handlers, behind `extract_id` or not, and mounts |
| `tree[m]` | `Mux::tree`, built from it before the first request |
| `request` | `Request::url.path` and `method` |
| `rctx` | `RoutingContext`: `routePath`, `routeParams`, `urlParams`, `routePatterns`, the hint |
| `at`, `phase`, `end` | the mux that has the request, how far it is there, the handler it found |
| `id`, `status` | what `extract_id` put into the context; the answer |
| `trail` | history: pattern and values of each lookup, for the properties |

A request is received, trimmed and logged by the root's middlewares, and then goes
through `RouteHttp` and `EnterSubrouter` as often as there are mounts, through `ExtractId`
if the route has it, to `Handle`. `Init` takes the programs that start: `Accepted` is
mount's own check. An empty path makes `trim_trailing_slash` read outside of the string;
what is there decides whether the request goes on or the resize throws, so
`TrimTrailingSlash` has both.

Left out: the parameter `routePattern` (the last of `routePatterns`), the minus sign that
`from_chars` takes, what is printed, custom fallbacks (see `Mux`). Of the two answers that
`route_http` gives to a method that is not allowed the second stays, a 404.

`RouteMatch` adds `Mux::match`, which walks the same trees without a request. It is
RECURSIVE, because programs nest to any depth, and for TLC.

### Exchange, Header, Uri, StatusCode

One request from libevent and one response to it. The three phases are the parts of
`main.cpp:63-121` in their order, `ParseTarget`, `ReadLine` for each header and `ReadBody`;
then the calls of a handler on the response, any script of `add`, `set`, `del`, a new
status and `write`; and then `ProcessResponse`. Whatever throws ends in the phase `thrown`,
which is where `Server` takes over.

| Variable | In the code |
|---|---|
| `exchange` | what the client sends and the handler does; chosen at the start |
| `phase`, `step` | how far it is; header lines and calls that are done |
| `url`, `asked`, `body` | `Request::url`, `header`, `body` |
| `reply`, `status`, `written` | `Response::header`, `status`, `responseReadyToSend` |
| `wire` | the lines, the status and the reason that libevent was given |

A key is a sequence of characters, with the table of token characters and the two cases
as constants, because what `gen_canonical_key` does to it is what the properties are
about. A value is not looked into. A body is a sequence of NULs and other bytes. A reason is stood for
by the code whose text it is; for a status outside of the table `process_response` uses
an uninitialized variable, so the reason is that of any code, or there is none and `str()`
throws. `Uri::parse` works with positions; the strings whose end would lie before their
start (`Refused`) are what the constructor throws for.

## 3. Runs

Deadlock is off everywhere: the server exits, the routing table gets its last call, a
request ends, a response is sent or not.

| Run | Instance | Shows |
|---|---|---|
| `server` | 4 requests, all three kinds, 2 threads, the loop may break; 1.2 million states | `TypeOK`; `WorkerOwnsRequest`, a worker only runs on a request the program holds; `AtMostOneReply`; `PoolIsExact`, while serving the pool is the set of unanswered requests; `SweepIsExact`, erasing while iterating skips and repeats nothing; `ExitJoinsWorkers` |
| `server_service` | 2 requests of all kinds, 1 thread, the loop may break | `ImplementsService`: safety and fairness of `RequestService`, also behind a broken loop, where the router is gone under its workers; `EveryRequestAnswered`, if all requests write, every delivered one gets its reply on the wire, or the program serves no longer |
| `server_unsent` | 2 requests | *violated*: what `main.cpp:246-247` says of unsent responses |
| `routes` | 16 patterns and 5 mounts, 3 calls; 44 thousand states | `TypeOK`; `TreeOrdered`, what the searches rely on; `ImplementsTable`, each registration does to the table what it was called for, or throws and changes nothing; `MountNeverOverwrites` |
| `routes_lookup` | 13 patterns, 31 paths, 3 calls | `LookupSound`, `LookupComplete`, `MostSpecific`, `HintExact`, against the patterns' meaning |
| `routes_empty` | 3 patterns, 2 calls | *violated*: what `router.tree.cpp:540-541` says of empty values |
| `routes_fresh` | as `routes`, 2 calls | *violated*: what `router.mux.cpp:192-193` says of mounting on a pattern that exists |
| `mux` | a root and two more muxes, 2 middlewares, 5 calls, then a request | `TypeOK`; `MiddlewaresComplete`, what `use` and `with` accepted runs, once, in order, and nothing else; `RouteTrail`, the patterns on the way put together are the path; `MountedRoutesReached` |
| `routing` | 1920 programs of three muxes, 13 paths, 2 methods; 316 thousand states | `TypeOK`; `StacksAligned`, keys, values and patterns belong together after any mounts; `InnermostWins`, `get_url_param` gives the innermost router's value; `PathIsSpelled`, the stacks put together are the path; `IdIsExact`, for every id but 0; `MatchAgrees`, `match` says what `handle_request` does, but for the two places in section 5; `JoinedSpells`, what `join_route_patterns` folds away is no part of the path |
| `routing_zero` | as `routing` | *violated*: what `middlewares.hpp:119` says of an id that is 0 |
| `exchange` | 120 thousand states: targets, header lines, bodies and handlers, one varied at a time | `TypeOK`; `ImplementsFields`, both headers are the tables of fields that `HeaderFields` describes; `RequestFieldsExact`; `WireExact`, the line of a name reads as the values the handler last meant, joined; `OneLinePerName`; `PathIsWhole` and `PartsSpellTarget`, parsing loses nothing; `ReplyGoesOut`, `str()` throws for no named status |
| `mux_not_allowed` | 1 call, 2 methods | *violated*: what `router.mux.cpp:504-505` says of the 405 handler |

### The bounds, and why they are enough

*Server.* Requests are independent but for the pool and the threads. Four are one before,
one at and one behind the iterator with one more to be delivered, and with two threads a
task can be queued, reading and handling at once. The run of the refinement and of liveness
is smaller, because liveness is checked without symmetry, and the third request with a
second thread costs more than it can show: with one thread for two requests a queued task
really has to wait. The loop may break in both, also with both workers running. The safety
properties and the step part of the refinement are proved for every value.

*RouteTree.* Three registrations make every node that can change shape do so: a node is
created, split, and extended on either side of the split, in every order, with every kind of
child. The patterns contain every type of node, parameters that differ in name only (so that
one replaces the other) or in tail, and every way in which an insertion is refused (no leading slash, an unclosed
brace, a wildcard that is not last, a bad expression, a key twice). The 31 paths of the
lookup are all paths of up to two characters after the slash and some longer ones chosen
to make the search give up a static, an expression and a parameter branch in turn.

*Mux.* Five calls are enough for an inline mux of an inline mux with a middleware each, a
route and a mount; three muxes for a mount in a mount. One method suffices for
the passing run: what depends on two, the choice between 404 and 405, is the other run.

*Routing.* A root and two sub-routers make a mount in a mount. Each mux has one
registration, or a mount and a handler in either order, out of a menu that has a
mount on a static pattern, on a parameter, on two and on the root, handlers with a parameter or an expression
of the same name as the outer one's, wildcards, and one that takes the place of a mount's
wildcard. The paths go up to three routers deep, with and without a slash at the end,
empty, and with numbers that are 0, begin with one, or are within or beyond `LongLongMax` (11
here, so that two digits are enough to go beyond it). No property looks at more than the stacks that two mounts leave.

*Exchange.* What is varied are targets, lines, bodies and scripts, one at a time, because no code
reads two of them. Targets are all of up to five characters over `/ : ? a 1`, which
contain each order of the characters that the parser looks for, and those that begin with
`http://a` or `https://a` (so that there is a protocol, a host, a port and a path). Three
lines or three calls reach each state of the list of a name (none, one, several) from
each other, in several spellings, with names that are no token in between. Every named
status is sent, and the numbers beside them. `LongMax` is 100: ports go beyond it.

### Fairness

`Spec` of `Server` states it, and so do the properties that need it. The main thread never
blocks in its loop: the loop is entered with `EVLOOP_NONBLOCK` and `wait_for` is given zero,
so its steps are weakly fair. The operating system runs every thread: weak fairness of a
worker's steps. A callback is possible only while main is inside the loop, which then runs
every event that is ready, and a queued task may start only while a thread is free: both
are enabled again and again, not for ever, and the code's library takes them in turn, so
they are strongly fair. A broken loop and a failed bind are never forced. `ImplementsService`
assumes nothing else: in the abstract service, an answer to a request that can be
answered is weakly fair for as long as the service is up, and so is the crash once a
request was accepted that cannot be. The routers run to the end of each call, and no
property of theirs needs fairness.

## 4. Proofs

### Server

`ServerProofs` proves, for any set of requests, any kinds, any number of threads, a loop
that may break or not, and either configuration text (the assumption is
`ServerAssumption` in `Server`, which TLC evaluates in every server run):

| Theorem | Says |
|---|---|
| `TypeCorrect` | `Spec => []TypeOK` |
| `Invariance` | `Spec => []IInv` |
| `RequestsAreOwned` | `Spec => []WorkerOwnsRequest` |
| `RepliesAreUnique` | `Spec => []AtMostOneReply` |
| `PoolIsExactAlways` | `Spec => []PoolIsExact` |
| `SweepsAreExact` | `Spec => []SweepIsExact` |
| `WorkersAreJoined` | `Spec => []ExitJoinsWorkers` |
| `ServerImplementsService` | every step of the server is a step of `RequestService` or changes nothing a client sees, also with a broken loop |

None of the properties is inductive. That a worker owns its request, for one, depends on
the sweep only sending what `get()` has returned, which is a fact about the future and
the connection; that the pool is exact depends on the list holding no future twice, or
erasing one entry would leave another of the same request. `IInv` ties them together:

- `TaskFollowsConn`: where a task is and who has its request determine each other;
- `RepliesFollowConn`: one reply exactly for the requests libevent has back, each written;
- `OutcomeFollowsKind`: while serving, what a worker left tells the kind of its request
  (not later: a worker with a destroyed router may leave anything);
- `PoolFollowsConn`: no future twice, every running task in the list until the very end,
  and while serving the list is what the program holds;
- `RouterAliveInside`, `NothingBeforeLoop`: nothing was delivered before the loop, and
  the router is destroyed on the way out only;
- `SweepIsExact`, which is inductive only with `PoolFollowsConn`.

`StepPreserves` has one case per action. What erasing, appending and dropping the head do
to a list without duplicates are lemmas (`RemoveAtProperties`, `RemoveAtHolds`,
`TailHolds`, `AppendHolds`), cited where the sweep, the delivery and the destructor need
them. The refinement uses `IInv` three times: an answer needs a `plain` request, termination
in the sweep needs one that is not, and a worker that meets the destroyed router has a
request that was accepted and never answered.

### Radix tree

`RouteTreeProofs` and `RouteLookupProofs` prove, for any alphabet, patterns, expressions,
methods and paths, any number of calls and any order of them:

| Theorem | Says |
|---|---|
| `TreeTypes` | `Spec => []TypeOK` |
| `TreeOrder` | `Spec => []TreeOrdered` |
| `TreeImplementsTable` | `CallsSpec => ImplementsTable`: the tree implements `RouteTable`, each call with its own method, pattern and outcome |
| `LookupIsSound` | `Spec => []LookupSound` |
| `LookupIsComplete` | `Spec => []LookupComplete` |
| `HintIsExact` | `Spec => []HintExact` |
| `LookupIsMostSpecific` | `Spec => []MostSpecific` |
| `MountsAreKept` | `Spec => MountNeverOverwrites`, given that the patterns of the mounts are text (`StaticMounts`) |

The invariant behind all of them is `TreeInv`: the tree is good, and what is pending
is the rest of a mount. `Good(t)` says of a tree what every `insert_route` keeps, also one
that throws half-way:

- `Typed`: a function from sequences of segments, no longer than `Height`, to nodes;
- `AllNamed`: the fields of a node are what the end of its name says, and the rest of its
  name is a node's, too. A static node stands for as many segments as its prefix is long,
  which is what a split divides;
- `SiblingsDiffer`: no two nodes below one begin with the same segment;
- `Linked`: each list of children holds exactly the nodes that are named so, once each.
  This is what `replace_child`, and `add_child` with the node that was cut, could get wrong;
- `Sorted`: static labels ascend, and of the parameters only the last ends at a slash;
- `Placed`: a pattern is at the node with its name and nowhere else.

`TreeOrdered` alone is not inductive: two siblings have different labels because
`get_edge` would have found the one before the other was added, and that needs
`Linked`. The proofs follow the code: what one node more does to a good tree
(`GrownWell`), what a split does (`HalvedWell`), that the loop of `insert_route` only
stops where the pattern ends, no child fits or one is to be split (`OnTheWay`), and
that the chain of `add_child` ends at the node with the pattern's name. `nodes_sort` is
shown to be a permutation that keeps labels in order; its loop from the back, which goes on
after a swap, does what it should because one at most of the parameters below a node
ends at a slash (`OneSlashy`). The refinement compares `Table` before and after: a shape is
the name of one node at most that has endpoints. `Registers` says how an insertion ends: with
the pattern at its node under the method of the call if it is `Acceptable`, with an exception and
the endpoints there were if not (`RegisteredTable`, `CallRegisters`); a split alone moves no
endpoint. So a registration of the tree is the same registration of the table.

A search is proved level by level. `Sound`, `Complete` and `Best` say of a search
with `i` levels below it, for each node and each rest of a path, that what it finds is right,
that it misses nothing, and that nothing is preferred to what it finds; induction over the
levels is induction over the recursion of `find_route_helper`. Of the binary search
`Halving` says that the label has been found or is still between the bounds.

- *Sound.* Each step takes a segment and a piece of the path that the segment may take
  (`GoodSteps`). The values of branches that are given up are gone, because a step
  hands its value on only with what is found below it.
- *Complete.* A match puts marks in the path, where each token of the pattern ends
  (`Mark`). If a search is at a node on the pattern's way and at that mark, one of its steps
  is to the next such node and the next mark (`Reachable`): a value that fits has no tail
  in it, so that `find` stops at the mark and not before. Steps that are tried earlier
  may find something else, and then the search has a hit, too.
- *The hint* is the same argument for a pattern under another method (`Seen`).
- *Most specific.* Two patterns that match differ first in one segment, below one node. The
  order in which that node's children are tried (`ParamSeries`, `KidSeries`) decides which
  branch is first (`GoesTo`, `Ahead`), and by completeness that branch does not fail. Left
  out by `MoreSpecific` is what follows an expression, because there the order
  of two expressions is that of registration.

`MountsAreKept` is about `find_pattern`, which does not back up: the first type of child with a
matching label decides. Below text that does not mislead it (`FindsWild`), so
that the check at the start of a mount of text finds a wildcard that is there; and as nothing
but the mount's own insertions comes between the check and its last one, its wildcard's
shape is still not in the table then (`MountInv`). With parameters in the mounted pattern
this would not hold: `find_pattern` goes into an expression that is below the same node and
never looks at the parameter.

### Mux

`MuxProofs` proves, for any muxes, middlewares, methods, patterns and paths, any number of
calls and any order of them (`MuxAssumption`):

| Theorem | Says |
|---|---|
| `TypeCorrect` | `Spec => []TypeOK`, with whose tree is whose |
| `NoMiddlewareMissed` | `Spec => []MiddlewaresComplete` |
| `PathShared` | `Spec => []RouteTrail` |
| `MountsReach` | `Spec => []MountedRoutesReached` |
| `Invariance` | `Spec => []IInv`, from which they follow |

`IInv` has a part for the routers and one for the request. The routers: an inline mux
shares the tree of the mux it was made from, and making it has built that mux
(`TreesOwned`), so that a built chain has all the middlewares (`ChainsFixed`); an endpoint
was registered through a mux that takes no middleware any more (`EndpointsMade`), which is
why the chain it captured stays complete; a tree has one endpoint for a pattern and a
method (`EndpointsUnique`), and all endpoints with one sub-router are from one `mount`
(`MountsOnce`), so that a request that is in the sub-router came through that mount. The
request: each endpoint of its trail is in the table of the mux that the one before it leads
to (`TrailFound`); what ran are the middlewares of the trail (`RanSoFar`); the parts of the
endpoints and what is left make the path (`PathSoFar`); and a request that was promised a
route of a sub-router is still on its way to it (`PromisesKept`). That last one is what
`MountedRoutesReached`, which speaks of the end only, needs: it says that no other
endpoint was found in between, from the order in which the search prefers patterns
(`HitFound`).

### Routing

`RoutingProofs` proves, for any alphabet and tokens, any programs that start, nested to any
depth, any paths and any trees that keep `TreeAssumption`:

| Theorem | Says |
|---|---|
| `TypeCorrect` | `Spec => []TypeOK`: a sub-router's path begins with a slash, an answer comes with the end |
| `StacksStayAligned` | `Spec => []StacksAligned` |
| `InnermostValueWins` | `Spec => []InnermostWins` |
| `PathIsAlwaysSpelled` | `Spec => []PathIsSpelled` |
| `IdAlwaysExact` | `Spec => []IdIsExact`, which leaves the id 0 open |
| `Invariance` | `Spec => []IInv`, from which they follow |

None of the four is inductive: each speaks of stacks that grow by a lookup and are written
to by the next mount. `IInv` says what they hold in every phase:

- `Phases`: what the last lookup has found, and that nothing is looked up before the path
  is trimmed;
- `Entries`: every pattern on the way is one that `handle_impl` and `insert_route` take,
  with a value for each of its keys; and one that led on to a sub-router is one that
  `mount` made, so its wildcard is behind a slash and its only key `*` (`Connects`);
- `Stacked`: the keys are those of the patterns one after the other, the values are those
  found, but for the wildcards that the request has passed, whose value is empty (`Held`);
- `WildcardsEmptied`: mount's function empties the last value on the whole stack if its key
  is `*`. Below a mount that has no parameters at all this is an outer mount's, and is
  empty already: without this conjunct the step could not be shown to do no harm;
- `PathSoFar`: the patterns found so far, filled and put together, and what is left of the
  path behind them make the path that was asked for; and what is left is all of it or a
  slash with an end of it, which is where `TreeAssumption` applies (`LeftOf`). A mount
  without its wildcard adds a slash to a path that has none, hence two `Spellings`;
- `IdSoFar`: the id between `extract_id` and the handler, and what the code answers to each, 0
  included (`IdAtEnd`).

The argument of the main step is in `WildcardSplits`: a mount's pattern without the value
of its wildcard is filled to what is in front of that value, and ends with a slash, so that
the slash that `next_route_path` puts in front of the rest is the one that the next part
shares with it. `InnermostIs` finds the last key in the stack in the block of the last
pattern that has it, from the places that the blocks have in both stacks (`StacksAt`).

### Requests and responses

`ExchangeProofs` proves, for any alphabet with its cases, any names, values and exchanges
(`CharAssumption`: upper and lower case agree with each other and leave the dash and the
token characters what they are; `ExchangeAssumption`: what is sent and called is made of
these names):

| Theorem | Says |
|---|---|
| `TypeCorrect` | `Spec => []TypeOK`: every key of a header is canonical, none is without values |
| `RepliesGoOut` | `Spec => []ReplyGoesOut`: a status of the enum never makes `process_response` throw |
| `LinesHaveOneName` | `Spec => []OneLinePerName` |
| `HeadersImplementFields` | `Spec => ImplementsFields`: `Header` implements `HeaderFields`, for the request and the response |
| `Invariance` | `Spec => []IInv`, from which they follow |

The heart is `CanonicalIsTheName`: two spellings have one canonical key exactly if they are
one name. One direction needs that names which differ in case begin their words in the
same places (`SameWords`, since a dash has no other case), the other that a key with a
character that is no token is its own canonical key, and that canonical keys of tokens are
tokens. With it each method of `Header` does to the values seen under every name what
`HeaderFields` says (`AddedValues`, `ReplacedValues`, `DeletedValues`), and the
refinement maps `fields[n]` to `get_all_values(n)`. `OneLinePerName` needs the same fact
and that all keys are canonical (`HeaderOK`); `ReplyGoesOut` needs that each code of
the enum has its row (`NamedCodesAreKnown`).

It goes on from there to what the lines and the calls of a whole exchange mean:

| Theorem | Says |
|---|---|
| `NoFieldIsLost` | `Spec => []RequestFieldsExact`: the handler finds under each name all values that were sent under it, in their order |
| `WireIsExact` | `Spec => []WireExact`: the line of each name reads as the values since it was last set or deleted, each whole and in its place, and the status is the last |
| `FieldInvariance` | both said of the lines read and the calls made so far, which is inductive |

What the first `step` lines or calls mean is compared with what one more of them adds
(`OneLineMore`, `OneCallMore`, `OneStatusMore`); at the end the lines that
`process_response` writes are the header's (`LinesOfWire`), joined: in the string that
`std::accumulate` makes, the places of the values and of what is between them are
`JoinedFacts`.

And for any target:

| Theorem | Says |
|---|---|
| `TargetIsSpelled` | `Spec => []PartsSpellTarget`: nothing of it is lost or doubled |
| `PathNeverEmpty` | `Spec => []PathIsWhole` |
| `UrlInvariance` | `request.url` is what `Uri::parse` makes of the target, from the first step on |

`FindsFirst` says what a search finds; from it the positions that `Uri::parse` cuts at are
in their order if the target is not refused, and parts that end where the next begins make
the target again (`Adjacent`).

### Lemmas

`SequenceLemmas` states the facts about numbers and sequences that more than one of these
proofs needs. The library's induction theorems take operators, which the provers do not
instantiate, so induction is stated with sets (`SetInduction`, from `LeastExists`): the
numbers for which something holds are a set. With it `FlattenSeq`, whose definition is a
recursive function, has the laws that it should: one sequence more is put behind
(`FlattenProlonged`), each sequence lies between what the ones before and behind it make
(`FlattenAround`), sequences of the same lengths flatten to the same length
(`FlattenLengths`). `PatternLemmas` has what the operators on patterns do when a token comes
last (`KeysOfLast`, `FillLast`) and what a filled pattern begins and ends with.

### Model-checked only

- Liveness and the fairness half of the refinement of `RequestService`: ENABLED is beyond
  the prover.
- `TreeAssumption`, the one link between the theorems about `RouteTree` and those about
  `Routing`. Most of it is what `LookupIsSound` says of a tree that calls have built one by one;
  `Routing` builds a tree in one expression, all registrations of a mux in a row. TLC
  evaluates it for every program of `MCRouting`.
- `MountNeverOverwrites` for mounts with parameters, see above: it is neither proved nor
  in the run.
- `MatchAgrees`, because `match` is RECURSIVE; `JoinedSpells`, because `replace_copy` is
  a fold with an operator (`FoldLeft`), of which the provers know nothing.

## 5. Findings

Each is a sentence in the repository that the code does not keep, with the run that
shows it.

1. `server_unsent`: "if we didn't send the response for some reason then we'll try again
   later" (`main.cpp:246-247`). `get()` has emptied the future, the next `wait_for`
   throws `future_error`, the program ends. Every GET of `/api/v1/products` does it.
2. `routes_empty`: "no matching route for empty param values" (`router.tree.cpp:540-541`).
   The last child is searched once more with an empty value (607-608, 639).
3. `routes_fresh`: "ensuring a pattern isn't mounted on an existing routing pattern"
   (`router.mux.cpp:192-193`). Only the wildcards are looked for.
4. `mux_not_allowed`: the 405 responder (`router.mux.cpp:504-505`). `route_http` goes on to
   the 404 handler, which overwrites the answer (494-498).
5. `routing_zero`: "id not found or is 0" (`middlewares.hpp:119`). The code only asks whether
   `from_chars` reports an error (113), so the handler gets the id 0.

Also seen, and in the hazards: the format at `IProductHandler.h:50-52` against the raw string at
`main.cpp:140-141`, which has a quote after the brace, so that `Init` refuses the text and the
program as it is serves nothing (`CodeClosing` in `MCServer` is that literal; the check of
`IsJsonObject` refuses it); the return on a broken event loop, which destroys the router under
its workers (`main.cpp:229-234`); a worker's exception ends the program for all other requests
(`main.cpp:239`; it is one of the reasons for which `RequestService` may crash);
`set_method_not_allowed` assigns the 404 handler (`router.mux.cpp:422`); handlers set
after a mount do not reach sub-routers, as the walk is a stub (`router.tree.cpp:800-804`).

Of the request's data:

- `match` is to say "if a matching endpoint exists" (`router.h:42-44`). At the root of a mount
  the node found is not the wildcard's, so the sub-router is not asked and the answer is
  yes; and a handler that replaced a mount's wildcard is asked of the sub-router that is still on
  the node (`router.mux.cpp:272`). `MatchAgrees` names the two and holds elsewhere.
- "replace all wildcards (occurrences of "/*/")" (`router.context.cpp:64`): two that share
  a slash, a mount at the root of a sub-router, leave one behind. The joined pattern is only
  printed; `JoinedSpells` promises nothing of how many wildcards are left in it.
- The values of a field go out joined by "; " (`evHttpResponse.hpp:50`), where
  `http.h:218-221` says comma. The model has the code's `Separator`; `WireExact` asks for one,
  and not for which.
- The reason is that of 200 for every known status (`evHttpResponse.hpp:33-35`, the test is the
  wrong way round).
- A body is cut at its first NUL, and one without ends the program
  (`main.cpp:115`); a target with "://" in its query does too (`uri.h:80`); a target without
  a path, like `*`, is read outside of the string (`middlewares.hpp:73-74`).

## 6. Not modelled

- The vendored libraries, but for libevent's part in a request.
- `walk_routes`, which changes no state and depends on `get_routes`, a stub.
- `RoutingContext::reset`, `get_url_param_from_ctx`, the methods of `RouteParams`,
  `StatusCode::parse`, `split` and the other string helpers: no code calls them, or only
  to print.
- `Context` as a container: what is kept in it (the routing context, the id) are variables
  of `Routing`.
- The inventory database: definitions in SQL that no code of the repository uses.
- The product calls, which all return NOT_IMPLEMENTED.
- Formatting, logging, reading the TOML file.
- The order of static destructors (`config.cpp:10` against `eventPool`).

## 7. Plan

1. Done: `Server` with `RequestService`; `RouteTree` with `RouteTable`; `Mux`; `Routing` and
   `RouteMatch`; `Exchange` with `Header`, `HeaderFields`, `Uri`, `StatusCode`.
2. Done: proofs of every safety invariant of `Server`, `Mux` and `Exchange`, of the
   refinements of `HeaderFields` and (its steps) of `RequestService`, of all
   of `Routing` but for `JoinedSpells`, and of all of `RouteTree` (`MountNeverOverwrites` for
   mounts of text).
3. To prove: `TreeAssumption` from the theorems about `RouteTree`, for a `Routing` whose trees
   are built call by call; `match` as a function of the depth of the mounts,
   so that `MatchAgrees` can be proved from `TreeAssumption`.
4. `walk_routes`, and `get_routes` behind it, once the walk is more than a stub; the
   inventory tables, once there is code that uses them.
