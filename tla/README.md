# ae-memcached in TLA+

ae-memcached is memcached 1.1 rewritten around the `ae` event loop of Redis and
a table of commands. One thread runs everything: `aeMain` waits for descriptors
with epoll, calls the handler of each one that is ready, then the timers that
are due. A handler runs to its end. What makes the program hard all the same is
that a command is spread over many handler calls: the data of a `set` arrives
later than its line, a response is sent piece by piece while it points into
items that other connections change, a delete with a time leaves work for a
timer, and clients pipeline, stop reading, or disappear.

## Inventory

| Component | Code | State | Operations | What makes it correct |
|---|---|---|---|---|
| Item store | `items.c`, `assoc.c` | hash table, an LRU list per slab class, `refcount` and flags of each item, counters | alloc with eviction, link, unlink, remove, update, replace, find | table, lists and flags agree; a chunk is free, owned or referenced, never two of these, and never lost |
| Commands and timers | `memcached.c` | `todelete`, `oldest_live`, per connection the item being read and the items being sent | get, set, add, replace, incr, decr, delete, flush_all, clock, delete timer | `refcount` counts the references; delete locks hold; what is shown is what was stored |
| Time | `memcached_time.c` | `current_time`, `stats.started` | `realtime`, `set_current_time` | conversion of client times |
| Slab allocator | `slab.c`, `mem_cache.c` | per class: pages, end of the last page, free list; `mem_malloced` | create, alloc, free, class of a size | a chunk is handed out once and not lost; the class is the smallest that fits |
| Connections | `connection.c`, `drive_machine` in `memcached.c` | `state`, `rbuf`/`rcurr`/`rsize`, `rlbytes`, `sbytes`, output vectors, `ev_flags` | accept, read, parse, read data, swallow, write, close, reuse | in step with the stream; each command answered once, in order; nothing waits for ever |
| Responses | `connection.c`, `transmit` in `memcached.c` | `iov`, `msglist` with their sizes | add a part, split, send, shrink | each byte goes out once, in order, in messages `sendmsg` takes |
| Event loop | `ae.c`, `conn_new`, `conn_close` | registered events, fired events, `maxfd`, timers, the pool `freeconns` | add and delete events, poll, accept, close, timers | registrations, structures and descriptors agree; every ready descriptor and due timer is served as long as handlers return |
| Command table | `command.c`, `main` | list of commands | run | each line reaches its handler |
| Managed buckets | `memcached.c` | `buckets[]`, `bucket`/`gen` of a connection | own, disown, bg | a command only runs for the owner |
| Statistics, settings, daemon, logger, UDP | | counters and options | | not modelled, see the end |

Interaction: `event_handler` drives a connection, which calls the command table,
whose handlers call the item store, which calls the allocator. Timers call the
item store as well. The item store and the connections share `refcount`, the
allocator and the item store share chunks. There is no persistence and no
second thread; crashes lose everything and need no model.

The hard behaviours, each with its line, are the `hazards` of `PROJECT.json`.

## Modules

| Module | Models | How |
|---|---|---|
| `MemcachedTime` | `memcached_time.c` | operator `realtime`, modulo 2^32 as a constant |
| `ChunkPool` | the allocator as the store sees it | operators on a record; a call returns the set of its outcomes |
| `Items` | `items.c`, `assoc.c` | one operator per C function, from a store to a store |
| `ItemStore` | handlers and timers of `memcached.c` | state machine, one action per handler, or per iteration of a handler that loops over items |
| `ServerLoop` | `aeMain` around the handlers and timers of `ItemStore` | state machine that extends `ItemStore` by whose turn it is; the liveness of the delete queue |
| `Cache` | what clients are promised | abstract specification, `kv` and pending stores |
| `MemCache` | `slab.c`, `mem_cache.c` | state machine, one action per call |
| `SlabClasses` | `mem_cache_create`, `mem_cache_clsid` | state machine that creates the classes, then asks for sizes |
| `Connection` | `drive_machine`, `connection.c` | state machine of one connection and its client; one action per iteration of a loop |
| `EventLoop` | `ae.c`, `conn_new`, `conn_close`, the accepting half of `drive_machine` | state machine of the whole server with its clients, the kernel's descriptors and a wall clock; one action per step of `aeProcessEvents` and per turn of a handler's loop |
| `Response` | `add_iov`, `add_msghdr`, `ensure_iov_space`, `transmit`, `conn_shrink` | state machine of one connection's output lists, one action per turn of their loops |
| `Commands` | `command.c`, `process_command`, all handlers of `memcached.c` | state machine of all connections; one action reads a line, runs its handler and answers |
| `ItemStoreProofs` | | theorems about `ItemStore`: types and bounds; what the operators of `Items` do to a sound store |
| `ItemStoreReferences` | | theorems about `ItemStore`: references, lists, responses, delete locks; then the counters of `stats`, and that `ItemStore` implements `Cache`; last, that `ServerLoop` implements `ItemStore` |
| `MemCacheProofs` | | theorems about `MemCache`, also that it implements the pool of `ChunkPool` |
| `EventLoopProofs` | | theorems about `EventLoop` |
| `CommandsProofs` | | theorems about `Commands` |
| `ConnectionProofs` | | theorems about `Connection` |
| `ResponseProofs` | | theorems about `Response` |
| `SlabClassesProofs` | | theorems about `SlabClasses` |
| `MCItemStore`, `MCServerLoop`, `MCMemCache`, `MCSlabClasses`, `MCCommands` | | constants for TLC |

The modules cut the program along its shared state. `ItemStore` includes `Items`
(the store), which takes its chunks from `ChunkPool`, which `MemCache` is shown to
implement. `EventLoop`, `Commands`, `Connection` and `Response` each look at a
connection from one side and leave the rest to the others: whom it belongs to,
what its lines mean, where its bytes are read, how its answers are written.

### ItemStore and Items

`store` is the record of all globals of `items.c`, `assoc.c` and of the
allocator. An item is identified with its chunk; its bytes are a value `val` out of
a small set with a length (`nbytes`, without the `\r\n`), a key is a model
value. The hash table keeps, per key, the items of that key in chain order (keys
with the same hash only share a chain, which `strcmp` separates). `fn` and `who`
say which handler is running: the loops of `command_get`, of the release of a
response, of `conn_cleanup` and of the delete timer take one step per item, so
that properties are checked between the iterations. All other handlers are one
step. A connection is reduced to what the store can tell: waiting for a command,
reading the data of an item, sending a response, or closed.

`complete_nread` may find the data well terminated (`good`) or not.
`command_get` may end early, at any key, as it does when a realloc fails.
`item_alloc` contains the eviction loop; its retry calls the allocator again.

The clock is what `time(0)` says (`memcached_time.c:8`). With `SetBack` it may take any
value at any call of `set_current_time`, without it only a later one.

### ServerLoop

`ItemStore` lets a handler or a timer start whenever none is running, which is more
than `aeMain` does and right for safety. `ServerLoop` gives each its turn: a turn of
the loop takes a set of ready connections (`epoll_return`), calls the handler of
one after the other (`file_event`), then the timers that are due, the delete timer
first, since it was created last (`delete_timer`, `clock_timer`). While `handling` names
a connection its handler has the thread: it may run any number of commands,
and returns (`handler_return`) when it will. Which descriptors are ready and which timers are due
is left open here and is the subject of `EventLoop`.

### ChunkPool, MemCache, SlabClasses

`MemCache` has the real structure: free list array with its capacity, end-of-page
pointer and count, and `mem_malloced` that starts at the number of classes and
does not count the preallocated pages. Its property `ImplementsPool` says that
each call does what `ChunkPool` allows, which is how the item store sees it.
`SlabClasses` is run with the numbers of `main()`: 48, 1.25, 40 and 1048576.

### Connection

Bytes are units that know which command they belong to and whether they end in
a newline. The client is a process of its own: it sends one unit at a time, may
stop in the middle, may end its stream or break the connection, and reads what
is sent to it. The network takes `OutCap` units before `sendmsg` returns EAGAIN.
`grow_fails` reproduces the path where the error of a failing realloc meets an
output vector that is not empty: nothing is sent. What is in `rbuf` after
`conn_shrink` has left `rcurr` outside of it is not modelled; the passing run has
buffers that stay below `READ_BUFFER_HIGHWAT`, the run `shrink` stops at the
first such state.

`InStep` and `RepliesInOrder` say place by place what the stream and the output are,
instead of computing the expected ones with a fold and comparing: `WholeCommands`
looks at each unit that begins a command, and `Sent` counts the units of one answer.
The properties are the same, and can be reasoned about for streams of any length.

### EventLoop

The kernel is part of the module: the descriptors (`socket`), what epoll watches
(`interest`), the clients waiting to be accepted, and the wall clock, which moves on
while the loop waits and may be set to any time then; as nothing reads the clock between the wait and
the timers, this stands for what happens to it while handlers run as well. `aeMain` is the cycle of the values of `fn`: compute the time to wait
(`aeApiPoll`), wait, serve the fired events in the order epoll returned them (any
order), run the timers. The accept loop of `drive_machine` stays on the listening
socket until there is nobody to accept, as the code does; without a free descriptor it
goes on for ever, because Linux answers EMFILE before it looks at the backlog. The
handler of a client goes from one command to the next (`serve_more`) as often as the
client has sent something, without limit. It returns when nothing is left to read or,
with input left, when a response blocks (`serve_return`), and it may close its own
connection, the only one it can close (`serve_close`). A structure is a model value, so that its
reuse through `freeconns` is visible. Times are in units of which `Second` make a second
(1000 in the code).

### Response

A byte of a response is its number, so that what will still be sent can be compared
with what was added. Pointers from `msglist` into `iov` are indexes, and all of them are set
again when `realloc` moves the array (`moved`). One action is one turn of the loop of
`add_iov`, with its own test for room (`ensure_iov_space`) and its own realloc, which
may fail; a failure in the middle of a `get` goes on to `END`, as `command_get` does.
`limit_to_mtu` is computed before `add_msghdr` is called and not afterwards. `sendmsg`
takes any number of bytes from 1 to the whole message (`transmit`), and the loop of
`transmit` then takes them out of the lists, an action for each entry that was sent
(`entry_sent`) and one for the entry sent in part (`entry_adjusted`); that `sendmsg` blocks
is the same as taking no step. The error of `try_read_network` for a realloc of `rbuf`
that fails, which finds a response of an earlier command or none, is in `Connection`.

### Commands

The table is the one `main()` registers, in its order, and a text is a sequence of
words and blanks. Each entry's text is sent alone and with arguments that `sscanf`
can or cannot read. A handler is an operator with one disjunct per way out; its
`reply` is what the client sees and says which way was taken. Outcomes that depend on
the items (found, not found, stored) are one reply, `"answer"`. `heard`, `owner` and
`misjudged` are history: what a client can conclude from its own lines and the
answers. Data that complete after a `disown` are stored nevertheless: the code looks
at the bucket when it reads the line, and so does the property.

## Runs

| Run | Expected | Question | Bounds |
|---|---|---|---|
| `get` | pass | Do references, lists and chunks stay consistent under get, set, add, replace, delete, flush, eviction and a failing calloc? | 2 connections, 2 keys, 3 chunks in 2 pages, one page preallocated, one entry in the delete queue, 2 entries per get, clock 0..1, set forwards and back |
| `cache` | pass | Does the store implement `Cache`, also when incr or decr replaces an item of one slab class by one of another? Do responses stay intact, the counters right, the LRU lists in order, and does eviction spare what is referenced? | 2 connections, 2 keys; 4 chunks in 3 pages of 2 classes; values 0 and 1 of lengths 1 and 2; expiration times 1 and -1, delete time 1; `flush_all` without a time; clock 0..1, not set back, one entry per get and in the queue |
| `timer` | pass | Inside the event loop, does the compaction of the delete queue keep its entries valid, and does every entry leave unless a handler never returns? | 1 connection, 1 key, 2 chunks in 2 pages, 2 entries with lock times 1 and 2, clock 0..3, not set back |
| `pool` | pass | Is each chunk handed out once, across free-list growth, new pages and the limit? | 2 classes, 3 pages each, first free list of 1 |
| `classes` | pass | Do the classes grow, and is the smallest fitting one found? | real sizes; sizes at and next to each chunk size |
| `stream` | pass | Does a connection stay in step, answer everything once, and leave nothing behind? | 2 commands, 2 clients, `rbuf` of 2 units that doubles, 2 units of socket buffer |
| `loop` | pass | Do registrations, structures and descriptors agree, is the cached time fresh, does the loop wake up, and is who has sent something served unless a handler never returns? | 2 clients, 3 structures, 4 descriptors of which 2 or 4 are allowed, a pool that starts with room for 1; 2 units per second, clock 2..5 |
| `commands` | pass | Does a data command run exactly for the owner of its bucket? | 2 clients, 2 structures, 2 buckets, bucket numbers -1..2, generations -1..2, managed and not |
| `response` | pass | Does each byte go out once and in order, in messages `sendmsg` takes, and from inside the arrays? | `IOV_MAX` 3, datagrams of 4 bytes, lists that start at 2 and 1, answers and items of 1, 3 or 6 bytes, up to 3 hits, 16 entries |
| `stall` | violation | Is a blocked response continued? | one get |
| `shrink` | violation | Does `rcurr` stay inside `rbuf`? | `READ_BUFFER_HIGHWAT` = 2 units |
| `alias` | violation | Is a linked item never one given back? | 1 connection, incr, a failing calloc |

The bounds make the interesting cases happen: with 3 chunks and 2 keys there are
more items than room, a chunk is reused while a response still points to its
former neighbour, and one item can be held by two responses and the queue at
once. `Tries`, 50 in the code, is longer than any list here. `RefMod`, 2^16 in
the code, is larger than the number of references. `MaxTime`, `MaxIList`,
`MaxDel`, `MaxCmds`, `MaxConns` and `MaxPages` bound what the code leaves
unbounded; reaching `MaxIList` or `MaxDel` is what a failed realloc does.
With 2 clients and a descriptor less than they need, `accept` meets EMFILE, and
structures and descriptors go from one client to the other while events wait; a
clock from 2 to 5 units has seconds 1 and 2, jumps over a whole second both ways
and is behind `lastTime`. A second bucket and a second client are what it takes to
use a bucket announced for somebody else, and each number has neighbours outside of its
range. An item of 6 bytes crosses the end of the first datagram and
of the first message; 3 hits make several messages and let `iov` grow three times.

Symmetry is over keys, connections and the chunks of one page in `get`, `cache`
and `alias`, whose view forgets what is in a free chunk, and over clients and
structures in `commands`; the runs with liveness use neither.
`Connection` stops when its clients are used up, so its runs do not look for
deadlock.

### Fairness

Nothing in this program interrupts a handler, and nothing bounds what it does. Two
handlers can keep the thread for ever: that of the listening socket, which calls
`accept` again after any error but EAGAIN (`memcached.c:1058-1070`), so also for lack of
descriptors, or while new clients never cease; and that of a client which keeps its socket
full and reads its answers (`memcached.c:935-974`, `1086-1092`). Meanwhile no other
connection is served and no timer runs. So no fairness is assumed of handlers, and the
two properties that need the thread back say so:

* `EventLoop`: weak fairness of the server as a whole. A running thread goes on, and
  `epoll_wait` returns when a descriptor is ready or its time is over. `ReadyIsHandled`
  holds of behaviours in which no handler keeps the thread for ever
  (`[]<>(fn # "drive_machine")`). What is left to go wrong is the loop: events in any
  order, closed and reused descriptors, and clients that come back.
* `ServerLoop`: weak fairness of the loop; each timer comes due again and again, which is
  `WaitBounded` of `EventLoop`, and the clock goes on (strong fairness of the choice of
  the timer that is due, and of a later time). `DeletedItemsGo` holds of behaviours
  in which no handler keeps the thread for ever (`[]<>(handling = NULL)`). TLC finds it violated
  without that condition.
* `Connection`: weak fairness of `event_handler` and of the steps of the handler, with one
  connection in the module. That is an assumption about the component, not a fact about the server: it
  stands for an event loop that comes back to this connection, which another client
  can prevent as above. What `CommandsAnswered` says under it is that no command is left in `rbuf`
  without an event that would bring the handler back. The client reads what it is
  sent, but need not send anything.

`ItemStore` itself has no fairness.

## What the code does otherwise

The three violation runs are disagreements with a comment or an assertion of the
code; `findings` in `PROJECT.json` quotes them. Others have no run of their own:

* `flush_all` compares in whole seconds (`memcached.c:90`), so an item stored
  after it in the same second is hidden; a flush into the future replaces
  `oldest_live` and brings flushed items that still exist back. The run `cache`
  has no `flush_all` with a time for that reason.
* A wall clock that is set back (`memcached_time.c:8`) moves `current_time` back: the
  LRU lists are no longer in the order of their times, expired items that
  nobody has looked up show again, and delete locks last longer. With `SetBack`,
  TLC finds `LruSortedByTime` and `ImplementsCache` violated; what does hold is what the run `get` checks.
* A second delete of an item whose first delete had a time that `realtime`
  turned into 0 queues it twice, and the timer trips over the assertion at
  `memcached.c:72`.
* `slab_free_chunk` loses a chunk when its realloc fails (`slab.c:121`).
* `refcount` wraps at 65536 references (`items.h`, `memcached.c:281`).
* A negative difference in `realtime` wraps to a time far in the future.
* At the end of a stream complete commands in `rbuf` are dropped
  (`memcached.c:965`).
* A set refused in managed mode does not swallow its data.
* At the memory limit an allocation that evicts an item fails all the same, since
  `mem_cache_alloc` looks at the limit before the free chunks (`mem_cache.c:73`,
  against `settings.c:14`).
* `item_size_ok` (`items.c:144`) accepts sizes up to 1024*1024 for which no class exists.
* `slabs reassign` is registered with `quit_handler` (`memcached.c:1695`);
  `stats slabs` sends no reply; `stats cachedump` is matched in full, so with
  arguments it is an unknown command and without them badly formed.
* `own` takes a generation of 0 or below, which no `bg` can name. The bucket of a
  `bg` is not that of "the next command" (`connection.h:85`) but of the next data
  command that is well formed.
* A `set` admitted at its line is stored although the bucket was disowned before
  its data were complete.
* An overdue timer still waits for the fraction of a second (`ae.c:471-477`; the
  comment at 466 says it does not wait). A clock set back between the
  test at `ae.c:377` and `lastTime` would not be noticed.
* `current_time` is 0 for the first second or two, and wraps when the clock is set
  before `stats.started`.
* `accept` that fails for lack of descriptors is tried again without end, inside
  one handler (`memcached.c:1061-1069`); `-c` only sets RLIMIT_NOFILE. As EMFILE comes before
  EAGAIN, it is enough that the last descriptor was given away, with nobody waiting
  for another: that the accept loop with an empty backlog ends is violated in
  `EventLoop`. While it spins, no connection is closed, so it does not end.
* A client that keeps its socket full and reads its answers keeps its handler: no
  other client is served and no timer runs, so delete locks do not end and the time stands
  still. `stats.conn_structs` never goes down.
* When `add_iov` fails in the middle of an item (`memcached.c:271`), the client gets
  a part of it and then `END`, and the parts added may point into an item to which no
  reference was taken.
* A response that ends exactly at the end of a message whose successor was never filled
  makes `sendmsg` return 0, and the connection is closed; `add_iov` ignores that
  `add_msghdr` failed and makes the message longer than `IOV_MAX`. Both only after a
  failed realloc.
* The error of a failing realloc in `try_read_network` is not sent when an
  older response is in `iov`, and with no command processed yet `add_iov` writes
  before `msglist`.

## Proofs

`ItemStoreProofs` proves, for every value of the constants that satisfies the
named assumptions (`PoolAssumption`, `ItemsAssumption`, `TimeAssumption`,
`ItemStoreAssumption`; TLC evaluates all four on every run of `MCItemStore`):

| theorem | statement |
|---|---|
| `TypeCorrect` | `Spec => []TypeOK`, the type invariant the run `cache` checks |
| `CompactionStaysBehind` | `Spec => []TimerBounds`: `j <= i <= delcurr` in the delete timer |
| `ReaderCanComplete` | `Spec => [](ReaderHasItem /\ ItemHasKey)`: `complete_nread` finds an item with a key |

All three come from one inductive invariant, `IInv`. `TypeOK` alone is not
inductive: `timer_delete_step` writes `todelete[tj + 1]` and reads
`todelete[ti + 1]`, and `timer_delete_end` cuts the queue at `tj`, which is
well typed only when `tj <= ti <= Len(todelete)` (`TimerBounds`);
`release_item` reads the response of the connection in `who`
(`CallerIsConn`); and `complete_nread` looks up the key of `c->item`, so a
reading connection must have an item (`ReaderHasItem`) and the item a key
(`ItemHasKey`). `ReaderHasItem` has one exception, which the code has too:
`conn_cleanup` frees `c->item` before the connection leaves `conn_nread`.

The argument has three layers. The lemmas on records (`WithItem`,
`WithHashtable`, `WithLru`, ...) say what replacing one field of a store does.
On them rest one lemma per function of `items.c`, `assoc.c` and the allocator,
which states that the function takes a good store to a good store in which no
item has lost its key (`Keeps`, which composes: `KeepsTrans`), and that an
allocation or a lookup answers with a chunk or `NULL` (`Answer`). Then there is
one lemma per action (`...Step`), and `NextIInv` puts them together. `IInv` was
also checked by TLC on the instances of the runs `get` and `cache`.

`ItemStoreReferences` proves, under the same assumptions, the properties for which
the store exists. `Regular` is a condition on states, explained below:

| theorem | statement |
|---|---|
| `RefcountsExact` | `Spec /\ []Regular => []RefcountIsHolds` |
| `NothingDangles` | `Spec /\ []Regular => []NoDanglingReference` |
| `ListsAlwaysAgree` | `Spec /\ []Regular => []ListsAgree` |
| `NothingLeaks` | `Spec /\ []Regular => []NoLeak` |
| `LruStaysSorted` | with `~ SetBack`, `Spec /\ []Regular => []LruSortedByTime` |
| `ResponsesStayIntact` | `Spec /\ []Regular => []ResponseIntact` |
| `QueuedStaysDeleted` | with `LocksTimed`, `Spec /\ []Regular => []QueuedIsDeleted` |
| `DeleteLocksHold` | `Spec /\ []Regular => DeleteLockHolds` |
| `EvictionSpares` | `Spec /\ []Regular => EvictionSparesReferenced` |
| `BoundedServer` | with `NoAlias` and `RefsFit`, `Spec` implies all of them but `QueuedIsDeleted` and `LruSortedByTime` |
| `NotSlabbedWhileLinked` | with `NoAlias` and `RefsFit`, `Spec => []LinkedIsNotSlabbed` |

None of the properties is inductive, and none can be proved without the others: a
chunk is freed when its refcount is 0, which is right only if the refcount is
the number of references; an item is linked or not by a flag, which is right only if
flags, table and lists agree; what a response shows is unchanged only if nobody
reads data into its chunk. `RInv` is `IInv` with:

* `StoreSound`: the store is `Sound` for the chunks that connections own. That is
  `Table` (a key has at most one item in the table, and exactly the items with
  `ITEM_LINKED` are there), `Order` (each of them once in the list of its class,
  in order of use and not later than the clock, unless it is set back) and `Placed` (a free chunk is neither
  linked, referenced nor owned; any other chunk of a mapped page is one of these);
* `RefcountIsHolds` and `ResponseIntact` themselves, and `LinkedIsNotSlabbed`;
* `OwnedApart`, `OwnersRead`, `CallerOwnsNone`: a chunk that is read into has one
  owner, the owner is in `conn_nread`, no flag of the chunk is set yet, and a
  handler that loops over items works for a connection that owns none;
* `InBounds`, `TimerIdle`: positions do not pass the ends of their lists;
* `DeletedIsQueued`: an item under a delete lock has an entry in the delete queue,
  which is why no eviction and no lookup of an expired item can end the lock;
* `QueueSound`: when `LocksTimed`, an item has one entry in the queue, and its flag is
  set. Without `LocksTimed` a second delete of the item queues it again.

`RInv` and `Regular` were also checked by TLC on the instances of the runs `get`,
`cache` and `timer`.

`Regular` excludes the two things that do break the references in the code.
`incr` and `decr` hold the item they change without a reference while they allocate
a longer one, and an eviction may give its chunk to the new one: then
`item_replace` gives back the chunk that it links next. The run `alias` shows it.
And `refcount` is an unsigned short: at `RefMod - 1` one more reference makes it 0.
Both hypotheses are on what is reached, not on what clients do; `BoundedServer`
replaces them by conditions on the constants alone. `NoAlias`: either a
calloc never fails or `mem_cache_alloc` gives nothing back (then no allocation succeeds by
an eviction, as the memory limit is looked at before the free chunks and an eviction does not
lower `mem_malloced`), or there is no incr and decr. `RefsFit`: `RefMod - 1` is
larger than the number of entries of all responses and of the queue. The constants of the
runs `get`, `cache` and `timer` satisfy both. `LocksTimed` says that no delete asks for
a lock until second 0, the value `realtime` also uses for "never".

The second half of `ItemStoreProofs` has the lemmas below the handlers: how a list without repetitions
changes when an item is taken out or put in front (`WithoutCut`, `WithoutRest`, ...), and
then what each operator of `Items` does to a `Sound` store. Each such lemma ends in
one of a few relations between the old and the new store that compose: `Fades`
(unreferenced items may be unlinked and freed, every other item is the same),
`SameRefs`, `LocksStay`. The lemma of a handler in `ItemStoreReferences` follows from these and from
the way its own references are counted, and `NextRefs` puts the handlers together.

`ItemStoreReferences` then proves that the counters shown by `stats` are right:

| theorem | statement |
|---|---|
| `StatsAlwaysAgree` | `Spec /\ []Regular => []StatsAgree` |
| `BoundedStats` | with `NoAlias` and `RefsFit`, `Spec => []StatsAgree` |

`curr_bytes` is a sum over the linked items. It is stated as the cardinality of the set of
pairs of a linked item and the number of one of its bytes (`LinkedBytes`), because a fold
over a set would need an induction over data. `Counts(s)` says it of
a store. An operator either changes neither the counters nor what is linked (`Plain`), or
links one item more or less (`OneMore`) by its size at that time. The invariant needed
beside `StatsAgree` is `RInv`: a chunk that is given to a new item is not linked, and
neither is the item that `complete_nread` or `item_replace` links. Without it an
item could be linked while it is linked, or its chunk get another size under the table.

Last, it proves that the server is the cache its clients are promised:

| theorem | statement |
|---|---|
| `CacheImplemented` | with `FlushTimes = {}` and `~ SetBack`, `Spec /\ []Regular => ImplementsCache` |
| `CacheOfBoundedServer` | with `FlushTimes = {}`, `~ SetBack`, `NoAlias` and `RefsFit`, `Spec => ImplementsCache` |

Each step of a regular server is a step of `Cache` or leaves its variables alone
(`NextPromised`). The invariant is `RInv` again: that a key shows its last value
follows from what `RInv` says of the table, and that a pending command keeps its key from
what it says of the chunks connections own. The proof has two halves.
`KeysFade(s, t, K)` compares what the keys show in two stores, and follows from the
relations of `ItemStoreProofs` between their items (`ItemsFade`, `FadesKeys`,
`NewShows`). `FadeStep`, `BeginStep`, `AbortStep`, `CommitStep` and `ArithmeticStep`
then turn it into a step of `Cache`. `complete_nread` is the hard case: `add` and `replace`
are judged by a lookup that may itself unlink what it finds, and the key must show
before the step what the lookup found (`LookupValue`). `FlushTimes = {}` is needed: a
`flush_all` with a time in the future replaces `oldest_live`, and with it an earlier flush whose
items come back; so is `~ SetBack`, with which neither expired nor flushed items return.
The constants of the run `cache` satisfy all four hypotheses.

The last theorem, `ServerImplementsStore`, is `ServerSpec => Spec`: the loop chooses among the steps of
`ItemStore` and adds none, so that all theorems about `ItemStore` hold inside it.

`MemCacheProofs` proves, for every value of the constants that satisfies
`MemCacheAssumption` (any number of classes, chunks per page and pages, any limit,
with or without preallocation, failing callocs):

| theorem | statement |
|---|---|
| `TypeCorrect` | `Spec => []TypeOK` |
| `ChunkInOnePlace` | `Spec => []EachChunkOnce`: no chunk is handed out while it is in use |
| `ListFits` | `Spec => []ListInsideArray`: the free list stays inside its array |
| `EndPageCounted` | `Spec => []EndPageAgrees`: `end_page_free` counts what is left of the page |
| `NothingLost` | without a failing realloc, `Spec => []NoChunkLost` |
| `PoolImplemented` | without a failing realloc, `Spec => ImplementsPool` |

With these six, every property of the run `pool` is proved; the types are proved only. `EachChunkOnce` is
not inductive: after `slab_alloc_chunk` cut a chunk off the end of the page, the
rest of the page is free only if `end_page_ptr` was in the last page and
`end_page_free` reached exactly to its end; and the chunks of a new page are
unused only if every chunk in use or on the list comes from a page that was
mapped before. `SlabGood` says this of one class (`EndInLastPage`, `ListGood`,
`UsedGood`), and `IInv` of all of them, with `NoneLost` when no realloc fails.
There is one lemma for each thing that happens to a slab (`PopGood`, `CutGood`,
`NewPageGood`, `FreeGood`); `ClassStep` lifts them to all classes, since a step
of one class leaves the chunks of the others alone (`OtherGood`).

`PoolImplemented` also needs that `mem_malloced` is the number of classes plus a
whole number of pages (`Counted`). `Counting` then shows that the limit in bytes
is met exactly when the limit of the pool, in pages and rounded up, is. The same
lemmas about one slab say how its free chunks change, `FreeChange` and
`PagesChange` carry this over to the pool, and `TakeFree`, `TakeNew` and
`GiveBack` match each call with one of the pool. If the realloc of
`slab_free_chunk` fails, the chunk is gone (`slab.c:121`) and neither of the last
two theorems holds.

`EventLoopProofs` proves, for every value of the constants that satisfies
`EventLoopAssumption`, every safety property of the run `loop`:

| theorem | statement |
|---|---|
| `TypeCorrect` | `Spec => []TypeOK`: the time to wait is never negative, so never infinite |
| `OwnersMatch` | `Spec => []ConnectionsMatch` |
| `EpollAgrees` | `Spec => []EventsMatchEpoll` |
| `MaxfdCorrect` | `Spec => []MaxfdIsLargest` |
| `ConnsCounted` | `Spec => []ConnsAccounted` |
| `TimeFresh` | `Spec => []CurrentTimeFresh` |
| `NeverSleepsLong` | `Spec => []WaitBounded` |

Descriptors and time do not meet, so there are two inductive invariants. `FdInv`
says who owns what (`Owners`: one descriptor per client and one structure per
descriptor, and back), that `freeconns` lists free structures once, within its size
(`FreeGood`), and that the fired events are registered and different from the
descriptor being served (`FiredGood`). The last part carries the argument that
no fired event is stale: a handler closes only its own descriptor, and what it
accepts was not registered when epoll returned. `TInv` says that each timer was armed at
a time whose second is at most `lastTime` (`TimersArmed`), so that a clock that is
not behind `lastTime` finds no timer more than a period away; and one that is
behind makes both timers run at once, since their times are then below a second.

`CommandsProofs` proves, for every value of the constants that satisfies
`CommandsAssumption` (any buckets, clients, structures and numbers), every property
of the run `commands`, and one of the table:

| theorem | statement |
|---|---|
| `LineReachesHandler` | a line leads to a handler of data commands exactly if its first word is one; `bg` lines, and no others, lead to `bg_handler` |
| `TypeCorrect` | `Spec => []TypeOK` |
| `BucketsHeard` | `Spec => []BucketAsHeard` |
| `OwnersServed` | `Spec => []OnlyOwnersServed` |

The table needs a proof because prefixes decide and the order counts: `flush_all`
is registered as a prefix without a blank and `slabs reassign ` with `quit_handler`. `Table`
looks at each entry, and the first match of a line is then one whose own first word
is that of the line. The invariant adds to the two properties that no two clients
share a structure (`OneClientEach`) and that a client that has announced a bucket has
a connection to a managed instance and a bucket in range (`HeardGood`). Then the bucket the
code looks at is the one the client has announced (`BucketAsHeard`), `buckets` is what the
clients were told (`owner`), and the two judgements agree (`EntitledIsAdmitted`).

`ConnectionProofs` proves, for every value of the constants that satisfies
`ConnectionAssumption`:

| theorem | statement |
|---|---|
| `TypeCorrect` | `Spec => []TypeOK`: no read takes more than `rlbytes` or `sbytes` |
| `OnlyShrinkLosesRcurr` | every step keeps `RcurrInsideRbuf`, unless `rsize` is above `READ_BUFFER_HIGHWAT` |
| `NeverLosesItsPlace` | `~ Managed => (Spec => []InStep)` |
| `AnswersComeInOrder` | `~ Managed => (Spec => []RepliesInOrder)` |

The second is what is left of `RcurrInsideRbuf`, which the run `shrink` shows to
be violated: it says that `conn_shrink` is the only way there. Its invariant
adds to the type that `try_read_network` runs with `rcurr` at the front of
`rbuf`, where its own first step has moved it, so that a growing or dropped
`rbuf` loses no position.

The last two hold where `settings.managed` is 0, which is the default (settings.c:16;
`-b` sets it): a set that managed mode refuses leaves its data in the stream, as said
above. They are about the bytes that were read, not about where `rcurr` points: that is
the second theorem. `InStep` is inductive but for one fact, that `try_read_network` only runs in
the state `conn_read` (`ReadsInRead`). The stream is what `rbuf`, the socket and the
client hold, one after the other (`Stream`): a read moves units between its parts
(`MoveUnits`, `MoveOne`) and changes nothing, and what takes units off its front
takes part of the data owed (`DataTaken`), or the first two units when no data is
owed: then they are the line of `NextCommand`, and its data is owed next (`NextLine`).

`RepliesInOrder` needs to know how much of the answer is still to come. `Answering`
says that all commands before `cmd` have their whole answers, none of them is `quit`,
and what was sent for `cmd` and what is left of it (`Left`) is its answer;
`Vectors` says that `iov` and `msglist` hold nothing unsent between two commands. It
uses `InStep`: the command that is executed is the one after `cmd`
(`CommandReplies`). When `grow_fails` sends an error, or the connection breaks or ends,
`Answering` is given up, and `Ending` allows one unit more, at the end.

`ResponseProofs` proves, for every value of the constants that satisfies
`ResponseAssumption` (any limits, sizes of arrays, answers and items; any failing realloc),
every property of the run `response`, and the types of its variables:

| theorem | statement |
|---|---|
| `TypeCorrect` | `Spec => []TypeOK`: no length goes below zero, neither while parts are split nor while they are taken apart |
| `ResponseIsExact` | `Spec => []ResponseExact` |
| `AlwaysSendable` | `Spec => []MessagesSendable` |
| `StaysInsideArrays` | `Spec => []ListsInsideArrays` |

A response has two lives, and the invariant `IInv` one part for each. While it is built
(`Building`), no entry has been sent, each message starts where `ensure_iov_space`
would put it (`Placed`), so that moving the array changes nothing, the arrays are large
enough (`Fits`), and `msgbytes` is the number of bytes of the last message: only then
does the test of `add_iov` keep the first message to a datagram. While it is sent, messages
lose entries at their front, `Placed` is no longer true and not needed, since no array moves any
more. What holds of both (`Whole`) is that the entries of each message are in `iov` and behind
those of the messages before it, that messages left behind are empty (`Good`),
and the two properties. `Taken` says that what `sendmsg` took and `transmit` has not
yet subtracted is still in the current message, so that the loop does not pass its
end. `Fits` is not an invariant of all states: `conn_shrink` makes the arrays smaller than
what is used of them, and it is `process_command` that restores it. The lengths of messages
are cardinalities of sets of pairs (`NumBytes`, `Before`), about which the first part of the
module has the lemmas (`CountSplit`, `CountStep`). `IInv` was checked by TLC on the
instance of the run as well.

`SlabClassesProofs` proves both properties of the run `classes`, for every value of the constants
that satisfies `SlabClassesAssumption` and `GrowthAssumption`:

| theorem | statement |
|---|---|
| `FindsSmallestFit` | `Spec => []SmallestFit` |
| `ClassesAlwaysGrow` | `Spec => []ClassesGrow` |

`GrowthAssumption` is what the numbers of `main()` (`memcached.c:1501`) give the loop of
`mem_cache_create`: the first step from size to size is at least the alignment, and
a page is a multiple of it. Without the first, two sizes may be rounded up to the same; without the
second, the last class may be larger than a page. `Growing` is inductive: all classes are smaller than
`chunk_size`, the size before rounding of the next, because a step is never smaller than the
first (`factor` is at least 1) and rounding adds less than the alignment. `FindsSmallestFit`
rests on what the recursive function `Search` computes. It is shown without an induction
theorem: the function of the least class that fits satisfies the equation of the recursion
(`FirstFitTurn`), so the `CHOOSE` that defines `Search` chooses a function that does; and any such
function has one value from class 1 to the class where the loop ends (`TurnsFind`), or
else there would be a least class where the value changes (`LeastOf`, from the well-foundedness of `<`).

Every invariant and action property that a passing run checks is stated by a theorem, and
so is the refinement of `Cache` and of the pool; of `RcurrInsideRbuf` only what
`OnlyShrinkLosesRcurr` says of a step, since a connection can lose it. Model-checked only: liveness
(`DeletedItemsGo`, `CommandsAnswered`, `ReadyIsHandled`), which needs fairness and `ENABLED`,
and the three violation runs, which are counterexamples. What the theorems assume and a run does not: `Regular`,
`~ SetBack` and `FlushTimes = {}` (or the conditions on constants that imply them), `~ Managed` and no failing
realloc, each where it is said above; each run checks its property where they hold.

## Plan

Done: item store, allocator and its pool, size classes, connection, response, event
loop, commands and buckets, with the proofs above. Left:

1. `HashChain`: the chains of `assoc.c` with collisions, refined to the table by key.
2. A composition of `EventLoop` with several instances of `Connection`, in which
   managed mode and a blocked response meet the other clients.

## Not modelled

UDP (its socket is commented out in `main`), statistics other than the two
counters of the store and `curr_conns`, options, daemon, signals, logging, socket
set-up: they run once before the loop or only print. Of `ae.c`, what nothing calls
while the server runs: `aeResizeSetSize`, `aeWait`, `aeStop`, `aeDeleteTimeEvent`, and
writable events, which nothing registers. Negative lengths of data. The text of
responses, and with it `item_cachedump` and the tables of the statistics.
