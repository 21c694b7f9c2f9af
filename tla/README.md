# Formal models of djmount

djmount mounts the contents of UPnP media servers as a file system. It is a
FUSE program written in C over libupnp: SSDP messages announce media servers,
djmount keeps a list of them, and each file system operation is answered by
browsing the ContentDirectory service of a listed server. Three kinds of
threads meet in one process: the pool of libupnp that runs djmount's callback,
a timer thread, and the threads of FUSE. What is hard to get right in it is
what they share: the device list and its mutex, the caches of fetched
directories, and memory that is freed by hand or by talloc reference counts.

The modules here model that part, and the part of libupnp that djmount's
threads and callbacks come from: its thread pools, its timer and its control
point. TLC checks them on small instances and TLAPS proves the main theorems
for every value of the constants. Paths below are relative to `src/`.

## Inventory

| part | state | operations | what makes it correct |
|---|---|---|---|
| device list, `djmount/device_list.c` | `GlobalDeviceList`, `DeviceListMutex`; per node UDN, name, `expires` | `AddDevice`, `RemoveDevice`, `RemoveAll`, `VerifyTimeouts`, event callback, `LockDevice`/`LockService`, `GetDevicesNames`, `Start`/`Stop` | a device is listed once, under a name of its own; nodes are freed once and never while in use; expiry is announced; the mutex is always released |
| device, service, `djmount/device.c`, `service.c` | parsed description, services, subscription id, state variables | `Device_Create`, `SubscribeAllEvents`, `GetServiceFrom`, `UpdateState`, actions | no subscription outlives its service; an event or a renewal reaches the service it is about |
| cache, `djmount/cache.c` | table of entries with `rip` and data, `next_clean` | `Cache_Get`, cleaning, purge | nothing older than its age is served, the address returned stays valid, data is freed once, garbage is bounded |
| content directory, `djmount/content_dir.c` | cache and mutex, results with reference counts | `Browse`, `Search`, `GetSearchCapabilities`, destruction of results | a result stays allocated until destroyed, nothing leaks, retries skip no object |
| DIDL objects, `djmount/didl_object.c` | parsed attributes | create, destroy | an object without id is refused |
| file system, `djmount/vfs.c`, `djfs.c` | search history and its mutex | resolution of a path in one pass, `_search` directories | lookup and listing agree; the history is bounded and has no duplicates |
| file contents, `djmount/file_buffer.c` | size, URL or text | `FileBuffer_Read` by HTTP range | exactly the bytes asked for, never more than the buffer |
| media files, `djmount/media_file.c` | - | choice of a resource and extension | text only |
| classes, `djmount/object.c` | class records initialised at first use | class lookup, construction | initialised once, before any use |
| text: `charset*.c`, `string_util.c`, `xml_util.c`, `upnp_util.c`, `log.c` | conversion descriptors, log options | conversions | buffers large enough |
| containers: `ptr_array.c`, `talloc_util.c` | - | array operations | capacity |
| program, `fuse_main.c` | options | start, FUSE callbacks, stop | nothing runs on after stop |
| thread pools, `libupnp/threadutil/src/ThreadPool.c` | three queues, a slot for a persistent job, two counters | `ThreadPoolAdd`, `ThreadPoolAddPersistent`, `WorkerThread`, `ThreadPoolInit`, `ThreadPoolShutdown` | each job runs once or is freed; counters are exact; every call returns |
| timer, `libupnp/threadutil/src/TimerThread.c` | events ordered by time, a thread | schedule, remove, shutdown, the thread's loop | it sleeps no longer than until the next event |
| control point, `libupnp/upnp/src/ssdp/ssdp_ctrlpt.c`, `gena/gena_ctrlpt.c`, `genlib/miniserver/miniserver.c`, `api/upnpapi.c` | handle table, searches, subscriptions, state of the miniserver | search, subscribe, renew, unsubscribe, events, `UpnpFinish` | one timeout for each search and subscription; nothing is left at the end, and it comes |
| HTTP, `libupnp/upnp/src/genlib/net/` | per request: a socket, a buffer with a scanner, the state of the entity | open, read, close a GET; parsing in pieces | the entity and nothing else is given, however it is cut and encoded; calls end |
| XML, `libupnp/ixml/`, SOAP | buffers of one thread | parsing, printing | functions on texts |
| `talloc/`, `gl/` | - | third-party libraries | assumed; modelled where djmount relies on them |

Interactions: libupnp calls `EventHandlerCallback` from any thread of its pool,
several at a time. `AddDevice` releases the mutex while it downloads a
description. FUSE calls `VFS_Browse`, which calls a service with the mutex of
the list held (macro `DEVICE_LIST_CALL_SERVICE`), so the whole of a `Browse`,
with its requests to the server, runs under that mutex and under the mutex of
the cache. The result is read and destroyed after the mutex of the list is
released. The timer takes the mutex for each sweep. Names fetched for the root
directory are read without it.

Hard behaviours: handlers of the same device that overlap; a ByeBye lost or
overtaken by a download; expiry against a late answer; sharing of fetched
children between readers while entries expire; removal of a device whose data is
in use; servers that answer with fewer objects than they announce; time limits.
`PROJECT.json` lists each hazard at its line.

## Modules

### DeviceDirectory and DeviceList

`DeviceDirectory` is the abstract specification: a map from UDN to name, in
which a device enters under a name nobody has, keeps it, and leaves.

`DeviceList` is the code. Each thread has a `pc`; a worker handles one SSDP
message at a time, and may receive any message at any time, which covers loss,
repetition, delay and reordering. A critical section that touches only memory
is one action; one that waits for the network keeps `lock` over several actions.

| action | code |
|---|---|
| `ReceiveAlive`, `AddKnown`, `AddUnknown` | `AddDevice` up to the unlock before the download |
| `Download`, `DownloadFails` | download, `Device_Create`, check of the service type |
| `AddDuplicate`, `AddInsert`, `AddNotify` | second lookup, insertion, subscription and notification |
| `ReceiveByeBye`, `ByeUnlink`, `ByeFree`, `ByeRelock`, `ByeUnknown` | `DeviceList_RemoveDevice` |
| `Report` | the status string that both messages make at their end, which takes the mutex again |
| `SweepStart`, `Tick*`, `SweepEnd` | `VerifyTimeouts` |
| `RemoveOne` | `DeviceList_RemoveAll` |
| `LockDevice`, `LookupFound`, `LookupFails`, `CallReturns` | the macros that call a device or service |
| `GetDevicesNames`, `ReadNames` | names for a directory listing |

A node is an address that can be allocated again after it is freed, so a use
after free is a use of a node that is not in `live`. The suffix of
`make_device_name` is chosen by `FirstFree`, with a name that already looks
numbered in the set `Base`. libupnp drops advertisements whose `max-age` is not
positive, hence `MaxAge \subseteq Nat \ {0}`. `asked` (searched for since the
last advertisement), `seen` (what an observer of the callbacks knows) and `gone`
are history variables.

### Cache

`Cache` is `cache.c` in the variant that is compiled (a hash table, without
fixed size). `slot` is the entry whose `&data` the caller holds between
`Cache_Get` and its store, during which the clock may advance. `born` is the
time at which a datum was asked for. The clock stops at `Horizon` in runs.

### ContentDir

`ContentDir` composes readers, the two mutexes and the cache (`C == INSTANCE
Cache`). A reader takes the list mutex (`Browse`), takes the cache mutex and
looks up its key (`CacheGet`), then shares the children found (`Hit`), or
fetches and stores new ones (`Fetch`, `FetchFails`), and releases both. Later
it destroys its result; `talloc_free` is split into its test of the reference
count (`DestroyResult`) and its effect (`Drop`, `FreeLast`), since that is what
the mutex protects. `RemoveDevice` follows talloc: the four contexts between the
children and the root each try to free them. With `Quiet` the device leaves only
when no result is in use.

### Subscription

`Subscription` takes a device from its insertion on: `Insert`, `Subscribe`,
`StoreSid` are the end of `AddDevice` with `Service_SubscribeEventURL`, split
where another thread can come between: after libupnp has put the subscription
in its list (`client`) and before `serv->sid` is stored, both with the mutex
held. `RemoveDevice` and `Expire` unlink a device, and its destructor
(`Unsubscribe`) runs without and with the mutex. The GENA side is libupnp's:
`ReceiveEvent` and `Renew` start in any thread for a subscription in `client`,
and `HandleEvent`, `Resubscribe` and `NothingToRenew` are djmount's callbacks,
which first need the mutex. `ServiceFromEventURL` compares with control URLs, as
`Device_GetServiceFrom` does; a device is `Mistakable` when this can find it.
Callbacks of asynchronous subscription calls, which djmount never makes, are
left out. `publisher` and `heard` are history variables.

### FileBuffer

`FileBuffer` is `FileBuffer_Read`. A byte is its position in the file, so a
wrong byte is a wrong number. `ReadText` is one step. `ReadURL` adjusts the
size, `Open` sends the request and chooses what the server sends, `Read` is one
turn of the loop. `fileSize` is any size that a server tells, right or wrong,
unknown (-1), or the default of `MediaFile_GetResSize` (8 GiB in the code, the
largest `off_t` in the model); a read goes to the end of the file, or of the size
that was told if this is smaller (`ToldEnd`). An error of libupnp becomes `EIO` or
`ENOMEM`. `OffMax` is the largest `off_t` and so gives the
width of a word: `Adjusted` and `Overflows` compute without sign modulo
`2 * OffMax + 2`, as C does with a `size_t`. What a call of
`UpnpReadHttpGet` returns is left open: any part of the rest of the entity.

### HttpGet and FileGet

`HttpGet` is the code of libupnp behind these calls: `http_OpenHttpGetEx`,
`http_ReadHttpGet`, and the parser of `httpparser.c`, which is called again on
its buffer whenever more was received.

| action | code |
|---|---|
| `SendChunk`, `SendLastChunk` | the server |
| `Connect`, `Receive`, `ServerCloses`, `ReceiveFails` | the request; `sock_read` and what follows it |
| `ParseResponseLine`, `ParseHeader`, `EndHeaders` | `parser_parse_responseline`, `parser_parse_headers` (also for the headers after the last chunk) |
| `GetEntityReadMethod` | `parser_get_entity_read_method` |
| `ParseUsingLength`, `ParseChunkSize`, `ParseChunk`, `ParseUntilClose` | one turn of `parser_parse_entity` by `ent_position` |
| `ReadAgain`, `Available`, `Given` | the begin and the end of `http_ReadHttpGet` |

The stream is a sequence of tokens, and `Receive` takes any part of it, so
every cut of an answer occurs: inside the size of a chunk, between CR and LF,
between a header and the line that shows that it is over. `EndOfLine`,
`StatusLine`, `HeaderLine` and `SizeLine` match tokens from the cursor and tell a
mismatch (`NoMatch`) from a match that needs more (`Incomplete`). A status line
and a header are one token each, since a cut inside them is only one more
`Incomplete`; the digits of a size are tokens, since a number cut in two is a
number too. `ParseChunkSize` and `ParseChunk` take the heads and ends of
chunks out of `msg`, and move no byte that is already counted. `Forms` are the
ways to send an entity: with a length, to the end of the connection, in
chunks; and an answer called chunked without sizes, which
must be refused. `Beginning` is what is sent at once; `SendChunk` and
`SendLastChunk` send chunks of any sizes of one or two digits, and after the last
one perhaps a header. They are all sent before any is
received, which orders nothing: a part of the stream that is not yet received is
to the parser what is not yet sent. The server may close the connection before the end. Lines of
the head end with LF only (accepted as CRLF by the scanner) and those of chunks
with CRLF. `left` is what is left of the time limit; `sock_read_write` takes 0
for no limit, as `select` is then called without one.

`FileGet` composes the two: `FileBuffer_Read` as in `FileBuffer`, each of its
calls being the actions of `HttpGet`. `entity`, what is still to be sent in
`FileBuffer`, is kept as a history variable, so that every behaviour of `FileGet`
must be one of `FileBuffer`: `ReadsAsPromised`, which adds that an answer in good
order is never refused by the parser.

### BrowseAll

`BrowseAll` is the request loop of `BrowseOrSearchAll` against a server that
returns any part of what is asked for, announces any total, or fails. `Created`
are the lists of objects that `BrowseOrSearchAction` makes of an answer:
containers first, each kind in the order of the answer, without the malformed
ones, of which `DIDLObject_Create` makes nothing. The code asks for the rest from the
number of objects made on, not of those returned, so objects come again after a
refused one. `FirstObjects` says what holds all the same: no well-formed object is
skipped, and none comes twice when none was refused. Its actions have names of their own (`CollectSpec`, `stage`), so that one
module of proofs can extend it together with `ContentDir`.

### FileTree

`FileTree` is `djfs.c` on the macros of `vfs_p.h`: what a FUSE thread does with
one path. `Query` begins an operation. `Step` takes one component of the path:
the entries of the directory (`Entries`) are in the order of the code, and a
walk enters the first that matches (`goto cleanup` in the macros) or, at the end
of its path, lists them all. A component that needs the server takes two steps:
`LockList` takes the mutex of the device list (`lister`), and `Answer`,
`AnswerCaps` or `AnswerNew` releases it with what the server said. A walk that
meets `_search` takes `search_hist_mutex` (`LockHistory`, `Recall`, `ListLinks`)
and keeps it to its end (`owner`, `depth`, `Unlock`; it is recursive), so it is
held over requests; the order with the list's mutex is the same everywhere,
which the deadlock check confirms. `hist` is `search_hist`; a record of `walk` remembers
the entry its criteria point into (`from`), which makes a use after eviction
visible. A listed device may refuse any request (`Unanswered`), as one that is gone
must; without the metadata of the root a walk ends, without its children it still asks
for the capabilities, in vain (`AsksCaps`). `calm` is a history variable: during the
walk no device came or went, and none refused an answer.
Objects, names and answers of the server are constants. Two sorts of media
stand for all (a file or none); playlists and file sizes are left out.

What the tree is without threads, locks and history is stated apart:
`Entries(list, p)` is what a directory `p` contains when the devices in `list`
are there, `Child` what one name leads to, `Trail` where each prefix of a path
leads, `Meaning` the type of its end and `Outcome` the result an operation owes
it. The operators take the list as a parameter, so that a walk can also be
compared with the tree of a list that is no more. `Begin` is the root of the
tree, which the empty path enters like any directory: `readlink` of it is
`EINVAL`.

### ThreadPool

`ThreadPool` is `ThreadPool.c`. All of it runs under one mutex, released only by
waits on conditions, so a step is the code between two waits. `Worked` is a
worker's next step by its `pc`; `Add`, `AddPersistent`, `PoolInit` and
`Shutdown` start the calls, and the actions of `Continued` end their waits. A thread
may fail to be created at any time: the pool then goes on with those it has, or,
while its first ones start, is shut down by `ThreadPoolInit` (`CleanUp`).
`Bumped` is `BumpPriority`, `CanCreate` the test of `AddWorker`, `Signal` wakes
one sleeper of the condition. `CreateWorker` waits until `totalThreads` differs
from the value it read, and believes that its thread has started. That belief
is wrong when two creations overlap or a thread leaves during one. Then the pool
can exceed `maxThreads`, a call can wait forever, and a thread can start after
the mutex is destroyed. `crossed` is a history variable that records this
case, and `ThreadsBounded`, `JobsEnd` and `CallsReturn` claim something only
without it; `CountsExact` and `JobsOnce` hold always. That the excepted case is
real was seen by checking the same properties without `crossed`: it is a flaw of the code
(`ThreadPool.c:608`), which these three properties do not catch. `JobsEnd` and
`CallsReturn` have a second exception, `Occupied`: if for ever all threads that could
be created have persistent jobs, other jobs wait, and so does a further
`ThreadPoolAddPersistent`.

### Timer and ControlPoint

`Timer` is `TimerThread.c`. Its thread keeps `timer->mutex` in its loop
(`timer.pc = "loop"`) and releases it to wait; callers hold it for one step.

`ControlPoint` extends it with the client side of libupnp.

| action | code |
|---|---|
| `SearchAsync`, `SearchByTarget`, `SearchScheduled`, `searchExpired` | `UpnpSearchAsync` to the timeout of a search |
| `Message`, `Reply`, `send_search_result`, `Callback` | `ssdp_handle_ctrlpt_msg` and the jobs for results |
| `genaSubscribe`, `Ask`, `Granted`, `Subscribed` | `genaSubscribe`, under `GlobalClientSubscribeMutex` |
| `genaUnSubscribe`, `Renew`, `RenewAnswered`, `Renewed`, `RenewFailed` | unsubscription, `GenaAutoRenewSubscription` |
| `Event`, `EventAgain` | `gena_process_notification_event` for the first event |
| `Stop`, `genaUnregisterClient` ... `RecvPoolShutdown` | `DeviceList_Stop` and `UpnpFinish` in their order |
| `StopMiniServer`, `SendShutDown`, `RunMiniServer` | `StopMiniServer` up to its socket, its loop of datagrams, the thread they end |

`GlobalHndMutex` is held over two steps only where an event is scheduled, since
`TimerThreadSchedule` computes the time before it waits for the mutex of the
timer: two schedulers could be reordered there. `device` is what the device
believes of each sid. Data is abstract: an answer matches any subset of the
searches, the lifetimes of searches and subscriptions are 0 to `MaxWait` or,
for a subscription, infinite (`Endless`). `Receiver` and `Notified` are jobs of
the same pool, split by what they do. The callback after an expired search does
nothing in djmount and is part of the step. What djmount does when a renewal
failed is in `Subscription`. A thread that searches while the mutexes are
destroyed is left out: `DeviceList_Stop` cancels the timer thread of djmount
only later, and cancellation cannot hit it inside a step. `malloc` does not fail.

The comment of `UpnpUnRegisterClient` (`upnpapi.c:1326`) says that no callback
follows its return. In the model, as in the code, a receiver that copied the
callback before may still call it, until the pools are shut down; this is why
`EndIsQuiet` speaks of the return of `UpnpFinish`, before which djmount frees
nothing.

## Runs

| run | question | bounds |
|---|---|---|
| `device_list` | safety of the list and its refinement of the directory | 2 devices named `tv` or `tv_2`, 3 nodes, 2 workers, timer, refresh, 1 reader; 621 thousand states |
| `device_list_live` | a departed device is forgotten; the mutex is released | 1 device, 2 nodes, 2 workers |
| `cache` | freshness, valid slots, single free, bounded garbage | 3 keys, 3 data, age 2, period 1, clock to 7 |
| `content_dir` | sharing, release, use of the cache, return of each Browse | 2 readers, 2 keys, 3 data, age 1, clock to 3 |
| `content_dir_removal` | (violation) the device leaves while a result is used | same |
| `browse_all` | the objects collected, and how few requests | up to 5 objects, 2 of them containers, 2 refused; totals of 0 to 6 |
| `subscription` | no orphan, no lost event | 3 threads, 2 devices, one with equal control and event URLs, 3 subscriptions; 288 thousand states |
| `subscription_renewal` | (violation) after a failed renewal a stale sid stays | URLs all different |
| `file_buffer` | the bytes read and their number, the parser against what `FileBuffer` expects of it, the return of each read | words of 3 bits, files of up to 3 bytes, every offset, every size told, reads of 2 and 7 bytes, sizes of chunks of 2 binary digits, 1 second; 267 thousand states |
| `file_tree` | history, criteria, agreement of lookup and listing, return of each operation | 2 threads, 4 objects, 2 of them of one name, 1 device that may leave or refuse, 3 searches for 2 places in the history |
| `thread_pool` | counters, each job once, number of threads, return of each call | 4 threads, 1 persistent and 3 ordinary jobs of all priorities, 1 to 2 threads, ratio 0; any creation may fail |
| `control_point` | timeouts, first events, the end of the library | 1 search thread, 1 receiver, 1 event, 1 subscription, 2 scheduled events, clock to 1, a socket or none |

Why the bounds are enough: two workers make every pair of handlers overlap, with
the timer and a reader besides; a third worker adds no new pair. Three nodes let
both workers hold one while a third is listed. In `device_list_live` the
constants `NoNode` and `NoDevice` are the sets of nodes and devices, which are
values that differ from their members. In `cache` the clock runs
through two lifetimes and three cleaning periods. In `content_dir`
an entry is made at 1, expires at 3 while its children are in use, and is
fetched again, by which time the other key is cleaned. In `subscription` three
threads are enough for a handler, an event and a renewal at once, and three
subscriptions for one that is replaced while a late callback for an earlier one
is pending. In `browse_all` a refused container and a refused item of five objects can
each be before, between and after others, in every cut of three answers. In
`file_buffer` words of 3 bits make every difference wrap, a read
of 2 bytes ends within a file or beyond it and one of 7 overflows, and
binary digits give 3 bytes a size of two digits that can be cut; 3 bytes make
up to three chunks. In `file_tree` one thread searches
within results while the other lists or reads what it made, and a third search
evicts one of theirs. In `thread_pool` a fourth thread lets two be created while
two run, and the ratio 0 makes each added job ask for a thread. In
`control_point` two scheduled events are a search and a renewal, or a renewal
that is renewed, with two different times; a second receiver would only wait
for the mutexes the first one holds (the proofs are for any number). With three devices whose names
clash pairwise the suffix is not model-checked but proved (`NamedApart`).

Fairness. `DeviceList!Fairness`: started handlers go on because calls to the
network end (libupnp bounds them), the timer thread runs until it is cancelled,
and a mutex released again and again is obtained (strong fairness). No message,
request or refresh has to come. `ContentDir!Fairness` is the same for readers. A
FUSE thread need not browse. `FileGet!FairGetSpec`: steps that wait for nobody are taken,
a connection is made or refused (the limit of TCP), and a wait with a limit
ends; of the server nothing is assumed. `Returns` therefore excepts the wait
without a limit that follows when `left` comes to exactly 0, and does not catch that
flaw (see below). `FileTree!FairSpec`:
threads run, servers answer or refuse, and a mutex released again and again is obtained
(strong fairness). `ThreadPool!FairSpec`: threads run, ordinary jobs end, time
passes; persistent jobs need not end before they are told to. In
`ControlPoint!FairSpec` every thread runs, the clock runs, and requests end (this
and the same assumption elsewhere leave out the exception of `Returns`);
`RunMiniServer` is strongly fair because `StopMiniServer`, once it has a socket,
repeats its datagram until it has arrived, and nothing is assumed of messages from devices. Runs
with `CHECK_DEADLOCK FALSE` are those in which everything may be over.

### What the violations show

* The comment at `cache_free_expired_data` says that children are freed when
  their count drops to zero. When a device is freed, talloc drops one
  reference per context, so children in use are freed with it; `DestroyResult`
  then locks a mutex of the freed service.
* The callback for a failed renewal looks the service up by event URL, but
  `Device_GetServiceFrom` compares with control URLs. The service keeps an id
  libupnp has dropped and hears of no more changes.

More flaws were met while modelling and have no run of their own. Three of them a
property excepts by name, since the property would otherwise be false:
a read of a server that falls silent can wait for ever, though `UpnpReadHttpGet`
documents a time limit (`upnp.h:2299`), when the seconds used so far equal the
limit (`sock.c:205`; without its exception TLC refutes `Returns`); two overlapping
`CreateWorker`, or a thread that leaves during one, break the limits of the pool or
leave a call waiting (`ThreadPool.c:608`, `crossed`); and `StopMiniServer` that gets no
socket returns without telling the miniserver to end, so that `UpnpFinish` waits for
ever for its thread (`miniserver.c:869`, `NotTold` in `StopReturns`). The last is
within reach, because
`http_OpenHttpGetEx` frees the handle of a bad answer without closing its socket
(`httpreadwrite.c:2174`), which uses up descriptors. Besides, `DeviceList_GetDevicesNames` returns pointers into nodes that a ByeBye or a
timeout can free before `BrowseRoot` has copied them (`device_list.c:811`);
`FileBuffer_Read` ignores the HTTP status, so the page of a 404, or the start
of the file from a server without ranges, is given as the bytes at the offset
(`file_buffer.c:205`; `FileBuffer` assumes the status asked for); the retry of
`BrowseOrSearchAll` begins at the number of objects made, so after a refused object it
requests one that may be there already, and the directory lists it twice
(`content_dir.c:318`; `FirstObjects` allows this and no more); and entries of one name
are all listed though only the first can be opened (`TODO:34`; `ListedIsFound` says
exactly that).

## Proofs

`DeviceListProofs` proves, for any sets of devices, nodes, workers and readers,
any names and lifetimes: type correctness, `UniqueIds`, `UniqueNames`,
`OneOwner`, `CalledIsListed`, `ObserverExact`, `ExpiryIsAnnounced`, and that the
list implements `DeviceDirectory`. None of these is inductive alone. The
inductive invariant `IInv` adds which `pc` holds the mutex, what a worker's
pointer means at each `pc`, that a sweep's `todo` is listed, and that `seen` is
exact up to the one insertion that is not yet announced. One lemma per action
shows that it preserves `IInv`; the theorems follow. The assumptions are those
named in `DeviceList`.

`CacheProofs` proves the five properties of `Cache` for any keys, ages
and periods. `IInv` adds that no entry expires later than `MaxAge` after its data
was asked for, and that none expired before `nextClean - CleanPeriod`.

`SubscriptionProofs` proves `TypeOK`, `NoOrphan` and `EventsApplied` for any
threads, devices, URLs and number of subscriptions, from the assumptions of
`Subscription`. `NoOrphan` says nothing while the mutex is held, and so cannot
be inductive. `IInv` adds `LockInv` (who may hold the mutex at which `pc`),
`WorkInv` (what a worker's device and sid stand for), `SidInv` (a
device that is not listed has no sid) and `OwnInv`: a sid that libupnp knows
belongs to its listed service, to the worker about to store it, or to a
destructor. Devices that are `Mistakable` are excepted: with equal control and
event URLs a late callback can replace a live sid (see the hazards).
`EventsApplied` follows because the handler needs the mutex, which is not
released between the answer to `UpnpSubscribe` and the store.

`ControlPointProofs` proves type correctness, `EndIsQuiet`, `TimerAlive`,
`FirstEventKept`, `NextIsAwaited` and `OneTimeoutEach` for any number of
receivers, events, subscriptions and any bounds. Three invariants carry them.
`EndInv` says for each stage of the end what is left: only a registered client
has the handle mutex over a step, the timer is stopping only while Main waits for
it, its queue stays empty from then on, and so down to the receivers. A search or a renewal
that the end overtakes finds no client, which is why it cannot schedule:
`TimerAlive`. `SubsInv` says that a sid the device has granted is in the list,
or a receiver holds `GlobalClientSubscribeMutex` and is about to add it; who gets
that mutex after waiting sees the list complete, which is `FirstEventKept`.
`JInv` is about the timer: its queue is in the order of the times although the
time of an event is computed before the mutex of the timer is taken; an id is
new, in the queue, handed to the pool, or its job has begun, and never in two of
these places; and what the lists note for a search or a sid agrees with that.
`OneTimeoutEach` is not inductive without the case in between: a renewal under
way, whose subscription is in the list with no event noted. `BoundInv` adds the
bounds of the clock and of the pools, for the types. What
`InsertAt` and `RemoveAt` do to the order and to the members of a queue is stated
once, as lemmas on sequences. Assumed is that threads, events, jobs and sids are
distinct, and that the bounds are numbers.

`ContentDirProofs` is about both levels of `content_dir.c`. For the requests of
one fetch (`BrowseAll`) it proves `ShortOnlyIfRefused`, from the fact that the
requests made are the retries counted, and `FirstObjects`, whichever objects are
refused: since fewer objects are made than are returned, the next answer begins where
the last one ended or before, and leaves no gap (`AnswerContinues`). For `Browse` it proves type correctness,
`OwnersCounted`, that results are usable while the device is there, that the
cache is used as `Cache` specifies (`UsesCacheAlone`, a refinement), and with
`CacheProofs` that no lookup finds children older than `MaxAge`
(`BrowsedFresh`). The inductive invariant is split. `Protected` (who
holds which mutex at which `pc`, what a reader between lookup and store refers
to) survives the removal of a device at any time. `CountInv` (references equal
results, everything allocated has an owner) survives it only with `Quiet`, which
is why `TypeCorrect` and `CountsOwners` assume it: `content_dir_removal` shows
what happens without.

`ThreadPoolProofs` proves type correctness, `CountsExact`, `JobsOnce` and
`ThreadsBounded` for any finite number of threads, any jobs, priorities and
limits.
`JobInv` gives each job that is held its one place (queue, slot, thread), which
`BumpPriority` must preserve although it moves jobs from level to level.
`CreatorInv` says, as long as no two creations crossed, that one thread at most
is between its creation and its start and that the call that created it still
waits; without it the bound on threads is not inductive, since a second call
would read `totalThreads` before the first thread has counted itself.

`FileTreeProofs` proves for any tree, paths and threads: type correctness,
`HistoryExact`, `CriteriaAlive` (for a history of at least one place; with none,
`BrowseSearchDir` adds and evicts the word at once), that a thread whose
operation is over does not hold `search_hist_mutex`, and that no operation
succeeds before the end of its path. The invariant says who holds the mutex: a
walk that did not find its word in the history keeps the mutex until it adds the
word, through the request to the server, so the word is still missing then; and a
walk whose criteria point into an entry keeps it to its end, so that the entry
is not evicted.

The second half of the module proves `ResultByPath` (`MeaningOfPaths`) and
`ListedIsFound` (`ListedCanBeFound`), with a second invariant, `JInv`. A walk
takes a path in steps of several threads, with answers and a history between
them; `JInv` says that at each moment it stands where the components it has
taken lead (`Tracks`, `Stands`):

* at a `pc` between two steps, its place is the place of `Trail` or one from
  which that place follows (`Walking`, `Waiting`, `Questioning`): the children not
  yet asked for, the capabilities not yet known, the word already appended to
  the criteria and not yet searched;
* whatever it has passed over in a directory does not bear the name it looks for;
* what a name it has listed leads to is an entry it has listed (`Lists`);
* if a device has come, gone or refused (`calm` is false), the same holds for *some* set
  of devices, as far as searches are concerned. This is not needed for the
  walk itself, whose result is then free, but for the history it writes: a
  search made by such a walk is offered to all others;
* each entry of the history is what its word leads to (`Remembered`), in every
  list of devices in which its parent is a directory of searches. This
  is why a directory may list and reuse the searches of other threads.

Without the last two, a walk that reuses a search would stand nowhere. TLC
checked `JInv` exhaustively on the instance of the run `file_tree`, for histories
of one and two, and on one of three devices before it was proved.
`Trail` is a function over the prefixes of a path; what it is at each prefix is proved
by the least counterexample (`NoCounterexample`), which needs no induction rule with
an operator as parameter.

One hypothesis is stated in the theorems, about constants only. `HitsAreObjects`:
`Search` answers lists of objects. Names are free. A device may be called `devices`, and
a container like the file beside it: such entries are both listed, with two types,
and a look-up finds the first (`src/TODO:34` asks for more). `ListedIsFound` therefore
says that what a listed name leads to is an entry of the listing; one that has
its name for itself is found with its own type.

`FileBufferProofs` proves type correctness and `ReadsFile` for any width of
`off_t`, file, size told, offset, size asked and cut of the answer. The invariant
says that the bytes copied so far are those of the file from the offset on and
that the rest of the entity continues them. `AdjustedFacts` is the arithmetic:
the adjusted size wraps only where the test on the offset excludes it, is never
more than what was asked, and leaves out no byte of the file below the size that was
told.

The second half of the module proves `ReadsAsPromised` (`AnswersAreRead`): every
behaviour of `FileGet` is one of `FileBuffer`, so that `ReadsFile` holds of it too
(`FileIsRead`), and the parser refuses no answer but the one without sizes. This is for
any entity, any division of it into chunks whose sizes have one or two digits to
any base (`MaxChunk` is a bound of the model), and any cut. The invariant is about
`msg \o stream`, the bytes in the buffer with those that still come, so that
receiving changes nothing of it:

* `Early`: before the method of reading is known, the cursor is at the beginning, after
  the status line or after a header, and what is parsed is what was sent;
* `Late`: after it, the first `entityLength` bytes from `start` on are the first
  of the entity (`Known`), and what follows the cursor is what each method counts on
  (`Ways`): all the rest (`Whole`), the rest in chunks (`Chain`), the rest of one
  chunk and then the others, or the headers after the last one (`EndAt`).

`Chain` is stated without recursion, by the set of the ends of chunks and the place of
each. When the head or the end of a chunk is taken out of the buffer, all that comes
after moves back by its length (`ChainShift`); when a chunk is sent, the chain
grows at its end (`ChainGrows`). The scanner is the other part: on each piece
of a form it finds the whole token, or `Incomplete` as long as a part of it is missing, and
never `NoMatch` (`EndsWithCRLF`, `HeaderScanned`, `HeadScanned`); a number is one
only when what follows it was received. `Parsed` then goes through the actions of the
parser one by one. TLC checked the invariant on files of up to 3 bytes, with
`Chain` written recursively, before it was proved. `http_ReadHttpGet` gives all
that it can, so a step of `GetRead` is a `Read` of the largest number of `Chunks`;
`FileBuffer` also allows the others, since `FileBuffer_Read` counts on no more.

A type invariant is not checked by a run of its own where a theorem
`TypeCorrect` proves it (`DeviceList`, `Cache`, `Subscription`, `ContentDir`,
`ThreadPool`, `FileTree`, `FileBuffer`, `ControlPoint`). The assumptions are
those named in the modules, which TLC evaluates on every run, and the hypotheses
that theorems state themselves.

Only model-checked: liveness (`GoneIsForgotten`, `LockReleased`, `BrowseReturns`, `Returns`,
`QueryReturns`, `JobsEnd`, `CallsReturn`, `SearchEnds`, `StopReturns`), which the
prover cannot express under fairness. Every other property of a passing run is a
theorem.

## Not modelled, and why

* Lazy class initialisation (`object.c`): planned, see below.
* The device side of libupnp. djmount's `configure.ac:288` builds it with
  `--enable-client --disable-device`, and `libupnp/configure.ac:44` then leaves out
  the web server: `gena_device.c`, `soap_device.c`, `ssdp_device.c`,
  `service_table.c`, `webserver.c`, `urlconfig.c`, much of `upnpapi.c` and the
  samples are not compiled into djmount.
* Of the HTTP parser: requests, messages received whole (`http_RecvMessage`, SSDP,
  SOAP), POST, headers folded over lines, blank lines before a status, and a
  `Content-Length` that is no number or above 2^31. `MakeGetMessageEx` makes text.
* The XML parser (`libupnp/ixml`) and the URI functions: sequential functions from
  texts to trees, used by one thread at a time. They are the larger part of the
  lines of the repository, which is why the modules map a small share of them.
* The asynchronous variants of the calls of `upnpapi.c`, `ThreadPoolRemove`,
  `ThreadPoolSetAttr` and the statistics: djmount does not call them.
* Asynchronous subscription callbacks, actions of services and their arguments.
* A read at the end of a URL: it fails with EIO (the empty range is refused), which
  the properties of `FileBuffer`, about successful reads, do not judge.
* Text (XML, character sets, names of files, playlists, logs): pure functions on
  strings without state shared between threads.
* talloc and gnulib are third-party. Reference counts of talloc are in the models.
* Options and mounting, tests: input and output only.
* Failure of `malloc`, except where a model names it.

## Plan

1. Done: `DeviceDirectory`, `DeviceList`, `Cache`, `ContentDir`, `BrowseAll`,
   `Subscription`, `FileBuffer`, `HttpGet`, `FileGet`, `FileTree`, `ThreadPool`,
   `Timer`, `ControlPoint`, and proofs for all of them. Every property of a passing
   run is proved but liveness.
2. Class initialisation; the other messages of the HTTP parser.
