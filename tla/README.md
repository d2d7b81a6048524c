# A TLA+ model of Meteor++

Meteor++ (`src/`) is a C++ client for Meteor servers: a *minimongo* (collections stored by
EJDB, watched by live queries), a DDP session over WebSockets, and collections that mirror
those of a server. This directory models its own code, about 1300 lines in
`src/src/*.cpp` and `src/include/meteorpp/*.hpp`, and of the vendored WebSocket++ the client
connection that the session runs on: its handshakes, timers, queues and parsers.

Everything runs in one thread, the event loop of Boost.Asio. What is hard is not
parallelism but *re-entrancy*: Boost.Signals2 runs its slots inside the call that emits, so
user callbacks run in the middle of `insert`, `update`, `upsert` and `remove`, and may call
them again. The other hard part is the distance to the server: messages cross each other,
connections fail, and the client changes its copy before the server knows.

## 1. Inventory

| Component | State | Operations | Talks to |
|---|---|---|---|
| **Collection** `collection.cpp` | the EJDB collection; five signals | `insert`, `update`, `upsert`, `remove`, `find`, `count`, `track` | EJDB by calls; live queries and pushes by signals |
| **Live query** `live_query.cpp` | selector, `_results`, four signals | construction, three handlers, `data` | hears of the collection's signals, calls user callbacks |
| **Documents** (in `collection.cpp`, `live_query.cpp`) | none | `modified_fields`, `match` | |
| **DDP session** `ddp.cpp` | `_conn`, one-shot slots, the method counter | `connect`, `call_method`, `subscribe`, `unsubscribe`, `init_session`, `on_message` | WebSocket++ connections; collections by signals |
| **DDP collection** `ddp_collection.cpp` | a collection, `_idle`, three push connections | the four writes, `commit_*`, `on_document_*`, `on_initial_batch`, the slot of `on_synchronized` | its base class, the session, the server |
| EJDB and its log | the database file | | external |
| **WebSocket++ connection** `connection_impl.hpp`, `transport/asio` | `m_state`, timers, the send queue and its write flag | `async_connect`, `handle_*`, `send`, `send_close_frame`, `terminate` | Boost.Asio by posted handlers; the session by the open and message handlers |
| **WebSocket++ parsing** `hybi13.hpp`, `frame.hpp`, `utf8_validator.hpp`, `http/` | partial headers, the message being received, bytes needed | `response::consume`, `hybi13::consume`, `get_message` | called by the connection with what it has read |
| nlohmann/json | none beyond a call | | vendored |
| `ddp_monitor` | | | example, prints a live query |

What makes each correct:

* *Collection and live query.* A live query shows what `find` would return. Its
  notifications tell the same story as its data. Neither is disturbed by callbacks that
  write. A call returns if its callbacks do.
* *Documents.* The difference of two versions leads from the one to the other.
* *Session.* The handshake comes first and once on each connection; each answer finds the
  slot of its call, and a slot waits no longer than its connection lasts; pings are
  answered.
* *DDP collection.* The two copies differ only by messages under way; each change of the
  user is pushed once and each change of the server never; no document is deaf to the
  server for good unless a connection is lost; when everything has settled the copies are equal.
  After a loss the copies differ only where a message was lost or nobody asked again.
* *Object lifetimes.* Nothing is called after it was destroyed; a live query follows its
  collection in the shared database whoever comes and goes; a program that dropped everything
  starts with an empty database.
* *Connection.* It is a channel: in both directions messages arrive in order, once, and none
  is skipped, until it closes; its open, fail and close handlers tell one life; an attempt to
  connect ends, a closing handshake ends, no message is left in the queue.
* *Parsing.* What is delivered does not depend on how TCP cuts the bytes; no illegal frame
  passes, no legal one is refused, no message exceeds its limit.

Where each of these can go wrong is listed, line by line, under `hazards` in
`PROJECT.json`.

## 2. The modules

```
Documents ── LiveQuery ── Collection ── MCCollection
    │                         │ refines
    ├──────── LiveView ◄──────┘
    ├──────── DdpCollection ── MCDdpCollection
    │             │   └── Reconnection ── MCReconnection
    │             ▼ refines
    └──────── Replica
Ddp            Lifetimes
Channel ◄─ refines ── WsConnection
Framing, HttpResponse ── Hybi13 ── MCHybi13
Proofs:  DocumentsProofs ── CollectionProofs
              └── ReplicationProofs  (DdpCollection, Reconnection)
         FoldProofs ──┘
              ├── WsConnectionProofs
              └── Hybi13Proofs
         DdpProofs    LifetimesProofs
```

**Documents.** A store maps identifiers to documents, partial functions from fields to
values. `match` is a query by example restricted to a set of ids, `Apply` the effect of
`$set` and `$unset`, `modified_fields` the function of that name. The `_id` is kept out of
the fields, as a selector of its own.

**LiveQuery.** The handlers of `live_query` as pure operators. `_results` is an array; its
handlers look at the elements of one `_id` only, so it is kept as one sequence of copies per
document. Duplicates are thus representable; the order among different documents is not.

**Collection.** `collection::query` changes the whole store first (`ejdbqryexecute`) and then
announces document after document; `insert` announces one. A call is a frame of the
stack `frames`: the events still to announce (`todo`), the one being announced, and the
slots, that is live queries, that have not run (`slots`). The actions are the calls of the
user (`insert`, `update`, `upsert`, `remove`, `track`), `Emit` (the loop turns to its next document,
and Signals2 takes its snapshot of the slots), `DeliverAdded`, `DeliverChanged`,
`DeliverRemoved` (one slot runs, in the order of connection), `Return`, and `Throw` for an exception of a
callback. `insert` lets every `std::runtime_error` pass and `query` every `ejdb_exception`, such as that of a
nested `insert` whose `_id` is not valid, so an exception leaves a call of any kind; the slots and the documents
that are still to come are skipped. The calls of the user are enabled at depth 0 and
whenever the slot that ran last has notified its user. The order in which `query` visits
the documents is left open. `upsert` without a match announces under a generated id.
`rebuilt` is a history variable: what a listener makes of the notifications alone. So is `missed`: the
documents that an exception kept a live query from hearing of, about which nothing is promised afterwards.
`undefined` is set when the program writes through `end()`; nothing is specified
afterwards. The constant `Licence` names what users may do beyond the plain use: write a
document that is being announced (`conflict`), insert an existing `_id` (`overwrite`), throw out of a
callback (`throw`).

**LiveView.** The abstract specification: every live query has a version of the database of
its own and shows exactly the matching part of it; writes run ahead; live queries catch up
one document at a time, straight to the current state; all have caught up when the last
write returns. `Collection` implements it under the mapping `KnownVersions` (the store with
unheard events undone) and `ShownVersions` (the first copy in `_results`).

**Ddp.** Several connections, each with a queue in either direction; `conn` is `_conn`, the
latest one, on which everything is sent. A send on a connection that is not open is lost:
`connection::send` of WebSocket++ returns an error code that class `ddp` ignores. One-shot
slots are sets of ids (`results`, `readies`) and a sequence for `connect`; `asked`, a history variable, has the
methods that were called with a slot. `Liberty` lets
users call early, connect again at any time or without a slot, and lets connections close
and the server refuse. The server and the network are external: they do what the handlers
expect.

**DdpCollection.** The collection that mirrors the server's, over one connection that stays.
A call of the user is a frame again, of which only this is kept: the store changes at once,
then documents are announced, user callbacks run in each announcement, and the pushes that
are connected and not blocked call a method (`Announce` and `Announced`, on either side of the callbacks, in the
order of the slots). A frame has the pushes its message handler blocks and those its
wrapper connects. `idle` is the bimap `_idle`. The handlers of messages run at depth 0.
The server is external: it executes methods in order, tells of every change, and reports a
method as `updated` at any time after its changes. `Liberty` names the uses that the code does not
survive, and uses that only some properties survive.

**Replica** is the abstract specification of that collection: two collections, `here` and
`there`, and the versions `underway` that the client has still to go through. The server takes over
each version of a document that this client writes, one after the other (`Accept`: the
client writes it again only when the versions are equal); of the documents of others, and of all
documents until the collection is ready, the client goes through every version the server
had since it published, in order and without leaving one out (`Follow`). There are no edits,
methods, idle documents, echoes or pushes in it. DdpCollection implements it under the mapping
`here <- store`, `there <- db`, `phase <- Phase` and `underway <- Underway`: what each message
to the client makes of the documents it follows, a prefix of the queue at a time (`Reached`).
Replica leaves more open than the code does: the server may tell of a version or not tell,
and tell of nothing new.

**Reconnection** adds the loss of connections to DdpCollection. `link` is the state of the
session: the first connection, on which the collection subscribed, none, a new one on which
users have not subscribed, have asked to, or have the documents. All of DdpCollection goes
on in each of them, with two differences: nothing passes while the link is down, and the
"ready" of another subscription than the first runs the user's slot, never
`on_initial_batch`. A collection that lost its connection before the initial batch therefore
never accepts a write. `Lose` may come at any moment, in the middle of a call as well.

**Lifetimes.** Who holds whom by a shared pointer, and who is bound to a bare `this`:
collections of all kinds, live queries, the `ddp` and the event loop, as users construct and
drop them while messages arrive. Objects are numbered in the order of their construction;
`held` are the pointers of users, `pinned` the live queries that a callback of their own
holds, as in the README of the repository; `Surviving` is what the pointers keep alive.
`Opened` is the weak pointer `db`: the collection that finds no other one truncates the file.
One document stands for the contents of a collection. `misused` is set when a slot runs on
a destroyed object, or a destructor uses a destroyed event loop. `Liberty` names what the
code does not survive.

**Channel** is the abstract connection that `Ddp` is written against: four sequences of
messages (sent, arrived, published, received) and a status. **WsConnection** is the connection of
WebSocket++ that implements it. Each handler of the event loop is an action; `step` is the
asynchronous operation under way, from `resolve` to `frames`; a timer that expired is
`queued` until its handler runs, and cannot be cancelled any more. The frames of one read are
handled a frame per step, because message handlers run in between and send. `queue`,
`posted`, `flag` and `current` are `m_send_queue`, the posted calls of `write_frame`,
`m_write_flag` and `m_current_msgs`. The mapping takes a closing connection for a closed one:
nothing more is delivered or accepted. `parses` says whether the server's list of extensions does: if not,
`handle_read_http_response` terminates the connection and, for want of a `return`, opens it
when the fail handler has run (`reopen`), on a socket that is shut down (`Refused`). The channel knows of it:
where a closed connection does not stay so (`final` is false, mapped to `parses`) it may open after it closed. Class ddp sets no fail handler, and `reopen`
follows in the same handler of the loop: to a session (`Ddp`) this is a connection that opens late and is lost.

**Framing** has the functions of `frame.hpp` and the UTF-8 automaton, **HttpResponse** the
consumption of a response, and **Hybi13** puts them into the loop of a connection that reads
a byte stream in pieces of any size; what frames and text mean, byte by byte, is what its
properties are about, so these modules do have bytes. A size has up to eight of them on the wire. `SizeT` is the
number of values of a `size_t`, 2^64 in the program: the sum that is held against the limit (`TooBig`) is taken
modulo it. The reference states the protocol over
whole frames: `Legal` says which frame may follow what came before, `Said` what a sequence of
frames says, `Offset` where in the input they end.

### Mutants

Next to some definitions stands a mutant with a suffix (`document_removed_Keeps`,
`Return_Early`): the same operation with a plausible mistake. `PROJECT.json` lists for every
property of the passing runs the mutant that breaks it.

## 3. The runs

| Run | Instance | Shows |
|---|---|---|
| `collection_nested` | 2 documents, 1 field with 2 values, 2 live queries, 2 nested calls | views mirror the store, nobody writes past the end, notifications rebuild the data, `LiveView`; with fairness, every call returns |
| `collection_throwing` | 2 documents, 1 field with 1 value, 2 live queries, 2 nested calls, exceptions out of any call | the inductive invariant `IInv`: live queries are right but for the documents an exception kept from them |
| `collection_past_end` | a callback writes the document being announced | **violated**: undefined behaviour in `document_changed` |
| `ddp_session` | 2 connections, 2 methods, 1 subscription, every liberty | handshake first, a slot waits exactly while a message about its method is under way |
| `ddp_reconnect` | 2 connections, the second after the first is lost, with fairness | one handshake each, answers arrive unless lost, pings are answered |
| `replication` | 2 documents of the client, 1 of others, 3 changes, 3 nested calls, 1 foreign write, with fairness | copies differ by messages only, are equal in the end, and go through each other's versions (`Replica`) |
| `replication_contended` | Reconnection: 1 document of each, 2 fields, 2 changes, 2 nested calls, conflicts, rejections, 2 losses, with fairness | every change is pushed once, only a loss leaves a document idle, a new subscription repairs the others |
| `replication_upsert` | a callback upserts in `on_document_changed` | **violated**: a change is never pushed |
| `lifetimes` | 2 names, 2 objects, 2 live queries, 1 version, 2 messages, no liberty, with fairness | nothing dead is used, live queries follow the store, a fresh start is empty, `on_ready` slots run |
| `ws_connection` | 2 messages sent, 2 frames served, extensions that parse or do not, with fairness | one life, the channel and its promises, no stranded writes, nothing after a close frame, closing ends |
| `frames` | up to 3 frames of 15 kinds, frames at the sizes 125 and 126 and at the message limit, 7 responses, both roles, every way to cut them | parsing agrees with the protocol |
| `frames_cut` | text in fragments that ends within a code point | **violated**: it is delivered |

*Bounds.* Two documents are what an update needs to have one announced and another waiting;
two live queries are what is needed for one to hear of a change before the other; two
nested calls for every interleaving of an inner with an outer call. One field with two
values has documents enter, leave, move within and stay out of the query "field is 1". The
theorems remove these bounds. Two objects are two collections of different names or an
old and a new one of the same; two messages each way are what it takes to have one under way
and another behind it, before and after a close frame. A message in three fragments has a
first, a middle and a last one, with a control frame in place of any; every kind of header
is cut at every byte. For the session two connections are enough to have an old
and a current one, and two methods to have one on each. For replication three nested calls
allow a handler of a message, a callback in it and a callback in that; three changes give
each of the two documents one, and one of them a second. The bounds on writes, pings,
connections, methods, objects and messages (`MaxWrites`, `MaxForeign`, `MaxPings`, `MaxConnections`,
`MaxMethods`, `MaxDepth`, `MaxCopies`, `MaxLosses`, `MaxQueries`, `MaxObjects`, `MaxVersion`, `MaxQueue`, `MaxSend`,
`MaxServed`) are guards of the actions that use them up. `MaxCopies` bounds what exceptions can add up to: a document that was missed and is inserted again is shown
twice. Two losses are what it takes
to lose a connection on which users had subscribed again. Where a bound lets
a run come to an end, its configuration says `CHECK_DEADLOCK FALSE`.

*Fairness.* `Collection` and `DdpCollection`: a call that can go on again and again does,
at each depth, by strong fairness. A callback may write a thousand times, each time
disabling the call it was made from; what is excluded is that it does so for ever. The
event loop gets its turn between calls of the user, and the server answers: Boost.Asio runs
what is ready. `WsConnection`: the loop runs handlers that are due, timers expire, and a write
ends, well or badly, as TCP sees to. It does not assume that names resolve, hosts answer or
servers reply: that the connection gets on is due to its timers. `Reconnection` has the fairness of
`DdpCollection`, for what is enabled while the link is up. No fairness is assumed of users, of the loss of connections or of pings.

*What users may not do.* Most properties hold only for users who leave some things alone, and
the runs say which: do not write a document in a callback while it is being announced, nor
create a live query there while announcements are waiting;
do not insert an `_id` that exists; let no exception out of a callback; write a document of a DDP collection only if no other client does, and again only when its
method was updated; do not upsert in callbacks while the server changes documents, nor remove while it adds or
changes them; do not write in a callback of a write that was made there.
After a reconnection, subscribe again and write only when that is ready.
Do not drop a live query before its collection, nor a DDP collection before the event loop has
stopped, nor the loop before them; have one object for each name; call `on_ready` before the
initial batch arrives. Give `connect` a slot; throw nothing out of a slot.
Of the server it is asked that no frame announces a size near 2^64.
The source states none of these rules. The violated runs show the most instructive
cases; the others are found by adding the liberty to `Licence` or `Liberty` of a run (for
`pending`, `Mirrors` takes four writes, a second field and `MCModifiersTwo` to fail):

* `overwrite` refutes `ViewsMirrorStore`: a live query shows two copies of a document;
* `throw` refutes `ReplaceFindsDocument`: an update of a document that a live query never heard of writes
  through `end()`;
* `reject` refutes `Mirrors`: the local write of a rejected method stays;
* `shared` refutes `Mirrors`: what another client writes to an idle document is dropped;
* `noslot` sets `broken`: an empty function is called out of the event loop;
* `"before"` or `"during"` in `Haste` refutes `SubscribingRepairs`: a document written before
  the new subscription is ready drops the version that would have repaired it, and what it is
  left with is neither the one nor the other;
* a size that wraps refutes `MessagesAreBounded`: `m_bytes_needed` is added as a `size_t` (hybi13.hpp:457) and
  no test looks at the top of a size of eight bytes (frame.hpp:540-585), so after a fragment of k bytes a
  continuation that announces 2^64-k passes, and the message grows past what core_client.hpp:229 promises.
  To see it in the `frames` run take `SizeT = 256` and `MCWrapScripts`, a fragment of 100 bytes and a
  continuation of 156;
* extensions that do not parse refute connection.hpp:54, "Either the fail handler or the open handler will be
  called for each WebSocket connection attempt": both are, as connection_impl.hpp:1629 has no `return`. They are
  in `ws_connection`, whose `HandlersInOrder` says so, under `~parses`; without that disjunct it fails;
* `twins` refutes `FollowsStore`, `drop`, `leave` and `unwind` each refute
  `NothingDeadIsUsed`, and `late` refutes `ReadySlotsRun`.

Two things about a connection are worth knowing though no property fails. The timer of the
opening handshake may have expired, its handler queued, when the response arrives: the
connection opens, and that handler closes it. To the user this is a connection that closed, which no property
can object to. And a close frame with an invalid code is
acknowledged every time it comes.

## 4. The proofs

All of `tlapm`'s obligations are proved, for every value of the constants: any sets of
documents, fields, values, names and ids, any number of live queries, objects, connections
and messages, and any depth of nesting.

*Collections and live queries*

* `DifferenceRebuilds` (DocumentsProofs): applying what `modified_fields` reports to the old
  version gives the new one.
* `TypeCorrect`: `Spec => []TypeOK`, whatever the liberties.
* Under `Disciplined` (users take no liberty but to throw out of callbacks): `InvariantHolds`, `ViewsCorrect`
  and `EventsCorrect`. After exceptions they speak of the documents that none kept from a live query.
* With `Licence = {}`, where nothing is missed (`NothingMissed`): `ReplaceCorrect`, `ChangesCorrect`, and
  `ImplementsCorrect`: `Spec => ImplementsLiveView`. Exceptions refute the first, and leave a version behind
  that `LiveView` has no word for.

The argument. `ViewsMirrorStore` speaks of the moments when no call is in progress, and says
nothing of what happens in between; it is far from inductive. `IInv` states what every
intermediate state keeps:

* `StackShape`: frames above the stack are empty; slots that are still to run exist;
* `AnnouncementsDistinct`: no two unfinished announcements, of any two calls, are of the
  same document;
* `AnnouncementsCurrent`: an unfinished announcement tells of the stored version, because
  nobody wrote the document since;
* `ViewsShowKnown`: of a document that a live query need not hear of it shows the stored
  version; of one it still has to hear of, the version before; unless it missed the document. This is what
  makes `find_if` succeed;
* `EventsRebuildResults`: a listener's copy is the first and only one in `_results`;
* `OnlyThrowsSkip`: only exceptions keep documents from live queries, and only after one can a write through
  `end()` happen. A call that an exception leaves is one that returns and adds what it `Abandoned` to
  `missed` (`ThrowKeepsIInv`); a document that was missed stays so, and disturbs no other (`DeliverElsewhere`).

Without distinct announcements the "version before" of a document would not be one
version; without their being current, hearing of a change would not lead to the store.
`CollectionProofs` first states for each handler that it takes a query that shows the version
before to one that shows the version after, then has a lemma for each action: for types, for
what it does to the frames, for the invariant. For the refinement, a write is `Write`, a slot is `CatchUp`, `track` is `Track`, `Return` is
`Finish`, and `Emit` is a stuttering step unless nobody listens.

*The session* (DdpProofs)

* `SessionTypes` and, under every liberty, `ConnectComesFirst`. Its invariant `FirstInv`
  adds that connections beyond the latest are unused, that a connection that is not open
  holds no messages, and that the latest one, when open, was sent something.
* `SlotsWaitForAnswers`, under every liberty and in both directions: of a method called with a slot exactly
  one message is under way, on the connection it was sent on, while the slot waits and the connection lasts,
  and none otherwise. `SlotInv` counts the messages about a method on
  each connection and adds that there are none about a method that was not called yet,
  whose id the counter is still to give. Lemmas on counting say what `Append` and `Tail` do.
* `ConnectComesOnce`, for users who take neither `hasty` nor `replace`: `OnceInv` adds that
  only the latest connection may be alive, and that nobody greeted it before it opened. With
  either liberty TLC refutes `HandshakeOnce`.

*The replication* (ReplicationProofs)

* `ReplicationTypes`, under every liberty. `TypeInv` adds that what is announced is a change,
  so that every method and every message carries an edit, and that the server is only sent
  methods that were called, so that it reports no others.
* `ChangesArePushed`, for callbacks that take neither `upsert`, `remove` nor `deep`; they may
  write documents that are being announced or whose method is under way, other clients may
  write them, and the server may reject. The property speaks of the moments between calls.
  `PushInv` says what holds during them: writes are methods called plus pushes still `Owed`.
  What a change owes depends on the frames: only a message blocks a push, in the
  outermost frame and of the kind it announces; every write of the user connected its own
  push exactly where one is blocked, and no write around it did (`FrameInv`). An insertion is
  therefore pushed before the callbacks where the push stands and after them where it is its
  own, any other change after them by exactly one of the two.

*The mirror* (ReplicationProofs)

* `CollectionMirrors` and `CopiesDifferOnlyByMessages`, for `Liberty = {}`. That nobody takes a liberty is
  needed: `shared`, `reject` and `pending` refute `Mirrors`, and each changes what the parts of
  the invariant below rely on.

Both properties speak of the moments between calls. `MirrorInv` says what keeps them true in
the middle of one:

* `PushInv` and `AnnouncementsDistinct`: a document being announced is not written again;
* `MethodsOnce`: a method is asked for, executed and reported, each once and one at a time, and
  its document is idle all the while; `IdleUntilReported`: and no longer;
* `EchoesDropped`: what the server tells of a document of this client is always the echo of
  one of its methods, and the document is still idle when the echo is handled, because a
  method is reported after its changes. This is why dropping messages loses nothing;
* `Subscribing`: before the initial batch nothing is written, and its documents come
  before its end;
* `DataMirrors`: the messages under way lead from the local copy to the server's, for all
  documents until the batch is complete, then for those of others;
* `MethodsMirror`: the methods under way lead from the server's copy to the local one, or to
  the version before a change whose push is still due. A document with such a change has
  no method under way.

A message that is appended extends what is under way at its end, one that is handled takes
away its beginning; that these two meet is a matter of the folds `AfterMethods` and `AfterData`.

The same invariant carries the refinement:

* `CollectionIsReplica`: `Spec => ImplementsReplica`, for `Liberty = {}`. A change of the user is
  `Write`, because a document with neither a method under way nor a change announced is the
  same on both sides (`SameWhenNothingPends`, by `MethodsMirror` and `MethodsOnce`). The server's run of a method is
  `Accept`: no other method for the document is under way and no push of it due, so the one that is leads
  to the local version (`RunReplica`). A message to the client that is sent adds a version to `underway`, which is
  the server's present one by `DataMirrors` (`UnderwayTells`); handling a message takes the first away
  (`UnderwayFollows`), an echo leads to no other version of what is followed, and the end of the initial batch
  is `Open`: no message is under way about an own document then (`Subscribing`). Announcing, running callbacks
  and calling methods stutter.

This needs the versions in between as well as the last one: what the prefixes of a queue lead
to, when it gets longer or shorter (`ThroughPrefix`, `PrefixAppend`, `PrefixTail` of FoldProofs), and
that the initial batch leads every document from nothing to what it is in a single step (`PublishedPath`).

`FoldProofs` reasons about the folds for queues of any length. The library's induction rules
take operators, so it gets induction on sets of numbers (`SetInduction`) from the
well-foundedness of <, and shows that a fold ends where the path that starts in its initial value
and takes a step at each element ends; paths can then be cut and joined.

*Lost connections* (ReplicationProofs)

* `LinkTypes`, under every liberty.
* `ChangesArePushedDespiteLosses`, under the condition of `ChangesArePushed`: whenever
  connections are lost. The invariants of DdpCollection go through its steps, of
  which Reconnection takes the same, and survive the four that it adds.
* `NewSubscriptionRepairs`, for users with `Haste = {}`, whatever liberties they, the server and
  other clients take besides. `RepairInv` follows the link: while it is down the server knows
  nothing of the session and nothing is under way (`Severed`); when it is up again nobody writes
  (`Passive`), so after the new subscription was executed every document that the server holds
  is deaf or will be told by the messages under way (`Copied`).

*Lifetimes* (LifetimesProofs)

* `TypesHold`, under every liberty; with it, what users hold lives, and so does the
  collection of every live query.
* `DisciplineIsSafe`: without `drop`, `leave` and `unwind` nothing dead is used. `SafeInv`:
  the slots of every signal belong to objects that live, and a session with mirrors has its
  loop.
* `LiveQueriesFollow`: without `twins` a live query shows the stored contents. `FollowInv`
  adds that objects alive at a time have different names.
* `FreshStarts`, under every liberty: `OwnedInv` says that whatever lives is held by users, or by
  a live query that lives.

*The connection* (WsConnectionProofs), without any condition, servers whose extensions do not parse included

* `OneLife`: `LifeInv` relates the state, the asynchronous step under way and the handlers
  that ran. `Ordered` adds what is true between the fail handler and the open handler of a connection whose
  extensions do not parse: it has reported its failure, and nothing was sent or received. What such a connection
  reports is in the property, as `fail, open, close`; no other may open when it has failed.
* `NoWriteIsStranded`: `FlagInv`, the write flag is up exactly while frames are being
  written, and a queue that is not being written has a `write_frame` posted; also while a terminated
  connection is about to open.
* `CloseFrameIsLast`: `CloseInv` follows the close frame through the queue, the write under way
  and the wire, with nothing but close frames behind it.
* `ConnectionTypes`: its invariant `ReadInv` says that the response comes first and nothing of
  it is taken for a frame.
* `ConnectionIsChannel`: `Spec => ImplementsChannel`. `OutInv`: the messages of what has arrived,
  of the write under way and of the queue, in this order, are those that were accepted, unless
  the connection closed by a write that failed, after which the flag stays up and nothing is
  written. `InInv`: up to the closing, what the server sent is what was received, what the
  buffer and the wire hold, and what a reset lost. `send` is `Send`, the end of a write is
  `Arrive`, the server's sending `Publish`, `on_data` is `Receive`; the other steps open, close or stutter,
  and `reopen` opens what was closed, where `final` is false.

*Parsing* (Hybi13Proofs), for any scripts of lines and frames, legal or not, of any length,
and any way to cut their bytes

* `ParserTypes`: nothing is read beyond the input, what is awaited completes what is there,
  and at most one message of each kind is being received.
* `MessagesBounded`: no data message, in however many fragments, exceeds `m_max_message_size`,
  and no control message 125 bytes, as long as `AnnouncesFit`: no frame announces a size within the limit of
  the top of `size_t`. If one does, the sum in `TooBig` wraps and the message grows; `SizeT` and
  `MCWrapScripts` (section 3) show one.
* `HandshakeCorrect`: for scripts with a plain response, of any number of lines, the parser
  refuses the response exactly if it must be refused, never before it can know, and goes on
  with the byte that follows it: `HandshakeAsSent`.
* `DeliveryCorrect`: for scripts that are `Sound` the messages delivered are those of the
  legal frames that have arrived in full, unmasked, put together and in order; an error is
  always of an illegal frame, and no illegal frame passes: `AsSent`.

All rest on `ParserInvariant`. `TypeOK` alone is not inductive: where the next frame
starts depends on what is kept between reads. `ParseInv` adds

* `Reading`: of the response only a line without its end is kept (`Unended`), so the blank
  line that ends it ends in the piece being read, and `consume_response` reports no more bytes
  than the piece has;
* `Kept`: a message being received has a key of four bytes, a validator that is a state of the
  automaton, and the kind of its variable;
* `Parsing`: header and extended header have, with the bytes needed, the length that the first
  bytes announce; a header that was accepted is `Short` if it is of a control frame; and
  while a payload is read its message is there (`Held`).

`MessagesBounded` adds `BoundInv`: a message whose payload is being read has `Room` for what the frame still
brings. The limit is checked once for each frame, when its size is known, and this is why once is enough.

`HandshakeCorrect` adds `HandshakeInv`: `Lined` says where in the input the bytes of the
lines and their delimiters are; `Awaits`, that some number k of lines is taken, that each of
them fits, that the buffer of the response is the input from line k + 1 on, and that between
three and six bytes were counted for each line and three for each read; `Begun`, that a frame
whose header is read leaves something behind, so that "nothing kept and nothing delivered"
means that no byte after the response was taken. A turn of the loop is `StopIs`: `Shaped` input has its
delimiters (`ShapedEnds`), beginnings (`ShapedBegins`) and lines (`ShapedLine`) where they
are expected, so `consume` stops at line k + j + 1 for some j, after j lines that fit;
`ResponseStep` then goes through its four outcomes. A response is `Plain` if its lines are one
byte each, as the model means them, and if it is too large or smaller than a fifth of the limit: between the two
the count of `response.hpp:66`, which adds three for each turn and each read, makes the
outcome depend on the reads.

`DeliveryCorrect` rests on `DeliveryInv`: some k frames are over (`Here`), what they say is what
was delivered, and the state of the parser is a place in the frame that comes, or that frame
is illegal (`Failed`). The places are the states of `m_state`: within the first two bytes
(`InHeader`), within size and key (`InExtended`), within the payload with t bytes of it read
(`InApplication`), or behind it (`InReady`). At each, what is buffered is what the input has
between the beginning of the frame and `p`, and a message being received `Matches` what the
reference has of it, its validator included, while its key is turned by t bytes. `AsSent`
alone is not inductive: it speaks of the moments at which the parser waits, and of nothing
that is kept. Each action has its lemma (`HeaderDelivers`, `ExtendedDelivers`,
`PayloadDelivers`, `MessageDelivers`, `ResponseDelivers`), and they rest on three groups of facts:

* of the reference, which is recursive and enters as a fold: one more frame is one more step
  (`SaidIs`), and begins where the one before ends (`OffsetsAre`, `FrameInInput`);
* of the format: what a header is read as is what was written (`BasicSays`, `ExtendedIs`),
  what is masked twice, in pieces of any size, is as before (`XorTwice`, `KeyAfter`,
  `Unmasked`), a validator does not see where its input is cut (`DecodeMore`);
* of the protocol: what the parser refuses, at three points, is exactly what `Legal` refuses
  of a whole frame (`LegalIs`, `HeadFault`, `SizeFault`, `TooBigIs`, `PayloadFault`).

`Sound` asks three things of a script. The response is plain, if there is one, for the frames
begin where it ends (`HandshakeCorrect`). A size has room in the field it is written to
(`Sized`), two bytes if the sender asks for two and eight at most, and fits a `size_t` together with the limit:
then no sum wraps (`NextFits`), and `AnnouncesFit` is part of `DeliveryInv`. And `Uncut`: no text message ends within a code point in a continuation. Of
those the code is wrong, as `frames_cut` shows, and the proof shows that it is the only
such case: `Uncut` is used in one step of `PayloadFault`.

What the loops compute (`decode`, `Value`, the joining of frames) goes through `FoldProofs`;
lemmas say what the headers announce (`HeaderSays`, `ExtendedSays`) and what a response leaves
(`ResponseTakes`).

Assumed are only the named assumptions of the modules: bounds are numbers, scripts are lines of
bytes and frames with opcodes, sizes and bits that their headers can hold, inputs are
documents, selectors and modifiers, the documents a collection may hold are finitely many
(DdpCollection), ids of subscriptions are no ids of methods, and the values that stand for
"none" are none of the things they stand in for.

Only model-checked, because the prover has no rules for fairness and `ENABLED`: every
liveness property (`CallsReturn`, `MethodsAnsweredOrLost`, `SubscriptionsReadyOrLost`,
`PingsAnswered`, `MirroredInTheEnd`, `ReadySlotsRun`, `KeepsPromises`,
`ClosingEnds`, `IdleEndsUnlessLost`). Every safety property of the passing runs is stated by
a theorem.

## 5. What is not modelled

* `count`, `find`, `find_one`: they change nothing; `find` is `Shown`.
* `evaluate_log` and the conversions to and from BSON: how the result of a query
  is read back from EJDB's log. The model takes the log to tell of exactly the
  documents the query changed. Failures of EJDB are left out: each throws before anything
  is announced.
* Selectors and modifiers beyond query by example, `$set` and `$unset`.
* Permanent slots (`on_connected`, `on_ready` of the session), resuming a session, malformed messages, and a server
  that speaks another version of DDP and answers `failed`, which `on_message` ignores.
* A second DDP collection that users create after a loss beside the first one: both would
  write the same EJDB collection, as `twins` do.
* `connect` with a url that `get_connection` refuses (`ddp.cpp:52-55`): it throws before a slot is connected, and
  leaves `_conn` null, so that the next send dereferences it.
* Frames that announce more than their sender ever sends are no scripts of their own: to the parser, until it has
  read them, they are frames whose rest has not arrived, and reads stop at every byte.
* Ids of the server that are no EJDB object ids, which `insert` refuses with an exception.
* WebSocket++ beyond what class `ddp` uses of it: servers, TLS, proxies, other transports,
  the older protocol versions, compression (the configuration turns it off), logging, and the user's
  own pings and closing. What the headers of a response must say is one verdict; bodies of
  responses are left out, a Meteor server sends none.
* nlohmann/json: a value type without state, and a generated lexer.

The repository vendors WebSocket++ (24,900 lines) and nlohmann/json (17,300 lines); the
program's own code is 3% of what it holds. The map therefore covers a small share of all
lines and most of those that decide what the program does. Modelling the rest would
describe logging, templates, alternative transports and documentation comments.

## 6. Plan

Done, in this order, the most used part first: Documents, LiveQuery, Collection, LiveView
and their proofs; Ddp; DdpCollection; Lifetimes; Channel and WsConnection; Framing,
HttpResponse and Hybi13; Reconnection; the proofs about Ddp, DdpCollection, Lifetimes, WsConnection,
the mirror, the loss of connections, the channel and the parser; Replica; the handshake; the
delivery of frames.
