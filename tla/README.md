# nenes: a verification development

nenes is a small server with a web front end. Agents ("nenea") connect to it over TCP;
users select agents on web pages and send them files and operations; browser consoles
see, over a web socket, which agents come and go, which files were sent and which files
appeared in the server's directory. This directory holds TLA+ modules of its parts, the
TLC configurations that check them on small instances, and theorems about all of
them, with proofs for TLAPS. Paths of Java files are relative to `nenes/src/main/java`, those of
scripts to `nenes/src/main/webapp/resource`.

## 1. Inventory

| Part | State | Operations | Where |
|---|---|---|---|
| Agent registry | `ChannelManager.map`: name -> channel, a plain `HashMap` | put, remove, get, iteration | `server/boot/ChannelManager.java` |
| Operation protocol | per connection: `offset`, `operationData`, `agentName` | `channelActive`, `channelRead0`, `exceptionCaught`, `channelInactive` | `server/operation/OperationServerHandler.java` |
| Console notification | `sessionSet`, a plain `HashSet` | `onApplicationEvent`, `sendMessage`, `afterConnectionEstablished`, `afterConnectionClosed` | `websocket/WsHandler.java` |
| File and operation commands | what is under way to an agent; open file handles | `SendCommand`, `SendFile` and its two listeners | `command/NFileCommand.java`, `command/NOperationCommand.java` |
| Settings | static `conf`; `~/.nenes/conf.json` | constructor, `SaveConfiguration` | `command/NConfiguration.java` |
| Directory watcher | a thread, its watch key | `startService`, `run`, `watch` | `nene/service/DirWatchService.java` |
| Console page | the menu of notifications and its badge, a web socket | `init`, `onOpen`, `onMessage`, `informEvent`, the page's listeners | `js/ws.js`, `WEB-INF/view/w.jsp` |
| Dropdown | which menus are open, a backdrop, the focus | clicks and keys on toggles, `clearMenus` | `bootstrap/js/bootstrap.js` 760-915 |
| Collapse | per panel: classes, `transitioning`, the instance in its data | `toggle`, `show`, `hide`, the constructor | the same, 548-749 |
| Carousel | the active item, `sliding`, `paused`, `interval` | `cycle`, `pause`, `to`, `slide`, data API | the same, 309-536 |
| Modal | `isShown`, `$backdrop`, what it did to the page | `show`, `hide`, `toggle`, `backdrop`, dismissal | the same, 926-1255 |
| Tooltip, popover | `inState`, `hoverState`, `timeout`, the tip | `enter`, `leave`, `show`, `hide`, `destroy` | the same, 1273-1892 |
| Transition support | `$.support.transition`, handlers of an element's end | `bsTransitionEnd`, `emulateTransitionEnd` | the same, 28-75 |
| Other plugins | - | scrollspy, tab, affix, alert, button | the same |
| Start-up | - | `BootServer` starts `OperationServer`, which binds a port | `server/boot`, `server/operation` |
| Legacy controllers | as for the commands | `SendCommand` and `SendFile` of `FileCommand`, `OperationCommand` | `command` |
| Telnet controllers | - | `Command`, `NCommand`, for a server that is not started | `command` |
| Telnet, Echo, Agent page, FileUtil, other JSP | - | not started, stateless or presentation | |

How the parts interact:

- **Threads.** Netty's worker loops run the handler callbacks, several channels per loop;
  the web container's threads run the controllers and the web-socket callbacks; the
  watcher is a thread of its own, fed by a thread of the JDK.
- **Shared state.** The registry is written by the worker loops and read by web threads;
  `sessionSet` is written by container threads and iterated by whoever publishes; `conf`
  is written by web threads and read by web threads and the watcher. Nothing is locked.
- **Events.** A Spring `MessageEvent` is delivered synchronously (`spring-mvc.xml` has the
  multicaster with a task executor commented out): the listener, `WsHandler`, runs in the
  publishing thread, an agent's event loop or the watcher, and its exceptions come back.
- **Commands.** A web thread looks the channel up, writes a header, and (for a file) a
  listener that the event loop runs later writes the data.
- **Pages.** `ws.js` is the other end of `WsHandler`'s sessions. Bootstrap's plugins share
  a document: a click reaches several handlers in turn, and what waits for a transition
  is run when its end comes, from the browser or from a timer, with clicks in between.

What is hard, and what has to hold in spite of it, is the list "hazards" of
`PROJECT.json`, each with its line. In short: an unframed protocol whose handler keeps
state between reads; unsynchronised collections; listeners that throw into the publisher;
two-write commands whose second half is a callback; futures nobody looks at; a file that
is rewritten in place; a watch key whose handshake must not lose events; plugins that go
on after a transition with what they saw before it.

## 2. Modules

| Module | Models | Built on |
|---|---|---|
| `ChannelManager` | what `put` and `remove` on the shared `HashMap` may leave behind | - |
| `SessionRegistry` | abstract: what the registry promises consoles and pages | - |
| `OperationServerHandler` | the handler and its event loops; implements `SessionRegistry` | `ChannelManager`, `SessionRegistry` |
| `OperationServerHandler_proofs` | theorems about it | the above, TLAPS |
| `WsHandler` | the consoles and every thread that broadcasts | - |
| `WsHandler_proofs` | theorems about it | the above, TLAPS |
| `WebCommands` | the web threads of the four command pages, over several agents | - |
| `WebCommands_proofs` | theorems about it | the above, TLAPS |
| `CommandDelivery` | the calls to one agent, its channel's event loop and socket | - |
| `CommandDelivery_proofs` | theorems about it | the above, TLAPS |
| `NConfiguration` | settings in memory and on disk, across kills | - |
| `NConfiguration_proofs` | theorems about it | the above, TLAPS |
| `DirWatchService` | the watcher and the JDK's watch key | - |
| `DirWatchService_proofs` | theorems about it | the above, TLAPS |
| `Transition` | support of transitions, handlers that wait for an end | - |
| `Collapse` | panels and accordions | `Transition` |
| `Collapse_proofs` | theorems about it | the above, TLAPS |
| `Carousel` | items, timer, pointer, indicators | `Transition` |
| `Modal` | a modal and what it does to the page | `Transition` |
| `Tooltip` | a tooltip or popover | `Transition` |
| `Dropdown` | the menus of a page | - |
| `Pages` | a page with its dropdowns, the console with its web socket | `Dropdown` |
| `Overlays` | a page with a modal or a tooltip, each an instance | `Modal`, `Tooltip` |
| `Pages_proofs` | theorems about `Dropdown`, `Pages`, `Carousel` and `Overlays` | these, TLAPS |
| `MC*` | constants of the small instances, and the initial states of one | |

Definitions whose comment begins with "Faulty" are variants of the definition below them
with a plausible mistake. No specification uses them; putting one in the place of the
original must make the property that `PROJECT.json` names beside it fail.

### ChannelManager, OperationServerHandler

State and code correspond one to one: `offset`, `operationData` and `agentName` are the
handler's fields; `map` is `ChannelManager.map`; `phase` is the channel's life as Netty
shows it. `inbound` and `pos` are the bytes the agent sent and the server has not read.
`ChannelRead` takes any non-empty chunk of them, so a read may end inside a header or
inside the data, and may cover several messages; what `channelRead0` does then is one
disjunct for each way through it. A name is a sequence of letters of one byte each, and
a header is two units long: enough for a read to end inside it.

A read that begins inside a message is parsed as a header all the same. Four bytes of a
name make a size out of range, and the rest is dropped; fewer make `readInt` throw; a rest
of a header, or one with another message behind it, may do either. An exception makes the
channel "failing": `exceptionCaught` writes an error with a listener that closes the
channel, and the channel is still active, and may be read, until that write is done (it
fails, for want of an encoder, but behind a file that is going out it waits its turn).
`torn` is history: a JOIN was read in part, or a listener threw before `operationData`
was cleared.

`channelRead0` and `channelInactive` are split where another thread can see the
difference: the put (or removal) begins, it takes effect, the event is published. A
`HashMap` update has two moments, the table is read and the change is published; if the
change is structural the second may happen on the table as it was read, which discards
what another loop did meanwhile. The history variable `lossy` says that this happened; the
properties that a lost update can break say so ("unless ..."), and `OneLoopLosesNothing`
(proved) says when it cannot happen. Left out of the map's misbehaviour: a get or a resize that
never returns, known of concurrent `HashMap`s.

`SessionRegistry` is what the consoles and the pages rely on: an agent is registered, then
announced, then, when its connection is over, taken out, and then announced to be gone. Two
ways out are part of the promise, because the code takes them: a channel that joined
under two names may leave an entry behind, and once the table has lost an update nothing
is promised. `ImplementsRegistry` maps the handler to it: `registered` is the channels in
the table, `told` those whose Connected event was published, `leaving` those whose removal
has taken effect, `gone` those whose callback is over. That one callback is three steps of
the abstract registry is the point of the refinement: other loops see it in between.

Fairness (`FairSpec`): an event loop finishes the callback it is in (weak), and does not
postpone a queued `channelInactive` for ever in favour of reads (strong): a Netty loop
runs its task queue between selects.

### WsHandler

A session stands for the container's thread that runs its callbacks, which the container
does one at a time. A broadcast is a loop of `NextSession`, `SendBegin` and `SendEnd` or
`SendThrows`. The iterator compares `modCount` without synchronisation: after a change of
the set it may throw (`LoopThrows`) or go on, and then it may also miss elements it had
still to return: `HashMap` replaces its table when it grows and fills the new one
afterwards, and the iterator looks for its next element one step ahead. An iterator is not
modelled to return an element that was added behind its back, or one element twice, which
takes a table resized under it and the change unnoticed more than once. Sends of two threads to one session collide, and the second
throws (Tomcat's "remote endpoint was in state TEXT_FULL_WRITING"); `sendMessage` ignores it.
A send under way may fail because its session closes, or time out on one that stays open
(`FailsLater`); the loop goes on in either case.
Fairness: each thread goes on; a send to a console ends or times out; the container
calls `afterConnectionClosed` for each session that closed.

### WebCommands

A request goes through `Receive`, the listing of the agents (`ListBegins` to `ListEnds`)
and the sending (`Found` and then `Write` or `Unreadable`, or `PassedOver`, for each item of
its plan);
`NFileCommand` sends first, the other three list first. `todo` is what is left of the
loops over agents and files. The agents are what `OperationServerHandler` makes of them,
as far as a reader of the registry can tell: a put at work, an entry, an entry of a closed
channel. The files come and go as well (`Appears`, `Vanishes`): `SendFile` opens a file once
for each agent, and where that fails it returns with nothing written (`Unreadable`), the
loops go on, and the page is shown. The history variable `kept` says which files could be
read all along: those a steady agent must have got, while of the others it may have got some.
While a put is at work the table may be growing, and a `get` or a new iterator
may miss entries; the history variable `blind` says that a request met such a table. The
error paths are `ListThrows` (the fail-fast iterator), `SendThrows` (no list of files in
the form, or the inverted guard of `FileCommand`) and the request "watch", which starts a
thread that was started with the server. An iterator is not modelled to go wrong on a
table that was resized under it unnoticed, nor are lost updates (`OperationServerHandler`
has those).
No fairness: what is said of a request is said of the point it has reached. An error page
says as much as a page: what came before the error went out, and nothing behind it.

### CommandDelivery

The calls made to one agent, by several web requests. A `SendFile` goes through stages
new, checked, valid, header, streaming, sent; it may be skipped, and it may end without
data (`dataless`). Writes of a web thread are tasks of the event loop, writes of a
listener are made at once; both end in the channel's outbound buffer. The `FileChanges`
action changes the length of the file, or deletes it, between the three times it is
opened. The variable `ssl` chooses between `DefaultFileRegion` and `ChunkedFile`, which
differ when the file is shorter than it was: the region never completes, the chunk fails.
A file can also be opened and then not be measured (`Unmeasurable`): `SendFile`, or its
listener, ends with the handle open, as it does behind an empty file. `unmeasured` is
the handles left open for either reason.
One file serves for all calls: a change of it concerns every call under way, and the
variable `touched` says which.
Fairness: each web thread runs, and the event loop as a whole goes on while it has anything
to do, so that the socket takes what can be sent; the loop has no fairness among its
listeners and needs none, since each runs once. A read that fails is never what
fairness waits for. The environment (`Close`, `FileChanges`)
has none.

### NConfiguration

`disk` is the text at the start of `conf.json` and the length of the file, which is longer
than the text if a shorter text was written over a longer one. `FileWriter` truncates, and
the text (far shorter than its 8192 byte buffer) goes out in one write when flushed. `Kill`
may come anywhere. `raced`, `torn` and `unsaved` are history: two saves overlapped since
the file was last opened by a save that was alone; the file lost its old text and did not
get the new one; an I/O error kept the setting from the file. An error while the file is
read at a start is one of two things: if it cannot be opened, the setting is null
(`ReadUnopened`); if a read fails, Gson throws what nobody catches, and the server does not
start (`ReadBreaks`).

### Transition, Collapse, Carousel, Modal, Tooltip

Every plugin waits for the end of a transition in the same way: it binds a handler and
asks for a timer. In `Transition` an end may come at any time after that, and runs
everything that is bound to the element by then; whether the browser, an earlier
transition or the timer triggered it makes no other difference. Before the document is
ready, and in a browser without transitions, plugins go on at once.

`Collapse`: `classes`, `expanded` and `data` are what the element and its trigger carry;
a listener may veto any show or hide. `Begin`, `Finish` and `Complete` are the class
changes around the transition. `misread`, `vetoed` and `confused` name the three things
that its properties have to except. Fairness: transitions end.

`Carousel`: `timers` are the timers that live in the browser and `interval` the one the
carousel knows of, so that a timer left behind shows. A control, an indicator or the load
may come first and make the instance, each with its own options. Fairness: transitions
end, timeouts run, and the slid event, due at once, does not for ever come after the next
tick, due seconds later (strong fairness of `Slid`).

`Modal` and `Tooltip` write the plugin's methods as functions from a record (the page, the
tip) to a record, since one turn of the browser runs them inside each other; the actions
are the calls, clicks, keys, timeouts and ends. The ends of different elements may come in
any order. In `Modal` `reopened` and `hasty` are history (shown again during a hide, hidden before it
was displayed), in `Tooltip` `scripted`, `vetoed`, `refused`, `crossed` and `disturbed`;
without any one of them the property that excepts it is violated. No fairness: what is
said of both is what is there when nothing is under way. `Overlays` takes one instance of each
with the same `transition`; a page has the one or the other, and the properties of both are
stated there, for the run and for the theorems.

### Dropdown, Pages

`Dropdown` is one turn of the document's handlers: the delegated ones first, then
`clearMenus` unless they returned false. `heard` is the events that the turn triggered,
which the listeners of the page read. `Pages` composes it with a page: one with any
toggles, or the console, whose one menu is filled by the web socket. `OnOpen` changes
nothing else because the page has no element `textID`: `onOpen` throws. Nothing makes a
second socket when the first is gone. No fairness.

### DirWatchService

`signalled`, `queued`, `valid` and `events` are the JDK's `AbstractWatchKey`;
`FileAppears` is its `signalEvent` (with the limit, 512 in the JDK, a constant here),
`DirectoryDeleted` the invalidation. `Take`, `PollEvents`, `Publish` and `Reset` are the
loop of `watch`. Each file name appears once: the JDK counts a repetition of the newest
event instead of queueing it, which the code does not look at. A file appears when the
JDK's thread delivers it. `RegisterFails` may happen whether or not the directory is there
(inotify's watches are limited). Fairness: the watcher's thread runs.

## 3. Runs

| Run | Instance | What it shows |
|---|---|---|
| `osh_two_loops` | 2 channels on 2 loops, names of 0 and 2 bytes, 2 messages each, fair | the handler implements the abstract registry; a joined agent is registered; names are genuine unless a JOIN was torn or its announcement threw; registered agents were announced; every closed connection is cleaned up |
| `ws_consoles` | 2 sessions and 1 event, or 1 session and 2 publishers with 2 events each; the first broadcast of each session; fair | a broadcast that returns has reached the consoles in place, up to the failures the code swallows; the set follows the sessions; each thread's messages come in order and none twice; the publisher gets its thread back |
| `wc_one_request` | 1 request of any of 7 forms, 2 of 3 agents selected, 2 files that come and go | agents that stay are served in the form's order and listed, unless the table was growing; an error page leaves those before the error served; a failed operation sent nothing |
| `cd_two_requests` | 2 files in one request, 1 operation in another, lengths 0 and 1, 1 change or failure of the file, with and without SSL, fair | framing of calls that do not overlap; what FileSent means when nothing disturbs; which file handles stay open; each header gets its data; each call reports |
| `nc_restarts` | 3 web threads, 4 saves, texts of 2 lengths, 2 kills, 1 error | memory and disk agree; what a restart restores; why a start can fail |
| `dw_announcing` | 4 files, a key of 2 events, 2 directories, 1 save, fair | nothing is dropped silently or announced twice or out of order; a deleted directory ends the watcher |
| `co_accordion` | 3 panels with or without a parent, 3 handlers on one panel, fair | one panel open; attributes tell the truth; no trigger goes dead |
| `ca_riding` | 3 items, 4 clicks and calls, 2 slid events due, fair | one item shown; no timer left behind; a carousel that rides goes on; every click on an indicator is answered |
| `ov_overlays` | a modal with any options and 5 calls, or a tooltip with any options, 5 events and 3 handlers on its tip | a hidden modal leaves nothing and a shown one is whole; no tip is left behind and a wanted one is shown; a destroyed tooltip is left alone |
| `pages` | 3 dropdowns of 2 entries, one in the navbar, or the console with 4 messages | one menu at a time; the backdrop lives as long as its menu; what was not read is signalled |

Why the bounds are enough. Two agents and two loops give every pair of racing updates (a
third updater can only repeat the loss of one), and two messages give a second JOIN after
a complete or a torn one; with names of zero and two bytes, what a torn read leaves in `offset`
can be less than, equal to, or more than the next JOIN's size. A rest long enough for a
`readInt` takes longer names, which the run `osh_join_registers` has. Two consoles give
a broadcast a console before and one behind the change, and since a new console broadcasts
too, three threads whose sends can collide. Order needs two messages of one thread, with
another thread's sends to the same console in between; that is the second situation of
`MCWsHandler`, whose initial states are states of the specification in which the other
console has been and gone, or the other events were published to nobody. Requests share nothing but the registry, which
they only read, so one request is enough, with an agent that is served first, one that is
served next, and a third that only comes and goes. Three calls, two of them of one
request, give order within a request and overlap between requests; lengths 0 and 1 with
one change give a file that is empty, grows, shrinks or is deleted between two of its
openings. Three saves can overlap, and one more can come alone after them; texts of two
lengths give the longer tail. A key of two events and four files give an overflow with
files before and after it. In an accordion of three panels one closes, one opens and one
is clicked; three handlers are a hide, a show and a second of either on one panel. Three
items tell previous, next and "elsewhere" apart, and two slid events can be due while a
third slide is on. Five calls are show, hide, show, hide and one more, with every end in
between; with five events a tip is entered, left, entered and left again while the first
transition is on, by one trigger or by two. Three toggles give
`clearMenus` a first open menu, a second and one being opened. `CHECK_DEADLOCK FALSE`
stands where a bounded run really ends: connections are over, calls are done, or the server
did not start. In the other runs something can always happen, so deadlock is checked.

Runs that are expected to fail state what a comment or message of the repository says:

| Run | Says | Does |
|---|---|---|
| `osh_join_registers` | a channel is registered when the join message is received (`OperationServerHandler.java:66`) | a JOIN whose rest, of 4 bytes or more, arrives in a second read never is, and its channel stays open (a shorter rest makes `readInt` throw, and the channel is closed) |
| `cd_file_sent` | "file transfer complete", `FileSent` | also after a failed transfer |

## 4. Proofs

`OperationServerHandler_proofs` proves eight properties of `OperationServerHandler` for
every set of channels and loops, every placement `LoopOf`, every set of names and every
bound. The assumptions are the module's ASSUMEs, nothing else.

- `Typed`, the types and the fact that the name a handler holds ends with its own channel's
  id, is inductive by itself; it gives `TypeCorrect`. The outcomes of `put` and `remove`
  keep a table well formed because each is built from two well-formed tables (lemmas
  about `PutOutcomes` and `RemoveOutcomes`).
- `IInv` adds two things. `CallbackPhase` ties the callback that is running to the phase of
  its channel (a put or a publication of Connected only on an open channel, a removal
  only on a closed one). `Linked` describes, as long as no update was lost, where the
  entries of a channel are: none before the first JOIN, the current name's from the put to
  the removal, and others only if the channel joined more than once. Without
  `CallbackPhase` the removal of a name could not be told from the removal of a live one;
  without `Linked` a single entry might be one the channel had forgotten. `IInv` gives
  `RejoinOnlyLeavesBehind`, `JoinedStaysRegistered`, `EventsAgreeWithRegistry`, and, with the
  step taken apart, the action property `OpenIsNotRemoved`.
- `HeldInv` adds to `IInv` that a channel which has joined has an entry until its removal,
  a second JOIN included, unless an update was lost. With it each step of the handler
  is a step of `SessionRegistry` or a stutter (`RegistryStep`, one case per action), which
  gives `RegistryIsImplemented`.
- `SerialInv`: with one loop, a callback that has read the table is the only one running,
  and the table is still what it read. It gives `OneLoopIsSafe`.
- `GenuineInv`: on a channel that never read a JOIN in part, and none of whose
  announcements threw, `operationData` is empty
  between callbacks and the name being put is one that was sent. It gives `OnlyTornMixes`.

`NConfiguration_proofs` proves the four properties of `NConfiguration` for every set of
directories, every length of their texts, every set of web threads and every bound, from
the module's ASSUMEs (the default is a directory, a text is not empty, null and the missing
file are told apart from values). `TypeOK` is inductive. The other four are not, each
because of what the file may hold while a thread is at work; `IInv` adds

- `StoppedIsIdle`: no save runs while the server is down, starting, or without a setting;
- `OneSaver`: without a race there is one save at most, and its value is the one in use;
- `OneText`: without a race the file is empty or exactly one text, and empty while the
  text is to come, so that a garbled file (`OnlyRacesStopAStart`) takes a race, and a text
  written alone is the whole file (`FileAgreesWithField`);
- `EmptyIsTorn`: an empty file has a writer, or its text was lost (`OnlyTearsLoseTheSetting`);
- `TextIsLatest`: what the file begins with is the last text written (`StartRestores`).

The proof that it is inductive is in three lemmas, for the steps of a start, of a web
thread, and of a kill.

`WsHandler_proofs` proves the types, `SetFollowsSessions`, `InOrderOnce` and
`ReturnsOnlyWhenDelivered` for any sets of sessions and publishers. `Typed` (with: a thread
sends to at most one console) is inductive by itself, and so is `SetFollowsSessions` with it,
because `lossy` records just the updates that differ from what they should be. The order
is not: `OrderInv` adds `Fresh`, that a console which the loop of a thread has still to serve
has not got the number of that loop, and that no console is both still to be served and
being served. Delivery needs to know where every member of a broadcast is: `Reached` says
that a console which was in the set when the loop began is still before the loop, in its
hand, or has the message, unless the loop is excused (the console has closed, a send to it
threw, the set changed under the loop, or had lost a change). The changes of other threads
keep it because whoever changes the set while a loop runs makes that loop stale.

`Pages_proofs` proves `OneMenu`, `BackdropWhileOpen` and `UnreadIsSignalled` for any number of
toggles, entries and messages. `MenuInv`, types and the first two, is inductive: what a turn
does to the menus is one lemma (`LeavesFacts`) about `Leaves`. `SignalInv` adds `Signals`: the
console has the one menu, nothing is signalled before the listeners are bound, and a
badge that is shown while the menu is open came late.

`Pages_proofs` also holds the proofs about `Carousel`, which shares nothing with the menus of
the page: its specification has a name of its own (`SpecCarousel`), so that the module extends
both. `ShowsOneItem`, `OneTimer` and `KeepsRiding` hold for any number of items, with or
without wrapping. `ShowInv` names the item shown and ties `sliding` to the one
handler that is bound; `RideInv` adds that `paused` is set by scripts only and that a loaded
carousel has an instance. The two do not depend on each other, so each has its own
induction.

Its last part is about `Overlays`: the five invariants of `Modal` and `Tooltip`, for any number of
calls, events and handlers that wait, any options, and with or without transitions. What they
have in common is `End`: it runs a list of handlers, and what is true behind the last handler
follows only from what is true between any two. `RunAll` is a recursive function; that it has a
value at all is proved first (`ModalRunExists`, `TipRunExists`), and then what holds between
the handlers, by induction over their positions (`UpTo`, from the well-foundedness of the
numbers). The induction is over a set of positions, so no theorem with an operator for a
parameter is needed.

- `ModalInv`: unless the modal was reopened, a page is of one of four kinds (`Good`). `Up`: the
  modal is shown, or waits for its backdrop to be. `Going`: `hide` waits for the modal.
  `Fading`: it waits for the backdrop. `Away`: nothing is left. Each kind says which handlers
  wait for the modal and for the backdrop, in which order, and what the page has. `show` leads
  from `Away` to `Up`; from `Going` and `Fading` it would lead to a page of no kind, and
  that is what `reopened` excepts. With `hasty` the last three kinds leave open whether the
  modal is displayed, because the callback of `show` may still wait in front of `hide`'s. That
  there is one backdrop at most, and that it is `this.$backdrop`, is in `Fits`.
- `TipInv`: handlers wait only for a tip that fades (`TipFits`), and three invariants that
  except different things. `TipLeft`: a tip that no one wants has its timeout to hide set, or is
  neither in nor coming and has a handler that takes it away, or is out of the document.
  `TipWanted`: a tip that has "in" has nothing waiting that takes it away; one that is wanted
  has it, or has its timeout to show set, or is being destroyed. `TipWanted` is inductive only
  together with `TipLeft`: that a tip on its way in is wanted by someone is `TipLeft`'s.
  `TipQuiet`: once `destroy` has bound its handler there is no timeout, nowhere for the tip to
  go, and that handler is the last. Between two handlers of an `End` the first two hold with
  the handlers still to be run counted among those that wait (`rest`).

`DirWatchService_proofs` proves `NothingDroppedSilently` and `AnnouncedInOrder` for any number of
files and any limit of the key. `HandInv` is the handshake: the key is in the queue or in the
watcher's hand just while it is signalled, and keeps no events otherwise, so that a watcher
which sleeps has announced all there is. The rest is about one sequence, `Everything`: what was
announced, the batch in hand and what the key keeps, in a row. `Take`, `PollEvents`, `Publish`
and `Reset` move events along it and do not change it (`LoopMoves`); a file that appears is
appended to it, or an overflow is, in the place of what the key kept (`FileGrows`). So every
file or an overflow stays in it (`Covered`), and its files stay in order.

`WebCommands_proofs` proves `SteadyAgentsAreListed`, `SteadyAgentsAreServed` and
`FailedOperationSentNothing` for any agents, requests and forms.

- An agent that was there all along is connected (`SteadyIsConnected`), and the loop over
  the map has it behind itself or before itself (`LoopSees`): so it is listed.
- Files that come and go make what an agent gets a part of what was planned for it: the
  invariant names that part (`some` in `Served`), with everything in it that is due.
- The loops over agents and files are one plan (`Plan`), written with quotient and
  remainder: counted from 0, position n is agent n \div m, file n % m (`RowAndColumn`). What
  a request has sent to an agent is a set of positions in the agent's outbox, where other
  requests write too. `LoopServes`: behind the first n items of the plan there is an
  order-preserving bijection from some of the items that were for a steady agent, all that
  were due among them, to what the request sent it. A write extends the bijection by its last
  pair (`BijectionGrows`, `WriteAdds`), a write of another request leaves it alone, an item
  for another agent adds nothing, and a file that cannot be read (`UnreadableServes`) is
  one that was not due.
- A request of an operation's page that can still fail has not begun its plan
  (`ErrorsComeFirst`).

`CommandDelivery_proofs` proves `FramesIntactAlone`, `FileSentWhenUndisturbed` and
`OnlyUnmeasuredLeak` for any calls of any number of web threads, any lengths, any number of
changes of the file, with and without SSL. None of the three is inductive.

- `HandlesInUse`: a handle belongs to a file that was found empty or could not be measured,
  or to one being sent.
- `PipeInv` is about the pipe, the tasks of the event loop and the outbound buffer. Every
  write in it is pending and of a call under way that waits for it (`Pipe`), no write is in
  it twice (`Once`), data do not overtake their own header (`HeaderFirst`), and how far a
  call is says what has become of its writes (`Progress`). Each kind of move (a task is
  queued, is buffered, fails; the buffer is sent, or fails as a whole; a listener appends
  data to the buffer directly, past the tasks) has a lemma of its own. It follows that a
  step never takes back what has become of a write (`FuturesSettle`).
- `Delivered`: the wire holds just the writes that succeeded. `Lengthy`: as long as nobody
  touches the file of a call, each of the three lengths is that of the file. `Failures`: a
  write fails only with the connection, or as data of a file that was touched. `Reported`:
  FileSent is published once the data's future is done. Together they give
  `ReportedFilesAreSent`, although no listener asks whether the future succeeded.
- `FrameInv`: calls that are under way at the same time are marked (`MixedIfBoth`); the call
  whose header went out last is under way, unless its file was deleted, and the header
  of a call that is under way alone went out last (`LastHeader`). So whatever goes out behind
  the header of a call that overlaps no other is that call's data (`FramesStayIntact`).

`Collapse_proofs` proves `AnnouncedAsItIs` and `OneOpenPanel` for any number of panels. `PanelsInv`
speaks of each panel alone: it is moving just while handlers wait for it, it is announced as
what it is or will be unless misread, and its instance knows of the transition just if
one of those handlers is the instance's own. The last part is what `Accordion` needs: `show` looks at
the first active panel only, and if that one's instance says that it is at rest it is open,
so that it is the only panel up, and is hidden. Where an instance was dropped the argument
fails, and so does the code: that is `confused`.

Each of these invariants was checked by TLC before it was proved. Liveness
(`ClosedIsCleanedUp` and all of the other modules' leads-to properties) is model-checked
only: fairness is out of the prover's reach. Every safety property of the passing runs is
proved. The other way round, `TypeOK` of the modules with proofs, `LeftBehindOnlyByRejoin`, `OnlyClosedIsRemoved`
and `OneLoopLosesNothing` are proved and not part of a run.

## 5. Not modelled

Start-up (one sequence, run once); the Telnet and Echo servers (not started) and the
controllers `Command` and `NCommand`, whose registry only the Telnet server fills; the
agent page (its channel is always null), the workspace listing, and JSP without scripts.
Of the legacy `FileCommand`: what becomes of its data, which is written and not flushed. Of
the watcher: that a directory saved later is not watched is in the model (`directory` is
read once), and no property is about it. Of the console page: that its `onOpen` throws and
that it does not reconnect are in the model, and no property is about them.

Of `bootstrap.js`: scrollspy (its navigation has no target on any page), tab, affix, alert
and button, which the pages do not use, and `npm.js`, which only names files; calls of collapse and
dropdown by scripts, which no page makes; the tooltip's option `selector` and the placement
of its tip; heights, widths and positions. jQuery and the browser are as their callers see them.

Of all parts: memory leaks of buffers, logging, the wording of messages.

## 6. Plan

1. A composition of `OperationServerHandler` with `WsHandler`: an agent's life and the
   broadcasts on its loop, so that "the listener throws" is a consequence and not a choice.
2. A variant of `CommandDelivery` for the legacy `FileCommand`, whose data is written and
   not flushed, and whose header counts the chars of a name and not its bytes.
3. The order of bean creation: the watcher against the constructor of `NConfiguration`.
4. The tab plugin, and the tooltip's `selector`.
