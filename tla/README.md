# Verification of PicoCommon

PicoCommon is a collection of building blocks for programs on the Raspberry Pi
Pico W: an access point with DHCP, DNS and web server, a web server for station
mode, a serial console, and small helpers for files, status and temperature.
This directory holds TLA+ models of the parts that keep state, the TLC
configurations that check them on small instances, and TLAPS proofs.

## The system

Everything runs on one core. lwIP and the Wi-Fi driver call the servers back
from an interrupt, one callback at a time, each to its end; the main loop polls
the serial console. So among callbacks the unit of interleaving is the
callback, and what is hard is their order and number, calls that fail half way,
state that outlives the event it was meant for, and clocks and buffers at their
limits. The program itself is interrupted anywhere: where it changes what
callbacks use (it registers pages and starts DNS while requests come in) its
own steps are the unit.

| part | state | operations | hard behaviour |
|---|---|---|---|
| DHCP server, `ap_website/dhcpserver` | eight leases (MAC, 16-bit expiry), UDP socket | init, deinit, one call per datagram | lost and repeated datagrams, silent refusals, unreserved offers, leases against a wrapping clock |
| access point web server, `ap_website/picow_access_point.c` | per connection: pcb, buffers, lengths, counters | accept, recv, sent, poll, err | failing `tcp_write`/`tcp_close`/`calloc` several calls deep, several requests on one connection, partial acknowledgements |
| station web server, `http_server/tcp_server.c`, `http_server.c` | per connection: pcb, counters, flag | accept, recv, sent, poll, err | the same, with errors handled in a different place |
| serial console, `serial_console` | line buffer, index, capture flag | one call per character | nested polling from inside a command, full buffer |
| URL collections | map from URL to generator | register, lookup | prefixes, order of the map, lookups in the middle of an insertion |
| Wi-Fi and server lifecycle | connected flag, server state, listening pcb, UDP sockets | start, stop, restart | failure at each step, stop after stop, ports still taken |
| filesystem helpers | files in flash | get/set, mount, boot counter | power loss, shorter rewrites, unchecked results |
| DNS server | socket, address | init, deinit, one call per datagram | lengths and limits, queries during init |
| HTML helper, text of requests, DHCP options | a buffer | one call per text | lengths, memory that was not received |
| example programs | LED, previous time | main loop | a counter that wraps |
| status, temperature, build files | none | printing, one conversion | nothing to check |

The parts interact by plain calls: `access_point_init` starts DHCP, DNS and the
web server on one gateway address; the web servers call page generators, which
call back into them to write (`ap_send_get_responce`, `ap_tcp_write`,
`html_server_send_get_responce`, `tcp_server_send_data`) and may thereby close
the very connection they are called for; a console command may call
`serial_poll` again.

What makes each part correct: the DHCP server never gives one address to two
stations, honours a lease to its end and serves everybody it has room for; a
web server never touches a connection it has freed, tells lwIP when it aborted
one, answers each request with what it asked for, whole and in order, and lets
nobody hold a connection by silence; a request is taken apart into its own path
and parameters and gets a page registered for it; what is started can be
stopped and started again, whatever failed; what was stored is read back after
a loss of power; DNS answers fit their buffer and carry the gateway's address;
the console runs the line that was typed and lets go of the program when told
to.

## Modules

| module | models |
|---|---|
| `DhcpServer` | `dhcpserver.c`: leases, clock, every kind of datagram, init, deinit |
| `DhcpOptions` | the option area byte for byte: `opt_find`, `opt_write_*` |
| `DnsServer` | `dnsserver.c` |
| `DhcpStations` | composes `DhcpServer` with stations that retry (external) over a lossy network |
| `HttpConnection` | abstract: what a web server owes a client on one connection |
| `ApWebsite` | connections of `picow_access_point.c`; implements `HttpConnection` |
| `HttpServer` | connections of `tcp_server.c` and `http_server.c` |
| `SerialConsole` | `serial_console.cpp`, `default_commands.c` |
| `RequestText` | how both web servers take a request apart; the text of "not found" |
| `UrlCollection` | both `url_collection.cpp` |
| `StationLifecycle` | `wifi.c`, start and stop in `tcp_server.c` |
| `AccessPoint` | `access_point_init`, `access_point_deinit`, the sockets of DHCP and DNS |
| `Filesystem` | `filesystem.c` |
| `HtmlHelper` | `html_helper.c` |
| `MainLoop` | the LED loop of `main.cpp` and `main_ap.cpp` |
| `Programs` | composes `UrlCollection` and `MainLoop`: the programs once their server runs |
| `MC...` | instances for TLC; `MCLifecycle` and `MCParsers` run one of several modules per behaviour |
| `DhcpServerProofs` | theorems about `DhcpServer` and `DhcpStations` |
| `ApWebsiteProofs`, `HttpServerProofs` | theorems about the connections; the refinement of `HttpConnection` |
| `LifecycleProofs` | theorems about `StationLifecycle` and `AccessPoint` |
| `SerialConsoleProofs`, `FilesystemProofs` | theorems about the two modules |
| `ParsersProofs` | theorems about `DnsServer`, `RequestText`, `HtmlHelper` and `DhcpOptions` |
| `ProgramsProofs` | theorems about `MainLoop`, `UrlCollection` and `Programs` |

Operators whose names end in `Fault` are wrong variants of the definition that
follows them, kept to show that the properties notice such slips. No
specification uses them.

### DhcpServer

`lease` and `udp` are the fields of `dhcp_server_t`; `reply` is the datagram
the last call sent. `now` is true time; the code sees only `now % TICKS`. In the
code a lease counts units of 2^16 ms in 16 bits; the model has `GRANULE` and
`WRAP` for the two powers and needs only that a lease and one granule fit into
half a turn (`ClockAssumption`), which holds for 24 hours and 2^32 ms.
`Discover` is the scan of the DISCOVER case as one step: the first lease of the
station, the first usable one before it, and the wiping of that one. `Request`
is the REQUEST case; every path to `ignore_request` is a step that only clears
`reply`. `sent` covers a failed allocation as well as loss on the air.
`acked` and `bindings` are history: when each address was last acknowledged and
which addresses stations may be using. Stopping the access point takes the
stations' addresses away, so `dhcp_server_init` starts with no bindings; the
model does not cover a station that goes on using an address of an earlier run
of the server.

Options are taken by what they say: message type, requested address. Their
encoding is `DhcpOptions`: a client puts together a message of options, pads
and an end (external), `opt_find` walks over it and over the uninitialised
memory behind it, and the server's options are written over it.

### DhcpStations

A station is not part of the repository. It discovers, requests what it was
last offered, repeats, gives up after a while, and renews without the
requested-address option as RFC 2131 prescribes, which the server drops.

### ApWebsite and HttpServer

One action is one lwIP callback with everything below it. `con[c]` is the
connection state with its pcb: `armed` says whether the callbacks are
registered, `mem` what became of the `calloc`ed block, `ret` what the callback
returned to lwIP, `queued` what is written and not yet acknowledged. `wire` and
`asked` are history. Lengths count parts (header, body), which is all the
comparisons of the code tell apart. `tcp_write` and `tcp_close` may fail in
every place, `tcp_close` also in the error callbacks; which writes of a
response succeed is an input of the step. A connection shares nothing with
another one except the heap, whose exhaustion is the failing `calloc`, so one
slot that is used again and again is as good as several. The slot's
incarnations follow each other without limit.

Both `lwipopts.h` set `LWIP_NETIF_TX_SINGLE_PBUF`, so lwIP copies the data of
every `tcp_write`; buffers that are overwritten or go out of scope afterwards
are harmless and not modelled. The branches "Too much ... data" cannot be
reached with the formats in the source and are left out. The pbuf of a segment
is not modelled: it is freed or handed back to lwIP except when a connection is
aborted inside `recv`, where it is lost.

The error callbacks do as the code does: on ERR_ABRT they leave everything, so
the pcb is gone and the connection state lost; on a reset they close the pcb,
and abort it if that fails. They have no result (`ret` is `void`), so this one
abort cannot be reported. lwIP frees the pcb of a reset by itself and does not
expect it to be closed; what that does inside lwIP is not modelled.

In `HttpServer` lwIP's slow timer is in the model (`polltmr`, `tcp_slowtmr`,
`POLL_INTERVAL`), because an acknowledgement starts it again and nothing else
bounds a connection's life. A client may go on asking for ever: when `MaxAsked`
requests are remembered and all is acknowledged, `Recent` forgets them and moves
the origin of the two counters. In `ApWebsite` the first acknowledgement of all
that was counted closes the connection, and the poll is one step.
A program's own `get_handler` writes like a generator (`handled`).

### SerialConsole

`depth` is the number of `run_capture_command` loops on the stack, the rest of
the stack follows from it. A step is one character, handled by whichever
`serial_poll` is innermost, or the return of that `serial_poll` to a loop that
ends. A poll that finds nothing and returns to the main loop, or to a loop that
goes on, changes nothing. Bytes that are not printable are ignored by the code
and left out. Cell `INPUT_BUFFER_SIZE` of `buf` is the byte after the array,
which the code clears when the buffer is full. `commands` is the table of
`register_default_commands`; commands that only print change nothing. A first
word that does not fit `arg_string` may lead to any command or none, or stop
the device (`Lookups`).

### DnsServer

A step is one turn of the loop over the labels; the length byte is chosen when
it is read, since the text of a label decides nothing. `question_ptr` is an
offset into the buffer. `dns_server_init` is three steps, because queries come
in as soon as the socket is bound.

### RequestText

The request is a sequence over `/` (any character without meaning), `QUERY`
(the question mark) and `BLANK` (the space). `handle_tcp_data` searches the
whole buffer, so the text is followed by `Rubbish`. The access point's
`ap_tcp_server_recv` does the same.

### UrlCollection, MainLoop and Programs

The map is keyed by the address of the URL's text: `address` is any order.
An insertion is three steps: links are being changed (a lookup may pass over
any entry), the entry is there without its function, the function is stored.
`Programs` registers the pages one after the other, then runs the loop for
good; requests come all the time. `MainLoop` sees `now % TICKS`; `since` is
true time.

### StationLifecycle and AccessPoint

Blocks of memory are model values, so that a freed block may be used again.
`listener` is the argument lwIP passes to the accept callback. A start of the
station's server is two steps, because joining takes seconds. The programs may
make the calls in any order; `orderly` and `careful` say whether a program has
so far undone exactly what it must: for the station what the status of its last
start says, for the access point every init that got past `cyw43_arch_init`,
which the result does not tell. `arch` says whether the driver was ever up,
`misused` whether `access_point_deinit` called it when it was not. `lost`
counts pcbs nobody can close any more. Once a block is freed twice or a NULL
state is followed (`corrupt`) nothing more happens. The access point's server
state is never freed, so its starts are bounded by `Blocks`.

### Filesystem

`flash` is what survives a loss of power, which may come between any two calls
of littlefs (external: a file's data reach the flash when it is closed, all of
them or none). A filesystem that cannot be mounted even after formatting ends
in `fault`. `kept`, `maybe` and `tried` are history: what the last store that
returned wrote, what stores cut off by a loss of power since then would have
written, and everything that was ever to be stored in a file. A store is open,
close and return, so that power is also lost between the flash and the caller.
`get_int` and `get_string` change nothing; they are operators that give what a
reader would get in the present state, also when its open or its read fails.

### HtmlHelper

Two loops, a step per turn, and the NUL behind the second, compared with the
replacement as one expression. The length returned does not count the NUL: what
is written is one byte more, as the comment in the source says.

## Runs

Passing:

* `dhcp` - 3 stations, 2 addresses, octets in and just outside the pool, a
  clock of 8 granules of 2, leases of 3, time up to 18. The time bound is more
  than one turn of the clock (16), so every lease meets the wrap, and more
  stations than addresses make the pool run full. Checks the inductive
  invariant `IInv` (types included), `AddressExclusive`, `LeaseHonoured`,
  `OfferStands` and `RefusedOnlyWhenFullOrWrapped`.
* `dhcp_stations` - 2 stations, 2 addresses, time up to 8. Checks that retries
  never take a second lease (`OneLeasePerStation`), that a station that thinks
  it has an address is known by it (`BoundStationsKnown`), and that each gets
  one (`EveryStationServed`). Fairness: strong fairness of a station's
  exchanges that get through (stations repeat for ever and the network does not
  lose for ever), weak fairness of giving up (a timeout of the station). The
  server itself needs none: it only reacts.
* `ap_website` - up to 3 requests per connection, enough for a first request, a
  second that sees its leftovers and a third. Checks ownership of memory and
  callbacks (`CallbacksOwnState`), `AbortReported`, `AnswersMatch`,
  `OwnResponseDelivered` and the refinement `ImplementsHttpConnection`, whose
  fairness says that every connection ends. Fairness: weak, of the poll
  callback, which lwIP's slow timer calls for every registered connection. An
  acknowledgement starts the timer again, but one that does not close the
  connection leaves more queued than before its request, so the send buffer
  bounds how often that happens.
* `http_server` - up to 3 requests remembered, without a bound on those of a
  connection, and a poll at every second tick, so that an acknowledgement can
  come before it. Checks `CallbacksOwnState`, `AbortReported`, `SentCountExact`,
  `AnswersMatch` (here also that answers are whole while a connection lives)
  and `EveryConnectionEnds`: a connection ends unless acknowledgements of new
  data never stop. Fairness: weak, of the slow timer, a tick or the poll, which
  lwIP runs for every registered connection; none of any callback the client
  causes.
* `serial_console` - a buffer of 4, lines of up to 6 characters (a line may
  fill the buffer, or go past it), up to 3 nested loops, one-letter commands.
  Checks `TypeOK` with the bound on the stray byte and that a capture has a
  loop, `RunsWhatWasTyped`, `RestartsOnPurpose`, `CaptureReleases`. Fairness: weak, of
  the end of a loop: characters come in far more slowly than the console looks
  for them, so it always finds none waiting at some point.

* `filesystem` - two integer values and strings of no, one and two characters
  without a common prefix, so that a shorter one shows the end of a longer one;
  a boot counter modulo 3, so that it wraps; failing accesses, power lost
  anywhere. Checks `ReadsLastStored` (with the form of the files) and
  `BootCountExact`.
* `lifecycle` - either device, a heap of three interchangeable blocks (the
  symmetry is sound: blocks are only compared), two pcbs to lose, a driver
  initialised up to three times over: enough for a stop, a restart and another
  stop around every failure. Checks for the station `ListenerLive`,
  `OrderlyClean`, `StartedIsListening`, for the access point `CarefulRestart`.
  A heap or pool that is used up may stop a program, so deadlock is not checked.
* `parsers` - one of `DnsServer` (the sizes of the code; datagrams around every
  limit), `RequestText` (up to 6 characters in front of five kinds of leftover),
  `HtmlHelper` (up to 5 characters) and `DhcpOptions` (up to 3 options, with
  data and memory that look like a message type or the end). Checks
  `ReplyFits`, `CutOnlyIfTooLong`, `AddressOnceStarted`, `EveryQueryEnds`;
  `UrlSplitRight`; `ReplacesNewlines`; `FindsFirst`, `ReplyReadsBack`. Fairness:
  weak, of a step of the DNS callback, which runs to its end. The HTML helper
  and a DHCP message end, so deadlock is not checked.
* `programs` - four pages of `main.cpp`, `/temp` a prefix of two others, in all
  24 orders and for both servers, requests for them and for paths that are
  none; a counter modulo 5, period 2, turns of up to 2. A turn and a period
  together only just fit the counter, so the wrap is met from everywhere.
  Checks `LookupRight`, `EveryPageServed`, `LedOnTime`, `LedNeverEarly`.
  Fairness: weak, of registration: interrupts end, and the program goes on.

Disagreements between the code and what is written beside it, each shown by a
run TLC refutes:

* `dhcp_refused` - "No more IP addresses left" is also reached when every lease
  is long over: a lease looks alive again from 2^31 ms after its end to 2^32 ms.
* `ap_stale_result` - "Send not found" happens once per connection; the next
  unknown URL gets "200 OK" with the old page.
* `http_close` - responses say "Connection: close", but the flag that would
  close the connection is never set (and its name says the opposite).

More disagreements, and what a reader might expect and does not hold, are
stated as properties in their modules, without a run of their own; TLC refutes
each when it is named in the module's configuration:

| property | the code |
|---|---|
| `ApWebsite.DoneMeansAcknowledged` | "all done" is reached at the first acknowledgement of any page sent by a generator, because its length is never counted |
| `HttpServer.NoConnectionLasts` | a client that keeps asking and acknowledging holds its connection for ever |
| `HttpServer.EveryAbortReported`, `ApWebsite.EveryAbortReported` | an abort in the error callback is not reported: it returns nothing |
| `HttpServer.BodyFollowsHeader` | the body is sent even if the header was not |
| `DnsServer.AnswersWholeQuestion` | a question that ends before its type and class is answered |
| `DnsServer.AnswersOwnAddress` | a query between bind and the copy of the address is answered with 0.0.0.0 |
| `Filesystem.EachInvocationCounts` | an invocation whose access fails is not counted, or the count starts over |
| `Filesystem.StringReadsBack` | a shorter string is read back with the end of the longer one it replaced |
| `StationLifecycle.IsRunningTruthful` | `tcp_server_is_running` stays true after a stop |
| `AccessPoint.InitStartsServices` | `access_point_init` returns 0 although DHCP or DNS has no socket |
| `AccessPoint.FailedInitUndone` | `access_point_deinit` after an init that failed early follows a NULL state or calls a driver that is not up |
| `UrlCollection.RegisteredNotHandedOn` | a lookup in the middle of an insertion may miss another entry |
| `UrlCollection.RegisteredPageServed` | the access point may answer `/tempC` with the page of `/temp` |
| `RequestText.ParamsFromUrl` | a question mark behind the URL starts parameters |
| `RequestText.NotFoundNamesUrl` | "not found" names nothing if there were parameters |
| `RequestText.NotFoundBodyWhole` | the access point's "not found" page is cut, but sent with its full length |
| `DhcpOptions.PadsSkipped` | a pad is taken for an option with a length |

## Proofs

Of the 40 properties of the passing runs 34 are theorems, for every value of
the constants that the named assumptions admit; `TLAPS` checks every step.
Every invariant of the runs is among them. Each module below has an inductive
invariant `IInv` (checked by TLC first), the lemma that the initial states
satisfy it, one lemma per action, and theorems that follow from it.

### DHCP (`DhcpServerProofs`)

For every set of stations, every pool that fits one octet, every clock and
lease time within `ClockAssumption`: `Invariance`, `TypeCorrect`, `Exclusive`,
`OffersStand`, `Honoured`, `RefusedRightly`; for the stations `OneLease` and
`BoundAreKnown`.

`AddressExclusive` is not inductive: that two stations have different addresses
depends on the server never wiping the lease of a station that is still bound.
`IInv` therefore adds that a lease's expiry is the one computed when it was
last acknowledged (`LeaseRecorded`), and that a binding agrees with the lease
and ends no later than the lease time after that acknowledgement
(`BindingBacked`). The step that matters is `Discover`; it rests on the lemma
`NotExpired`, that the signed comparison of the wrapped counters never says
"expired" within the lease time. Its proof is arithmetic with an arbitrary
modulus: the stored expiry, widened with one bits, lies between zero and one
granule less one after the true end (`ExpiryRange`), so its distance from the
counter is the true remaining time plus that rounding, which is less than half a
turn. `RefusedRightly` needs the other direction: for half a turn after the end
the comparison does say "expired" (`EndShown`, `IsExpired`), so a lease that
stands in the way has either not ended or ended more than half a turn ago.

`StationsInv` adds to `IInv` that no two leases have the same station
(`LeasesDistinct`), that a lease of a station that is about to request is for
the address it was offered (`OffersOwn`), and that a bound station has a binding
(`BoundBacked`). Without `OffersOwn` a REQUEST might make a second lease.

### Web servers (`HttpServerProofs`, `ApWebsiteProofs`)

For any number of connections and requests (`MaxAsked` is any number; where the
station's server forgets, `Forgets` shows that the invariant is kept): both
prove `OwnState`, `AbortsReported` and that answers match requests; the
station's server `SentExact`, the access point's `Delivered` and `Implements`.

A connection shares nothing with the others, so the invariant is a conjunction
over connections and each step is proved on the one it changes. The station's
server needs `CountKept`: every part counted as written is acknowledged or
still queued. A failed write breaks that, and the proof shows that it ends the
connection in the same callback. `AbortsReported` is about the callbacks that
have a result; the abort in the error callback is in the model and excepted. On
the access point answers are numbered by the headers on the wire; `AllAnswered`
says that while a connection lives every request has its header and that no
result is left behind before the first unknown URL, which is what makes the
next answer the right one. `FirstCounted` relates the counters of
`ap_tcp_server_sent` to the queue for the first answer. `Implements` is the
safety part of `ImplementsHttpConnection` under the mapping of `Http`: an
initial state maps to one, and a callback to one step or none.

### Serial console (`SerialConsoleProofs`)

For every size of buffer, every alphabet, all names of commands within
`NamesAssumption`, and lines of any length: `TypeCorrect`, `RunsTyped`,
`RestartsAsked`. What the code keeps is bytes up to an index, what the
properties speak of is what was typed, so the invariant relates the two
(`BufferHolds`): the bytes below `recive_buffer_index` are the last characters
typed, all of them unless the buffer wrapped or a capture loop ended. `CString`
then stops at the NUL of the newline because no character before it is a NUL
(`LineRead`), and the first word, its delimiter and the argument put together
give the line again (`EchoRight`).

### Lifecycles (`LifecycleProofs`)

For every heap, pool of pcbs and nesting of the driver: `ListenerStaysLive`,
`OrderlyStaysClean`, `StartedListens` for the station, `CarefulRestarts` for the
access point. The properties speak of the ends of calls; `OrderlyHas` and
`CarefulHas` say what a program that keeps to the rules has in between, at each
step of a start: nothing, the driver, the driver with one state. That
`server_pcb` is set in exactly the block the listener has is needed for all
programs, also the others.

### Filesystem (`FilesystemProofs`)

For any files, values and width of the counter within `FilesAssumption`:
`ReadsStored` (`ReadsLastStored`), `BootsCounted`. `Durable` says that a file
begins with the value of the last store that returned, of one cut off since
then, or of the one that has yet to return; `Contents` that each cell of it is
from the same place of some value meant for it; `Pending` what an open file will
commit when it is closed, or has committed. A power loss moves what is pending
to `maybe`, so it keeps `Durable` whether or not the flash was reached.
`Contents` is what is left of a property where the code does not truncate: what
follows the value is the end of longer values and nothing else.

### DNS, requests, HTML and DHCP options (`ParsersProofs`)

For all sizes of which `SizesAssumption` says that a longest question with its
answer fits the buffer, and all datagrams: `TypeCorrect`, `Fits`, `CutRefused`,
`AddressGiven`. The invariant adds that the part looked at is the datagram cut
to the buffer, without which a walk that runs off its end could not be told to
be too long, and that a bound socket whose initialisation is over has its
address (`AddressStored`).

For all requests, of any length, and all contents of the buffer behind them:
`SplitsRight` (`UrlSplitRight`). The code cuts the whole buffer at the first
question mark and at the first space, in that order; the property cuts the URL
at the space and then at the question mark. `CutTwice` shows that the order does
not matter, `FirstOfConcat` that what follows the URL does not, and
`ParamsRight` that the second cut falls behind the first one whenever the URL
has parameters.

For all texts of up to any `MAX_INPUT` characters: `NewlinesReplaced`
(`ReplacesNewlines`, the NUL included). There is a function `F` of the results
for the prefixes of the input (`PrefixesExist`), and `HtmlInv` says where the
loops are in it: after `i` characters the first one has counted `Len(F[i])` and
the second one written `F[i]`. These lengths grow with `i` (`PrefixesGrow`), so
what is written stays below what was counted, and the last of them is the fold
of the property (`FlattenIs`).

For an option area with room for the server's options (`AreaAssumption`; the
code has 308 bytes) and all messages that fit it: `FirstFound` (`FindsFirst`)
and `ReplyFound` (`ReplyReadsBack`). Every turn of `opt_find` moves ahead, so
its walk is defined everywhere and reaches its end (`WalkEnds`, `FindWalks`).
`MsgInv` says that a message without pads is its options one behind the other
(`Laid`), each with its length in its second byte; a walk that stands on an
option therefore goes on to the next one (`Hop`) or stops (`Stop`), and never
stands on data (`WalkFindsFirst`). While the reply is written `AreaInv` says of
each option already there what its code and length bytes are; the walk over the
finished reply passes exactly those (`ReplyReads`), so bytes of the request
that are still in the area behind the end do not matter.

The provers have no induction rule here. The inductions over the prefixes, the
walk and the options go through `Induct`: a set of naturals that is not all of
them would leave a least one outside, and well-foundedness of `<` gives that
(`Least`). `HtmlInv` and `OptsInv` speak of functions that exist, which TLC
cannot enumerate; the run checks what follows from them.

### Programs (`ProgramsProofs`)

For every counter, period and length of a turn with `PERIOD + MAX_TURN < TICKS`:
`OnTime`, `NeverEarly`. The invariant relates true time to the counter, `now` is
`prev_time + since` or one `TICKS` less, and says that the loop was not yet due
when it last looked; the difference of the two readings is then the true time
(`ModTurn`). `RunsLoop` carries this over to the programs (`ProgramOnTime`,
`ProgramNeverEarly`).

For every list of pages and every order of their texts in memory:
`LooksUpRight` (`LookupRight`). `TextsAssumption` says that URLs and paths are
single words. A set of matches has one with the least address (`Least`), which
is the one the map's order gives; in the middle of an insertion the lookup sees
some subset of the entries, so the lemma is stated for every subset.

### Only model-checked

* Liveness, which is out of the prover's reach: `EveryStationServed`,
  `EveryConnectionEnds`, `CaptureReleases`, `EveryQueryEnds`, `EveryPageServed`
  and the fairness part of `ImplementsHttpConnection`.
* The three disagreements in the runs that expect a violation, which are
  counterexamples.

## Plan

Every part that keeps state is modelled, and every safety property of the runs
is proved. What is left: the abstract specification of a connection for
`HttpServer`, as far as it keeps to it; `opt_find` on messages with pads, of
which `PadsSkipped` in `DhcpOptions` says what RFC 2132 has and the code does
not.

## Not modelled

Text (formats, HTML) beyond what it decides; the temperature conversion
(floating point) and status printing, `lfs_error_to_string`; the straight-line
set-up in `main` before the server is started and its printing; the build files
and lwIP options, which hold constants; lwIP, littlefs and the Wi-Fi driver
beyond what the code relies on.
