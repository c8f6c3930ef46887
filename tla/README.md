# ReqGate in TLA+

ReqGate is a small HTTP gateway: it accepts HTTP requests, turns each into an
XML message for a backend (Lumith) over nanomsg, waits for the XML reply that
carries the request's number and renders it back to the client. This directory
holds TLA+ models of that program, the TLC configurations that check them and
the proofs that TLAPS checks.

Run anything from this directory:

    tlc -workers 2 -config Lumith_pool.cfg MCLumith.tla     # one model check
    tlapm LumithProofs.tla                                  # proofs, also of the other *Proofs.tla

## The system

`main` (src/reqgate.c) reads conf.xml, maps the static folders and calls
`forkAccepts` (src/server.c), which forks the worker processes. Workers share
one listening socket and nothing else: each has its own memory, its own nanomsg
sockets, and takes one connection at a time. A worker that dies is not replaced.

| component | source | state it keeps | operations |
|---|---|---|---|
| Connection server | server.c, reqgate.c | the connection in hand, `read_all`'s buffer (size, position, total) | accept, read, parse, 100 Continue, serve, close |
| Request object | request.c | keep-alive, post data, the parser's headers | filled once by `parse_request`, read by the rest |
| Backend exchange | lumith.c, thread_data.c | per process: request counter, inbound PULL and outbound PUSH socket, whether each is set up; per request: its number, the message in hand | route, bind, connect, send, receive, verify, discard, time out, accept |
| Response writer | response.c, cookies.c | the body, cookies, and the nanomsg buffer it points into | fill from the reply, send, free |
| Text buffers | str_buffer.c | an area that grows: data, pos, maxlen, maxpos | new, extend, append, append with escapes |
| XML names | xmlbare/string_tree.c, red_black_tree.c | a red-black tree from the hash of a name to a chain of entries | store, get, getarr, put, delete |
| XML parser | xmlbare/parser.c | position, label, the node and the attribute being built | parse, look up |
| URL paths, static folders | urlpath.c, static.c | the parts of a path; the mapped folders | decode, infolder, serve a file |
| Post data | postdata.c, multipart_parser.c | names and values, multipart parser state | parse, lookup |
| Base64 | base64.c | none | decode |
| HTTP head parser | picohttpparser | the place it is at, the headers found | parse a request's head |

How they interact. `loopAccepts` takes a connection and calls `process`, a loop
of `parse_request` (which calls `read_all`, the head parser, and after an Expect
header `read_all` again) and `lumithc::serve`. `serve` answers from a static
folder or calls `handle_req`, which keeps its thread_entry between requests and
exchanges messages with the backend; the reply goes through the XML parser,
which stores names in string trees; `responsec::send` writes to the connection.
All calls are synchronous. Concurrency is between processes, the backend and the
clients; the shared state is the listening socket, the addresses that workers
bind and the messages on their way.

What is hard here:

- replies come late, in any order, or never, and the one number in them has to
  tell them apart (lumith.c:205), also after timeouts and restarts;
- sockets are set up lazily, once per process, and each set-up can fail at its
  own place and be retried by the next request (lumith.c:120-147);
- a request is what a read happens to deliver: only a short read ends it
  (server.c:124), so the client's pacing and the buffer's size matter;
- clients cancel, idle, pipeline, split and stop reading; processes die and are
  not replaced;
- the parser is a hundred gotos over letters, told of no length: what ends it is a
  NUL, which not every label looks for; nodes are built in memory that an earlier
  reply may have left its values in;
- the area that a message is written into grows in the middle of a value;
- a nanomsg buffer is handed from `handle_req` to the response and freed by
  whichever comes last.

What makes each component correct:

- *Backend exchange*: a page goes to the request it answers; a reply that is
  there is not lost behind stale ones; every request ends; each buffer is freed
  exactly once.
- *Connection server*: a connection has one owner and is closed once; reading
  keeps the stream intact; answers come in order, with whole bodies; keep-alive
  is kept; what was sent is answered.
- *XML parser and response writer*: the tree is what the backend meant, however it
  was spelled; a cut reply yields nothing that was not in it; what the client
  reads is what the backend meant, over the length that was announced.
- *Text buffers, names, paths, post data, Base64*: each computes the function it is named
  for, at every boundary of its buffers, and stays inside them.

`PROJECT.json` lists the hazards line by line, with the properties that watch them.

## The modules

| module | what it is |
|---|---|
| `GatewayService` | what a worker promises: phases ready, busy, done, down; each request is numbered, finished once, and answered with its own page or with none |
| `Lumith` | lumith.c and thread_data.c: the worker pool and the backend; refines `GatewayService` |
| `LumithProofs` | theorems about `Lumith` |
| `MCLumith` | instances of `Lumith` for TLC |
| `Server` | server.c: clients, connections and workers over byte offsets |
| `ServerProofs` | theorems about `Server`: who has a connection, what is read, which requests are answered, when, and how |
| `Induction` | induction over numbers and recursion over an interval, with sets and functions; what `FlattenSeq` computes |
| `MCServer` | instances of `Server` for TLC |
| `ReqGate` | the gateway as a whole: `Server` and `Lumith` composed; refines `Server` |
| `GateProofs` | theorems about `ReqGate`, from those about its parts |
| `MCReqGate` | an instance of `ReqGate` for TLC |
| `HttpHead` | picohttpparser.c and the middle of parse_request: path, headers, kind and place of the post data |
| `HttpHeadProofs` | theorems about `HttpHead` |
| `MCHttpHead` | instances of `HttpHead` for TLC: heads in every spelling, every piece of them |
| `StrBuffer` | str_buffer.c: the area of text that grows |
| `UrlPath` | urlpath.c and static.c as operators: decoding, folder test, file name |
| `PostData` | postdata.c and multipart_parser.c: names and values out of a body |
| `PostDataProofs` | lemmas about `PostData`: the type, who survives, the pairs and the parts that are found |
| `Request` | what a worker makes of a request: composes `UrlPath`, `PostData` and `StrBuffer` as request.c, server.c and lumith.c do |
| `RequestProofs` | theorems about `StrBuffer`, and about `Request`, from those about its parts and about paths |
| `MCRequest` | instances of `Request` for TLC: paths and bodies |
| `NameTable` | what a string tree promises: names, each with the data stored under it, in order |
| `RedBlackTree` | red_black_tree.c as operators on explicit nodes |
| `StringTree` | string_tree.c over `RedBlackTree`; refines `NameTable` |
| `MCStringTree` | instances of `StringTree` for TLC |
| `XmlParser` | parserc::parse of xmlbare/parser.c, label by label |
| `Base64` | base64.c as an operator |
| `Reply` | what a worker makes of a reply: composes `XmlParser` and `Base64` as handle_req, process_results, cookies.c and response.c do |
| `ReplyProofs` | a theorem about `Reply`: what the parser marks and where it stays |
| `MCReply` | instances of `Reply` for TLC: replies in every spelling, cut and garbled |

### Lumith

One function of workers per variable of the code: `request_num`,
`socket_in_done`, `socket_out_done` are the fields of `thread_entry`
(thread_data.h), `cur` is handle_req's local `request_num`, `msg` its `buf`,
`held` the nanomsg buffers received and not yet freed, `answer` how the
`responsec` was filled. `bound` says that the inbound socket really has its
address, which `socket_in_done` does not: `nn_bind` failing with EADDRINUSE is
let pass. `inbox` and `jobs` are the messages to and from the backend.

`pc` cuts handle_req where another process or the backend can be seen:
`ServeStatic`/`Start` (the routing of `serve`, the number), `Bind*`, `Connect*`,
`Send`, `Receive`/`Hang`/`RecvTimeout` (the `nn_recv` and the parse),
`Discard`/`Accept` (the test of the number), `Respond` (response.send, which
frees the buffer). The sends that time out, the binds and connects that fail and
the early returns behind them are all there.

A page's content is left out. A reply is a record of the request it answers and
the form of its XML: with `<rn>`, without, or with three siblings of one name
(on which `string_tree_c::store` loops for ever, action `Hang`). The backend is external and may reorder, delay or drop. `Crash` kills a worker anywhere;
`Relaunch` starts the gateway again with the pids it had, as in a container,
while the backend still has the old requests.

### Server

A client is a script of requests (length of head, length of body, keep-alive,
expects 100 Continue) and its stream is known by byte offsets. `Splitters` may
stop inside a request, `Pipeliners` do not wait for answers, every other client
is *disciplined*. `ReadFull`, `ReadShort`, `ReadEnd` and `ReadFails` are the four
outcomes of a `read` in `read_all`, with the buffer arithmetic of the code
(`cursize`, `curpos`, `totsize`); `pc` tells its two call sites apart ("read",
"more"). `ParseHead` is `parse_request` on a buffer in which a whole head is found:
at its start, or behind a rest of the request before it that the parser takes for
an empty line or for the beginning of the method (`HeadFound`). On any other
(`Fragment`) the head parser fails and the code does not look: with a path it goes
on with the headers that were found (`ParseFragment`), which are of the request the
buffer starts in or, where it runs on into the next, of that one; without a path
the worker dies in `urlpathc::decode` (`ParseNoPath`). `Serve` is lumithc::serve
in one step, and the keep-alive test. `Stallers` are clients that may leave a
response in the socket: then the worker is stuck in `writen` (`WriteBlocks`, pc
"write") until they cancel. `Crash` stands for a worker that dies
anywhere else, serving a request for `/` included.

### ReqGate

Here a request is served by the steps of `Lumith` (`Gate`, whose `pc` is `at`)
while the connection's worker is at "serve": `ServeBegins` is the routing of
`serve`, `ServeGoesOn` is `handle_req`, and `ServeEnds` is `response.send`, at
once Lumith's `Respond` and Server's `Serve`. A worker that dies dies in both
(`GateDies`). `asked` remembers for which request of which connection a number was
taken, and `pages` whose page each answer carried; neither is read by the
program. That lets `RightPage` speak of clients, which neither part can, and
`ServerFairSpec` says that `Server`'s one step is what all those steps come to,
fairness included.

### HttpHead

`Server` knows of a request's bytes where they begin and end; here are the bytes.
A buffer is any piece of a request, as `read_all` may get it. `at` is the parser's
`buf`, and each action takes what one turn of the code does: the request line word
by word, then header by header (`Name` or `Fold`, and `Value`). What the code
returns, a length or -1 or -2, is `ret`, and `Construct` and `TakePost` are what
parse_request does next, which is the same for each of them. Words that the code
compares as a whole are letters with a width, since the version looks at how many
bytes are left.

A request comes with how its sender spelled it: the method, the path, each line's
name, blanks, value and end. `IsSound` says what such a spelling may be and what it
means (`keep`, `expect`, `kind`, `boundary`): nothing of it is about the parser. The
properties say that the parser finds that spelling again. A request that is not
sound is any letters at all.

`PieceMeant` is what `Server`'s `ParseFragment` takes for granted of a piece of one
request (one that runs on into the next is not here; `Server` lets it find that
one's headers): that it keeps no connection that its client did not keep, and that
a piece of the body has no headers. That is so if the protocol is named once in the
request (`NamedOnce`): a body that holds a request of its own is one, if `read_all`
happens to start there. `Inner` is such a body: what it does to the parser is in the run, and the
property excepts it.

### StrBuffer and Request

`maxlen` is the code's; `content` is the text from `data` to `pos`. `val_append`
is two actions, one turn of its loop (`ValLetter`) and the last one (`ValEnd`),
with what the loop has written behind `pos` in `tail`. `MakeRoom` is the test at
the top of the loop: the extension copies up to `buffer->pos`, so `tail` is
gone, which `lost` remembers. `text` is what should be there.

`Request` follows one request: `Construct` (request::request, urlpathc),
`ParseBody` (the post data in parse_request, by the steps of `PostData`), `Serve`
(staticsc::ismapped, getfile) and then the calls of `request_to_xml`, among which
`BodyToXml` walks over the post data. `step` says how far it is, `stage` how far
the post data is. `UrlPath` keeps a path as memory, length and counted slashes.
Memory that was not written holds a byte `heap`, chosen when the path is built:
the decoder reads it behind an escape. `DecodeLetter` and `InFolder` keep what is
odd in the code: the last byte is not looked at, only a folder's first part is
compared.

### PostData

A body is a sequence of letters; words the code compares as a whole
(`Content-Disposition`, `form-data; name="`) are one letter, which keeps the
differences of positions and drops the spelling. `pstate`, `i`, `mark`, `index`
are the multipart parser's, with one action per state of its switch; `UrlName`,
`UrlValue` and `UrlEnd` are the loop of `parseUrlencoded` and what follows it.
`vals` is the list from `firstVal`, with pointer and length of each name and
value, so that `TypeOK` can say they lie in the body. A post holds what the client
meant (`parts`) beside what the gateway got (`body`). "crashed" is the null
pointer of `ondata` and the unset pointer of `request_to_xml`, where the code
goes on or not.

### XmlParser, Base64 and Reply

The buffer `mem` is a sequence of letters that ends in a NUL; `CDATA` is one
letter, names are one letter each. `label` is the label of the code's gotos, with
one action per label (the comment and quote labels share theirs), `cpos` the
letter it is at, `nodes` and `curatt` what is being built. Names and values are
pieces of the buffer, as in C, so that `escape_att`, which writes into it, is seen
by whatever points there. "hung" is a label that goes back to itself, or
`string_tree_c::store` on the third of one name; "crashed" is a pointer that was
not set.

`heap` says what memory new nodes get. The constructors of nodec and attc leave
most fields as they find them: in `fresh` memory they read zero, in `used` memory
anything, so every read of one is a choice (`Unwritten`).

`Reply` goes on from there: `Verify` is handle_req's test of `<rn>`,
`ProcessResults` fills the response, `Send` writes head and body with the NUL that
each call of `writen` has behind it, `Destroy` is the end of the tree. A reply
comes with what the backend means by it (`doc`): `whole`, `cut` at some letter, or
`garbled` in one.

### RedBlackTree and StringTree

A tree is a record of the children, parents and colours of all nodes, with the
two sentinels of the code. The code writes each case once for the left and once
for the right; the module writes it once, for a side. `InOrder` and
`BlackHeight` are the reference definitions it is checked against.

`StringTree` has `chain[node]`, the snodecs that hang on a node, and three
actions, `Store`, `StoreLen` (the loop that never ends sets `hung`) and
`DelKey`. A name whose hash another name has gets a node of its own with an equal
key, and may then hide or be hidden; so the refinement of `NameTable` is stated
for the names whose hash is their own.

The gateway only stores names and looks them up. `delkey` (whose one caller is
`setmore`, which has none), `RBDelete` with `TreeSuccessor` and `RBEnumerate` with
`TreePredecessor` are library code that it never runs; they are modelled because
they work on the same tree.

### GatewayService

`phase`, the number of requests `served` and the `outcome` of the one that is
done. Its `Finish` may answer with the request's own page, with any page of an
*earlier launch*, or with none. That middle case is in the specification because
the code's numbers start again at 1 in each process, so an old reply may have the
right one, and because a reply without a number is taken whatever it answers.

## The runs

| run | what it asks | bounds | distinct states |
|---|---|---|---|
| `lumith_pool` | pages go where they belong, requests end, replies are rendered, `GatewayService` with its fairness | 2 workers, one of whose addresses a stranger holds, 3 requests each, numbered and unnumbered replies | 137,148 |
| `lumith_restart` | numbers are fresh, buffers are freed, `GatewayService` across a restart | 1 worker, 2 requests, 2 launches, all reply forms | 26,990 |
| `lumith_crowded` | expected to fail: a reply with three siblings of one name is never rendered | 1 worker, 1 request | |
| `server_unruly` | one owner, buffer arithmetic and order for a splitter and a pipeliner, who may not read its responses | 2 workers, 2 clients, 2 and 3 requests | 3,797,185 |
| `server_exact` | expected to fail: a request that fills the buffer exactly is not answered | 1 worker, 1 client | |
| `reqgate` | order, bodies, keep-alive, answers, the right page for each client, leavers, `Server` with its fairness | 1 worker, a disciplined client with 2 requests, a splitter that may not read, 3 backend requests | 184,125 |
| `string_tree` | linked, ordered, balanced, nothing hidden, enumeration, `NameTable` | 8 names over 7 hashes, one of them stored twice | 28,808 |
| `http_head` | path, headers, post data of whole heads, cut ones and pieces; no read behind the buffer | 3 headers, 270 requests, one more garbled at every place, in 192,424 pieces | 977,121 |
| `head_crowded` | expected to fail: post data begins behind the head | one header too many | |
| `request` | decoding, folder and file, the area, the message, names and values of the body, an end to it all | all paths of up to 5 bytes over 6 letters and longer ones, 8,881 bodies, a boundary of 3 letters | 367,707 |
| `request_root` | expected to fail: a request for `/` gets nowhere | the paths, with `/` | |
| `xml_reply` | the tree, the response and what the client reads of it, an end to parsing | replies in every spelling, four cut at every place, two garbled at every place | 95,090 |

Bounds and why they are enough.

- `MaxRequests = 3`: a stale reply needs one earlier request; with three, replies
  arrive late, twice in a row, in front of the right one, and behind a request
  that was given up on between two others.
- `MaxLaunches = 2`: an old launch's reply reaches a new one.
- Two workers are enough for one to take what is meant for another; that one's
  address is taken has its bind fail at every request.
- `InitialSize = 4` in place of 500: heads are 2 or 3 bytes, so requests fit, fill
  the buffer exactly, or make it grow once or twice.
- Scripts of two or three requests: an answer, a second one on the same
  connection, a close.
- `reqgate` has one worker, since workers share nothing but the listening socket,
  which `server_unruly` has two at. Its first client's post makes the buffer
  grow, its second request waits for 100 Continue; the second client comes
  before, between or behind. Three backend requests are one for each.
- `MaxHeaders = 3` in place of 15: none, some, all and one too many; each pair of
  the headers that the server looks for, in both orders, and a folded line between.
- Seven keys: red-black trees of up to eight nodes have every case of insertion
  and deletion, for both sides; two names with one hash put equal keys on both
  sides of one another.
- `BufLen = 3` and `Slack = 1` in place of 5000 and 50: appends and values grow the area,
  at the start, in the middle and at the end of a value.
- Paths of up to five bytes over slash, percent, two digits, a letter and an
  apostrophe: escapes whole, cut and at the end, none to one at a time; the
  longer ones have two escapes, two slashes, or enough quotes to grow the area
  twice. Folders are `t` and `tx`: one's name starts the other's. All paths come
  with one body and all bodies with one path, since neither's code reads what the
  other's left.
- Multipart data of up to five letters over CR, LF, hyphen, a letter of the
  boundary and another: every start of the boundary (of three letters), nested in
  line ends in every way; two parts, since only the last one's end differs.
- Replies: attribute values of up to two letters over quote, backslash, blank,
  slash, `>` and another, in each kind of quotes and in none; each kind of noise
  between elements and before text; bodies that need each length of a last group
  of Base64, padded, broken, invalid and of the wrong length; every combination of
  the parts of a cookie and of a head. `TypeRoom = 3` in place of 81.

Deadlock is not checked: clients may be done, workers all be dead or hung, and
the bounds used up.

Fairness. In `Lumith` and `Server` `FairSpec` has weak fairness of what a worker does with a request in
hand (`Handle`), or in `Server` of its next step; `GateSpec` has that of the two
together. `RequestSpec` and `ReplySpec` have it of loops and straight code that
wait for nobody. The code never waits for
another process except in `accept`, `read`, `nn_send` and `nn_recv`; the last
two have timeouts (lumith.c:133-134, 145-146) that are actions of the model, and
the actions of the first two are disabled while there is nothing to take. A
`write` to a client that does not read is `WriteBlocks`, behind which nothing is
enabled before the client cancels. No
fairness is assumed of clients, of the backend, or of crashes.

## Disagreements found

1. *Third sibling* (string_tree.c:183). `while( next ) curnode = next;` never
   advances. A reply with three elements of one name under one parent, stale or
   not, takes the worker out for good: run `lumith_crowded`.
2. *Exact fit* (server.c:113). A request of exactly 500, 1000, 2000, ... bytes is
   followed by another, blocking, read: run `server_exact`.
3. *Empty path* (urlpath.c:16). `while( --len )` on length 0 reads until the
   process faults. That is a request for `/`, and a piece of a request that ends
   before its path does: run `request_root`, action `ParseNoPath`.

4. *Too many headers* (server.c:266). What the head parser returns is taken for a
   length even if it is -1: of a request with more than 15 headers the post data
   begins in front of the buffer: run `head_crowded`.

Further oddities that a property states the limits of, rather than a run that
fails:

- nothing closes an idle connection, though the response promises `Keep-Alive:
  timeout=5` (response.c:46, server.c:331): `LeaversReleased` promises only that
  a process is free again when its client leaves;
- the constructor of nodec does not set `value` (parser.c:31), so that an element
  without text, `<body/>`, has the value that an earlier reply left in the memory,
  and the client may be sent that: `ReplyDelivered` is not promised of a reply
  without a value in memory that was used;
- a value in whose middle the area grows loses its start (`TextKept`,
  `MessageWhole` except `lost`);
- behind an escape the end of a path is unwritten memory (`PathStartsDecoded`);
- the body sent after 100 Continue is read and not used (`AnswersRight`);
- headers are found only in the spelling of the code, `keep-alive` and
  `100-Continue` included, though HTTP makes no difference (`HasHeader`);
- the data of every part but the last has a line end too many (`PartsTrue`); posts
  without a body, without any `=` or with a nameless first part kill the worker
  (`PostSurvived`);
- a name may hide another with its hash (`TableSpec`);
- head and body are written with their NULs, so that the body the client reads
  comes one byte late and one byte stays in front of the next response
  (`ReplyDelivered`);
- a cookie that expires without key or val, a long content type, and a value that
  starts with a backslash and no quote kill the worker, a name in quotes without a
  value hangs it (`ReplySurvived`, `ReplyEnds`);
- a reply that is cut behind `/`, behind a backslash or in CDATA is parsed beyond
  its end (`ReplyTypeOK`).

## The proofs

`LumithProofs` proves, for any workers, endpoints, bounds and backend:

| theorem | statement |
|---|---|
| `TypeCorrect` | `Spec => []TypeOK` |
| `AnswersMatch` | `Spec => []AnswerMatchesRequest`, if addresses are distinct |
| `NumbersFresh` | `Spec => []FreshNumber`, if addresses are distinct |
| `BuffersFreed` | `Spec => []BuffersReleased` |
| `ImplementsService` | `Spec => ServiceSpec`, if addresses are distinct |

The assumptions are those of `Lumith` (an address for each worker, positive
bounds, a no-message value that is no message) and, where it says so,
`DistinctEndpoints`, what `%u` in conf.xml's `socket_in` is for. Without it
`AnswerMatchesRequest` is false: the process that holds the address receives the
others' replies.

The argument. `TypeOK` is not inductive: that `request_num` stays within its
bound needs that a worker with a request in hand has counted it, so `TypeInv`
adds `Numbered`. `AnswerMatchesRequest` says nothing of where a page comes from.
`IInv` adds that the request in hand is the last one counted (`CurIsLast`), that
every request at the backend, in an inbox or in hand is one that was counted
(`JobsPast`, `InboxPast`, `MsgPast`), and that an accepted reply has passed the
test (`PageFresh`). A number that is at most the last one counted, and at least
the request's own, is the request's: that is the whole of `handle_req`'s
comparison (`PageIsCurrent`). `BuffersFreed` has an invariant of its own
(`HeldInv`). `ImplementsService` takes the steps of one worker one by one:
`Start` is `Take`, `Accept`, `RecvTimeout`, `BindFails` and `ConnectFails` are
`Finish`, and the backend's and the sockets' steps are stutters.

`RequestProofs` proves of the text buffer, for any size of the first area, any slack and any
strings:

| theorem | statement |
|---|---|
| `StaysInArea` | `Spec => []InArea` |
| `KeepsText` | `Spec => []TextKept` |

The assumptions are that the first area has at least a byte and that bytes are
numbers. Here `IInv` is the type, `InArea`, and that nothing is left of a value when
`val_append` is not running (`Idle`). Each turn of the loop writes at most two bytes,
and `RoomMade` shows that the test at its top leaves room for three, the NUL
included, whether or not the area was extended; `ExtendedEnough` that an
extension is never smaller than what was asked for. `KeepsText` takes `IInv` as
a fact and needs no strengthening of its own.

`ServerProofs` proves, for any workers, clients, scripts and size of the first
buffer:

| theorem | statement |
|---|---|
| `TypeCorrect` | `Spec => []TypeOK` |
| `Owned` | `Spec => []OwnedOnce` |
| `ReadingSound` | `Spec => []ReadSound` |

The assumptions are that requests have a head, that the first buffer has room, and
that what stands for no connection is none. Again the type is not inductive: that
`taken` and `curpos` stay numbers needs that a read has room left (`Room`), and that
the worker has a connection at all (`HasConn`). `Owned` adds that an open connection
is held (`OpenIsHeld`) and that no two workers hold one (`OneHolder`), which is
inductive with the type. `ReadingSound` rests on both: `from + totsize = taken`
survives another worker's step only because that worker reads another stream, and
the second `read_all` is left out of the equation because it starts over in a
buffer of its own.

Its second half goes on from there:

| theorem | statement |
|---|---|
| `AnswersInOrder` | `Spec => []AnswersAdvance` |
| `AnsweredRight` | `Spec => []AnswersRight` |
| `KeepAliveKept` | `Spec => KeepAliveHonoured` |

The model knows a stream by the offsets at which its requests end, `End(c)`, a sum
over the script, and all that is said of order needs that these grow
(`EndIncreases`, `BeginOrder`): an induction over the script. The library's
induction theorems take an operator, which no prover here can instantiate;
`Induction` has the same facts for a set of numbers (`SetInduction`) and for a
function (`RecursionExists`), proved from the well-foundedness of `<`.

The invariant is `ServerInv == TypeInv /\ Ownership /\ Stream /\ Order /\ Turns`.
`Order` says that what a worker reads, or has in hand, lies behind what was
answered on its connection (`Before`, `Ahead`), and that nothing was answered on one
that was not accepted yet (`Unanswered`): that is enough for `AnswersAdvance`,
with any client. `Turns` is about the disciplined ones, for whom the answers must
be exact: with n answers, the stream of one stands at the end of its n-th request, or
as far behind it as it goes without an answer (`AtTurn`; `NextStop` says where its next
piece ends), also before its connection is accepted (`Waiting`). So what a worker
parses starts and ends where a request does, what it has in hand is the request
that is due (`AllInTurn`, `Given`), and it parses an empty buffer only when the client has
gone (`NoEmptyParse`); the answers up to there are those of the script
(`RightSoFar`). It is all one invariant because the client waits for the
answers and the answers are right because it waits.

`GateProofs` proves, for any workers, clients, scripts, number of backend
requests and backend:

| theorem | statement |
|---|---|
| `ImplementsServer` | `GateSpec => Spec`, the `Spec` of `Server` |
| `PagesRight` | `GateSpec => []RightPage` |
| `GateAnsweredRight` | `GateSpec => []AnswersRight` |
| `GateKeepAliveKept` | `GateSpec => KeepAliveHonoured` |

Its assumptions are those of `Server` and of `Lumith`, one address to each worker
among them, which `ReqGate` gives by definition. `GateStep` shows that every step of
the gateway is a step of `Server` or leaves that alone, and a step of `Lumith` or
leaves that alone; so the invariants of `ServerProofs` and of `LumithProofs` (which
is instantiated, as `Pool`) hold here and need no proof again. What joins the two
is new: a worker is in `handle_req` only while its connection is being served
(`InServe`), there is an entry of `asked` for each number it has taken
(`AskedCounted`), and the entry of the number in hand is the request in hand
(`AskedInHand`), which lasts because nobody else writes on that connection
(`OneHolder`). By `PageIsCurrent` the number in an accepted page is the one in
hand, so the page is that of the request in hand, and goes to the place that is
next on its connection (`PagesCounted`).

The last two follow from the first and from `ServerProofs`.

`RequestProofs` proves, for any path, body, boundary, folders, pieces of a message
and sizes of its area:

| theorem | statement |
|---|---|
| `RequestTypeCorrect` | `RequestSpec => []RequestTypeOK` |
| `PathIsDecoded` | `RequestSpec => []PathStartsDecoded` |
| `PathIsMappedRight` | `RequestSpec => []MappedRight` |
| `MessageIsWhole` | `RequestSpec => []MessageWhole` |
| `MessageInArea`, `MessageKept` | `InArea` and `TextKept`, of `RequestSpec` |
| `FindsPairs` | `RequestSpec => []PairsFound` |
| `FindsParts` | `RequestSpec => []PartsTrue` |
| `SurvivesPosts` | `RequestSpec => []PostSurvived` |

It assumes that a char is 0 to 255, that a path and the folders' urls have no NUL
(picohttpparser refuses one, picohttpparser.c:85; conf.xml cannot have one), that
a boundary is not empty (it has two hyphens in front) and has no carriage return
(it comes from a header's value, which ends there), and that a post has the shape of
one and, if it is multipart, is a piece of what its parts encode to.

*The path.* `Decode` is a loop, so there is an induction again: `IsDecoding` says what
its function of turns is (`DecodingExists`: there is one), and `TurnsCount` and
`TurnsOnTrack` go through it. Two facts carry them. A turn writes where it reads or
before that (`InPlace`), so what is still to be read is as it came (`Unread`); and as
long as the reading is within the path, it is at the start of a letter, with as
many letters before it as there were turns (`AtStart`), so that each goes to its
place (`ReadPlaced`). Behind the end nothing is claimed but that what is placed
stays. `TurnsCount` has it that the slashes that were counted are those in the
memory before the last byte, from which `SlashPosFound` shows that the search for
their places finds each, and `GetFile` and `InFolder` read nothing else. With
one-name folders that makes a mapped path one with a single slash, behind the
folder's name (`InFolderRight`).

*The message.* `RequestIInv` has the text buffer's `IInv` (each step of a request
is one of the buffer or leaves it alone: `BufferNext`) and what was written so far:
of the calls before the path, then of the letters of the path that `val_append` has
come to (`Written`), one more piece at a time by `FlattenMore`.

*The post data.* Request runs `PostData`'s steps, and so `RequestProofs` instantiates
`PostDataProofs` as `Found` and shows each step of the
request to be one of them (`FoundNext`). There, the type rests on `Places`: how far each state of the parsers
is behind the mark at least, so that no length is negative; the longest subtraction
is a boundary, whose letters have all been met. `SurviveInv` adds what a parser
without any name looks like: the urlencoded one has met no `=` (`Unpaired`), the
multipart one is in the head of a first part whose name is still to come, letter by
letter of what the client meant (`InFirstHead`). `PairsInv` is that the pairs found
so far, with `=` and `&`, are the body up to the mark (`Chained`: each starts where
the one before ended), that they have none of these letters themselves, and the
same of the pair in hand (`InName`, `InValue`). `FlattenTiles` turns that chain into the
equation of `PairsFound`.

*The parts.* `PartsTrue` asks of a multipart body only what every client sees to
(`WellParted`): a name for each part, without a carriage return, and a boundary that
no line of the data starts with. `PostDataProofs` first says where in such a body
everything is: the k-th part starts behind the k - 1 before it (`PartAt`, an
induction over the parts), and from there `PartLetters` has the letter at each place,
as far as the body goes. `PartsInv` then relates the parser to that. In each of its
states it is at one place in one part, or in a range of places within its name or its
data (`InHead`, `InRest`, `InData`), and the list is that of the parts before
(`Before`), with the name of this one as soon as that has been read (`Behind`). The
hard case is the data. A line feed behind which letters of the boundary were met is
remembered as such (`Matched`): either it is the one behind the data, and then every
letter goes on matching, or it is in the data, and then the match ends in time,
because `NoBoundaryInData` says so and because the carriage return behind the data is
no letter of a boundary. If a body ends within a part, the name or data that is
handed over for it is the start of what was meant (`CutIn`), and a list that is
not complete means that the body ended before its last line end (`IsCut`).
`FoundText` and `CutText` turn places and lengths back into text.

`HttpHeadProofs` proves, for any requests, any piece of one and any room for headers:

| theorem | statement |
|---|---|
| `HeadTypeCorrect` | `Spec => []HeadTypeOK` |
| `ServesAsMeant` | `Spec => []ServedAsMeant` |
| `MeansPieces` | `Spec => []PieceMeant` |

It assumes that there is room for a header, that a request has a head, and that one
that is called sound has the spelling it comes with (`RequestsAssumption`). A spelling
has any number of lines, any names and values of the letters that a name and a value
may have, each kind of line end on each line, and folded lines except for the
first.

*The type.* The scans end in the buffer (`ScanFinds`), and all but one look for its
end. The version does not, behind its digit: at least nine bytes must be left, the
protocol's name has seven, the digit one, so there is a ninth (`BytesOfVersion`).

*The layout.* `LaidOut` says where in the letters of a sound request its words and
lines are: the k-th line starts behind the k - 1 before it (`LineAt`, an induction over
the lines, with `FlattenSeq` from `Induction`), and within a line `LineSpelled` has
the name, the colon, the blanks, the value and the end. A piece is the letters from
`first` on (`IsPiece`), so what is at a place of the layout is what the parser reads
there, or it is cut (`Ahead`, `ScanTo`, `EolTo`, `Cut`).

*The invariant.* Neither property says anything before the parser has returned.
`MeantInv` says where it is in each of its states (`Meant`): before the headers, if
the piece has the start of the request, at the word it is to read (`BeforeHeaders`);
between two lines at the start of the next, with the headers of those before it
(`InHeaders`, `FirstHeaders`); in a value at its first letter, with its name in hand
(`InValue`); and at the end behind the head if all of it was there and its headers
fit, or else with -2 if it was cut (`AtEnd`). A header is appended only when the end
of its line was there, which is why a cut one never counts. Of a piece from the
middle nothing is known up to the version; but who gets past that has read
`HTTP/1.`, which is at one place only, and so from there on all of it holds for
that piece, too (`Followed`, `first <= VersionAt`). There is one lemma per action, and
`FirstOfMeant` and `KindFound` get from equal headers to the same keep-alive, 100
Continue, kind and boundary.

`ReplyProofs` proves, for any replies, request number and room for the content type,
and in `fresh` memory as in `used`:

| theorem | statement |
|---|---|
| `ReplyTypeCorrect` | `ReplySpec => []ReplyTypeOK` |

It assumes that a reply is a sequence of letters that ends with a NUL (nanomsg's
buffer has one, or the first that lies behind the message is taken for it), and of a
whole one that neither CDATA nor a `/` or backslash is left open by its end
(`EndsClosed`): nothing else is known of a reply, and nothing at all of one that is
cut or garbled. So this is about the parser alone, for any letters.

What it comes to is that the parser is told of no length. All labels but CDATA look
for the NUL, but some go on by more than the letter looked at. Where the letters
behind it were looked at, they are there (`FollowsMore`, `Behind`, `Ahead`); behind
`/` and a backslash they are not looked at, and that is the way out, unless
`EndsClosed` closes it. The other way out is CDATA: `Closing` says that of a whole
reply its end is still ahead, which it is when CDATA is entered (`CdataClosed`) and
after each letter that does not start that end (`CdataKept`).

The invariant is `ReplyInv == Place /\ Closing /\ Built /\ Marked`. `Place` has what
was sent from the parser's place on, since `escape_att` overwrites the message only
in front of it: without its backslashes a value is no longer than it was, so that
it ends, NUL included, where the parser is (`UnescapedShort`, `TakenSolid`,
`OverwrittenKept`). `Unescaped` goes through the value by recursion, and so there is
another induction over numbers (`RestExists`, `RestShort`). `Built` is that all
pieces of the tree lie in front of the parser and its places are those of nodes
(`Grown`), and that `curatt` is an attribute wherever it is used; `Marked` is the same
of the pieces in hand, with one exception: a value without quotes that starts with a
backslash has no place, and is never stored (label "crashed"). There is one lemma
per action of `Parse`.

Only model-checked, and why:

- the liveness properties (`ReplyRendered`, `SentIsAnswered`, `LeaversReleased`,
  `RequestEnds`, `ReplyEnds`) and the refinements with fairness (`ServiceFairSpec`,
  `ServerFairSpec`): fairness and ENABLED are out of the prover's reach;
- the properties of `StringTree` and `RedBlackTree`: insertion and deletion are
  recursive operators, which takes the prover its SMT backend;
- `TreeMeant`, `CutTreeBegins` and `ReplyDelivered`: they relate the tree to the
  document that a reply was written from, at any depth. That is an induction over
  documents, and the assumption would have to give the spelling of each, which
  `MCReply` does by building them;
- `ReplySurvived`: it reads the tree at the end of any reply. In a garbled one a value
  that starts with a backslash is rewritten where the value before it was, and may
  take an earlier name with it, so that no invariant says of every such tree what
  the parser once found there.

## Not modelled, and why

- Reading conf.xml (`parserc::parsefile` with it) and opening the listening socket:
  run once, before any of this.
- Parts of parser.c that the gateway does not call: `addmore`, `setmore` (but for the
  `delkey` that it calls), `dump`.
- Parts of picohttpparser.c that the gateway does not call: responses, chunked
  bodies, the check for a retried parse.
- Calls that a signal interrupts: no handler is installed, and SIGPIPE is ignored.
- The text of HTTP heads, pages and log lines; the numbers' signs.
- What nobody sends: two runs of CDATA in one element count as the first, as the
  parser has it, and no reply of `MCReply` means more.
- The number of nanomsg sockets opened by repeated failures, and the DOM trees
  of dropped replies: leaks with nothing in the code that bounds them.
- The block for a file's name, one byte short (lumith.c:80): what lies behind it is
  the allocator's.
- xmlbare/stack.c, which only `RBEnumerate` uses, and misc.c: `SafeMalloc` ends the
  process when there is no memory for a node of the tree.

## Plan

In this order:

1. A restart in `ReqGate`: `Relaunch` with the listening socket, once the order in
   which processes and pending connections go down is settled.
