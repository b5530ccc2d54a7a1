# discodns in TLA+

discodns is an authoritative DNS server that keeps no data of its own: every
query is answered from keys in etcd (`net/discodns/.A` holds the `A` records of
`discodns.net.`). This directory models its own logic (`resolver.go`,
`filter.go`, `server.go`, `main.go`) and what it runs on, as far as it uses it:
the DNS library `miekg/dns` and the etcd client `go-etcd`, both vendored under
`src/Godeps/_workspace/src/github.com/`. TLC checks it on small instances, and
TLAPS proves everything that does not recurse over data for all of them.

## The system

| part | code | state | operations | interacts with |
|---|---|---|---|---|
| question goroutines | `resolver.go` `AnswerQuestion`, `gatherFromChannels` | two unbuffered channels, a WaitGroup, one goroutine per record type, a closer, the counter `done` | start workers, look up, send, close, receive | called by the resolution for each name it tries; its workers read the storage |
| query resolution | `resolver.go` `Lookup`, `Authority`, `LookupAnswersForType`, `nameToKey` | the answers and errors so far, the wildcard level, the subdomain tried for the SOA, the reply | ask the name, then wildcards, then the authority | questions, storage |
| storage reads | `resolver.go` `GetFromStorage`, `findKeys` | the response, the last value node of the walk | one or two etcd requests, a walk | etcd client |
| record converters | `resolver.go` `converters`, `error.go` | none | parse one value, or refuse it | called for each value read; their records go on the wire |
| query filters | `filter.go`, `main.go` `parseFilters` | two lists of filters, fixed at the start | parse, match | asked by the handlers before the resolver |
| handlers, listeners | `server.go`, `miekg/dns/server.go` | the backlog, a goroutine per connection and datagram, counters per protocol | accept, read, dispatch, filter, resolve, write the reply | filters, resolver, messages |
| process | `main.go` | options, signal channel | synchronise, start, wait for the interrupt or a failure | everything |
| etcd client | `go-etcd` | the machines of the cluster and which one leads, shared without a lock | a request with retries, redirects and a change of leader | etcd |
| names on the wire | `miekg/dns` `labels.go`, `defaults.go`, `msg.go` | the compression map of a message | count, split and compare labels, pack, unpack | messages |
| messages | `miekg/dns` `msg.go`, `types.go`, `edns.go` | the buffer of a message | predict the length, pack, unpack | listeners, converters |
| zones | `miekg/dns` `zscan.go`, `zscan_rr.go` | a goroutine for the lexer and one for the parser, two bounded channels; owner, TTL, class and origin from line to line | lex, parse, read one record or all | tests of discodns, users of the library |
| metrics | `go-metrics` | counters, samples | count, report | handlers, resolver |
| search tool | `tools/search.py` | none | list keys | etcd |

What is hard here:

* the goroutines of a question and their channels: a loop that counts closed
  receives instead of closed channels, a closer, deferred calls, a recovered panic;
* up to a dozen etcd requests for one query, with other clients writing between
  any two of them, and requests that fail in the middle;
* the search order over wildcards and authorities with its boundary at the root;
* the pairing of values with `.ttl` nodes, which depends on how etcd sorts keys;
* one accept loop that reads from a connection before it accepts the next, clients
  that say nothing or do not read, handlers that count at the same time;
* requests that share a leader without a lock, each one's failure moving the
  others' target, and a limit of retries that several kinds of failure use up;
* names that are text with escapes in some functions and octets in others; a
  length predicted by other code than packs; pointers into the message; a buffer
  that is used again; messages that are cut;
* three goroutines that make a zone, with errors that end one of them early, one
  token variable whose fields outlive their token, and sixty small parsers that
  must each take exactly their own tokens.

PROJECT.json lists each of these hazards at its line.

What makes each part correct:

* question: everything found is delivered exactly once, nobody blocks for ever,
  a send never meets a closed channel, a panic costs one type only;
* resolution: a reply is explained by contents the keys had during the query; an
  error of a specific name is never hidden by a wildcard; a record nobody
  touches is never denied; the closest SOA is named; every query is answered;
* storage: every value exactly once, each with its own TTL;
* filters: the parser and the loops come to the decision the options state, and
  to the decision by labels where text and labels do not differ;
* server: every session is answered in order, each message at most once and with
  what it deserves; the counters add up at every moment; no client keeps others
  waiting; the process ends for one of four reasons and no other;
* etcd client: the failures of a request are bounded, and it gives up only when it has
  tried the list; it ends unless it is redirected for ever or waits for a machine
  that hangs, which the client does not limit; the leader is a machine of the list;
* library: what is sent arrives, what is cut is noticed and what is written is read,
  with exceptions that are known exactly.

## Modules

```
Answering   <-- implemented by --  AnswerQuestion  <-- MCAnswerQuestion
                                         ^------------ AnswerQuestionProofs
Zone <-- Resolution <-- implemented by --  Lookup  <-- MCLookup
                                             ^-------- LookupProofs <-- ResolutionProofs
                                          Storage  <-- MCStorage, StorageProofs
                                      QueryFilter  <-- MCQueryFilter, QueryFilterProofs
Service     <-- implemented by --          Server  <-- MCServer, ServerProofs
                                       EtcdClient  <-- MCEtcdClient, EtcdClientProofs
Names <-- Labels  <-- MCLabels
  ^-- Wire <-- Records <-- Message  <-- MCMessage
Types <--^
  ^------------------------ (table) ----------.
Lexer <-- ZoneParser --> Grammar               |
             ^  ^------------------------ ZoneFile  <-- MCZoneFile
             '--- ZoneParserProofs
```

An arrow goes from a module to the one it extends or, where it says so,
implements; ZoneFile instantiates the table Types.

**AnswerQuestion** is `AnswerQuestion` followed by `gatherFromChannels`. Each
record type has a worker, whose `pc` says where its goroutine stands: `lookup`,
`cname` (the second lookup of a question for a single type), `answers` or
`error` (blocked on a send), `return` (its deferred calls are due), `recover` and `exit`
(some of them are made), `exited`. A
lookup is one step with a nondeterministic outcome: `n` records, an error or,
if the constant `LookupMayPanic` allows, a panic. The channels are unbuffered,
so a send and its receive are one action (`ReceiveAnswer`, `ReceiveError`), and
the two closes are two actions, `CloseAnswers` before `CloseErrors`, which the
closer of an ANY question and the deferred call of a single worker share.
`ReceiveClosed(c)` may happen twice for the same channel, as in the code, where
`select` picks any ready case. The deferred calls of a worker of ANY are a step each,
in their order: `Done` (`wg.Done()`, after which the closer may go on) and then
`Recover`, which takes the worker out of `panicked`; a worker of a single type has
the closes instead. `Exit` is the end of the goroutine: what is still in `panicked`
then ends the process (`alive`). Types without a converter have the channels closed in `Init`, which
is the state when `AnswerQuestion` returns.

**Answering** is what the caller may rely on: each asked type is looked up
once, and one step hands over all records and all errors. No goroutine, no
channel. AnswerQuestion implements it with `outcome <- decided` (the result of
a worker past its lookups) and `reply <- gathered` (the two slices, as sets,
once `done` is 2). A reply says nothing of the order across types, which the
scheduler decides; the order within a type is in `NothingInvented`.

**Zone** has the vocabulary of resolution. A name is what `strings.Split` makes of its
text, since that is what the resolver's loops count: `www.net.` has an empty last
label, the root is two of them, the empty text (a question that was cut off has it) is
one, and a dot quoted within a label splits it. Beside it: the key of a name and a
type (`nameToKey`: lower case, empty labels left out; the reversal is a bijection and
left out), the levels of a query (the name, then the wildcard in the place of the
first, the first two, ... labels, never right below the root), the steps of
`Authority`, whose last is the empty text and not the root, and `Bad`, a content
whose lookup fails.

**Lookup** is one query in `Lookup`, `Authority` and `LookupAnswersForType`. Its
actions are the etcd requests (`LookupType`, `LookupCNAME`, `LookupSOA`) and the
decisions between them (`NextQuestion`, `SeekAuthority`, `ReplyError`,
`ReplyAnswers`). `Write` is another client of etcd between any two of them, and
any read may fail. A question's goroutines are not repeated here: since
AnswerQuestion implements Answering, a question is its lookups in any order and
then everything they found. The content of a key is the set of its values; the
order and number of equal values and the TTLs are Storage's. `held`, `failed`
and `seen` are history variables: the contents of every key since the query
arrived, the reads that failed, and what each read showed. They do not
influence the other variables, except that `failed` bounds the failures.

**Resolution** says what a reply means under concurrent writes. The reply is
`Resolve(query, view)`, a function without steps, for a view in which every read
shows a content its key held since the query arrived, or a failure. A query is
not linearizable: two reads of one query may be of different moments (an `A`
record added and then the `CNAME` deleted may be seen with neither), and
Resolution allows this and nothing more.

**Storage** is `GetFromStorage`. A directory is read by one recursive, sorted
request, whose response is the sequence of its nodes, each directory before what lies
below it (`below` counts it); `TreeOK` is what etcd promises of it. `findKeys` is
recursive: its calls are a stack of frames, each with the child that is next and
`lastValNode`, and a child is one step (`WalkTtl`, `WalkValue`), after which a
directory opens a frame of its own and a value becomes a record. A single value needs
a second request for its `.ttl` node, and the key or its `.ttl` node may be written,
each more than once, or the request fail, before it. The history variables of
this case do not hold what is read but what was written: `own` has what the `.ttl`
node held while the key held the value that was read, and `overtaken` says whether
the key and then its `.ttl` node were written between the requests. Storage justifies
that Lookup reads the values of a key in one step (`EveryValueOnce`).

**QueryFilter** is `parseFilters` for the two options, and then `Matches` and
`ShouldAcceptQuery` for one query after the other. The loops are steps with an
index, so that their early ends are in the model. Names and domains are sequences
of characters, because `strings.HasSuffix` compares text; the splitting of an
option at its colon and of its types at the commas is taken as done (an option
without types has the empty text as its only type, as `strings.Split` gives
it, and types the DNS library cannot name have the empty text as their name). The
names of queries end in a dot, as `UnpackDomainName` makes them, or are empty: a
message that ends where its question should be unpacks to a question without a name
(`msg.go:1243-1247`). The reference `Within` is by labels and in any case.

**Server** is the process as clients see it. A session is a TCP connection or a
UDP datagram; its `stage` says who has it: the kernel's backlog (`queued`), the
accept loop (`first`), or the goroutine that serves it (`unpack` to `read`).
`AcceptTCP` takes a connection only when the loop is done with the one before,
because `serveTCP` reads the first message itself (`ReadFirst`,
`ReadFirstFails` at the deadline, which leaves the connection open and unserved:
`abandoned`). `Unpack` is `serve` and `ServeMux`: what does not parse and what
has no question is answered by the library, a response is dropped. `UnpackPanics` is
the third outcome of `req.Unpack`: a message cut within an OPT or NSEC record
(`overrun`) makes it index past the end, and nothing in `serve` recovers. `Count`,
`Reject`, `Accept`, `Resolve`, `Write` are `Handle`, one step for each change
of a counter. `Write` waits for a client that reads; `ReadNext` closes the
connection at the limit of queries. `ended` is what ended the process: the
interrupt, a listener that did not start, a panic of the resolver or of `Unpack`, or an
index out of range in `Handle`, which the dispatch keeps from happening.

**Service** is what is promised: messages arrive, and each is answered at most
once, in order, with what its kind deserves, and never after the process ended.
Server implements it with `over <- ended # "no"`; a reply can be lost or left
out, since connections are given up.

**EtcdClient** is the synchronisation at the start (`Sync...`) and then requests
that share `machines` and `leader`. `Aim` reads the leader, `Exchange` is one
HTTP exchange with its outcome: an answer, a body that is cut, no response, a
bad status, a redirect. An address that is none (`BadAddress`) ends the request
before any exchange: `http.NewRequest` refuses it and its error is returned at once
(`requests.go:239-241`). A redirect takes an exchange as the others do, but is not asked
whether the request may go on (`requests.go:299-311`), so that there may be any number of
them. The counters therefore stop at `Limit`, twice the machines, from where on they
change no decision: a failure there ends the request. A lost response switches the leader in a step of its
own (`SwitchLeader`), after which the request aims at whatever any request chose
last. While a request assigns the leader, another one may read an address that
is half of the old one and half of the new (`TORN`): the assignment of a Go
string is not atomic. `tried`, `failures` and `redirected` are history variables.

**Names** has names as the code has them: texts of octets. `PackFrom` is the loop of
`PackDomainName` over a copy of the text, which it shifts when it undoes an
escape; `UnpackFrom` follows pointers and writes escapes. **Labels** holds one
text, or a pair, and asks whether the helpers that scan texts (`CountLabel`,
`SplitDomainName`, `IsSubDomain`, `Fqdn`) see what the packer puts on the wire.

**Types** is a table: the fields of each record type in the order of their tags,
what its `len()` counts too much or too little, how it prints. **Wire** packs and
unpacks a field by its kind, a record by its row, a message by its header and
sections, with the compression map and a buffer that may hold an earlier message. It
does what the code does where that is odd: the bitmaps of NSEC and WKS change the
octets that are there, the ports of a WKS go to the start of the message, the length of
a record is written where its owner should have ended, a message may end within its
header. **Records** has the converters of the resolver. **Message** is a program that
composes, sends and receives: questions and records are added, values of etcd are
converted, the message is packed into the buffer used before, arrives whole or cut
before any octet, and is unpacked. Its constant `Suites` names ways to use the library
(which records, in how many sections, compressed, in a used buffer, cut), one of
which is chosen at the start.

**Lexer** is the goroutine `zlexer`, **Grammar** the table of what each of the
sixty data parsers takes from the channel, **ZoneParser** the goroutine
`parseZone` and its reader. A text is a sequence of symbols (blanks, braces,
quotes, line ends, words); what a word spells is a constant. The states of the
parser have the code's names; in `data` it takes the steps of its row. Both
channels are sequences with the capacity as a constant. **ZoneFile** is the
reference: what an entry looks like when `String()` or a person writes it, in
ten layouts, and what a zone of such entries means. Of the length of a token, which the
lexer keeps beside its text, only what differs from the text is modelled: a word
that is no type or class is replaced by the text of an error and keeps its length
(`Outruns`), so that a parser of a name may look behind the end of that text.

MC modules give the constants small values and change nothing else.

## Runs

| run | asks | bounds | distinct states |
|---|---|---|---|
| `answer` | delivery, channels, leaks, return, panics, refinement of Answering | 3 types, 2 records per lookup, every query type, lookups that panic | 99,585 |
| `lookup` | SERVFAIL, authority, refinement of Resolution, an answer to every query | 11 queries, for the root, with a dot in a label, and without a name among them; 7 keys with 2 or 3 contents; 1 write, 1 failure | 1,158,190 |
| `lookup_deep` | stable records | a name of 3 labels, 6 keys, 3 writes, 1 failure | 868,556 |
| `storage` | values and TTLs | all directories over 6 names, up to two more levels, TTLs missing, numeric, invalid or directories; single values; 2 writes, 1 failure | 255,375 |
| `storage_siblings` | a sentence of the README (violated) | same | |
| `filters` | the decision, by the options and by labels | 16 options, up to two for `--accept` and one for `--reject`; 6 names, 3 types, and the query without a name | 396,811 |
| `server` | counters, reasons to end, no client waits for another, refinement of Service | 2 connections with up to 3 messages, one whose client does not read and one that may be silent; a datagram of each kind; a limit of 1 query more than the first | 551,114 |
| `etcd` | retries, the leader, which requests end | 2 requests; 3 machines, of which 2 configured, one may answer with errors and one hang; lists of one or two, and one of no machine; any number of redirects | 217,715 |
| `names` | packing and unpacking, three ways to count labels, subdomains | all texts of up to 7 characters over dots, backslashes, letters and digits; all pairs of up to 3; labels of 3 octets | 1,120,001 |
| `messages` | lengths, arrival, cuts, the buffer, from etcd to the client | a record of every type of the table in every section, cut before every octet; two records that take more octets than predicted, or between which a message is cut; messages one after the other in one buffer; names that share endings, in chains of up to 11 pointers, with escapes; empty names | 163,306 |
| `zones` | reading, errors | every type with a parser in ten layouts and a record after it; directives and lines that leave things out; 44 texts that are no zones; channels of 2 places | 134,273 |
| `zone_ends` | the end of the goroutines | the 44 texts, and a record of every type over two lines with another after it, each for both readers; channels of 2 places | 29,790 |

Why the bounds are enough. Answers: the proofs below make the number of types
and records irrelevant; three types let two workers differ while a third is
CNAME. Lookup: 1 write splits the reads of a query into before and after, 3
writes let a key change and change back while another one does; one failure
reaches every read, since each read may be the one that fails. `MaxWrites` and
`MaxFailures` bound the environment only: the resolver's actions do not mention
them except through the failure. Contents have an empty value, one record, two
(the illegal pair of CNAMEs) and one that does not convert, beside a good one.
`www.net` is asked for as `WWW.net` to see the folding of case. The names at the
ends of the loops are the root, the empty name, and two with a label that ends in a dot.
Storage: the six
names are in etcd's order and make every neighbourhood of the walk: a value
before a value, a value before its own `.ttl`, before someone else's, a `.ttl`
with no value, an invalid `.ttl`, a `.ttl` that is a directory, and a subdirectory with
its own `.ttl`, empty or with a directory in it. Two writes let a single value change
and then its `.ttl` node, or the other way round, between the requests.
Filters: two accept options show a list with a first, a last and a malformed
element; the domains are the empty one, with and without the final dot, of one
and two labels, and in upper case; the names lie in, above and beside them, and one is
no name.
Server: one connection may hold the accept loop or its own goroutine while the
other wants something; the limit of queries (128 in the code) is reached and
passed by scripts of three; each kind of message comes first and later. Etcd: two
requests are enough for one to move the other's leader, the lists are as long as the
configured one, shorter, or no list of machines at all. Two machines are the tight case for
`LoneFailureTriesAll`: of the three exchanges the limit allows, the first is with the
leader, wherever it stands in the list. For filters, server and etcd the
proofs make the bounds irrelevant where they cover the property. Names: 7
characters hold two labels with an escape of three digits and one of a letter;
the limit of labels (63) is lowered to 3 so that it is reached. Messages: every
type of the table, HINFO, WKS, TKEY, L32, NSAP-PTR and CDNSKEY too, each field with
values of several octets and, where it is a text, escapes. What makes two records
interact has a suite of its own: those of which the length is predicted too short, alone
and with one whose length is predicted too long, so that the surplus of one makes up for the
other; every field that reads what the buffer holds, in a buffer that holds more or less;
a cut between records whose unpacking looks ahead; names of up to twelve labels, so that a
chain has one pointer more than unpacking follows (10, as in the code); names whose
escapes make their texts the same; names without a text. Zones: the capacity of the
channel (1000 tokens) is lowered to 2 so that a goroutine blocks at every place
where it can; one record after another is enough to see a token too few or too
many. That the goroutines end is asked of fewer zones than how they are read, since
liveness takes far longer to check: of all the rough texts, and of each type in the one
layout that has braces, a comment and two lines.

Deadlock is checked in every run; the end of a question, a query, a read, a
request or a zone is the stuttering action `Terminated`, so anything else that
stops is reported. Filters, names and messages never end: after a decision the
next query arrives, after a text or a message the next one is composed.

### Properties

* `NothingLost`, `NothingInvented`: together, exactly once delivery, at the
  moment the loop ends and at every moment before.
* `NoSendOnClosed`: Go panics on such a send; in an ANY question `recover()`
  would hide it, and records would be missing without an error.
* `QuestionReturns`, `NoGoroutineLeaks`: see the hazards of `resolver.go:254-281`. A
  panic is no way out of them but for a question of a single type (`Crashed`), so
  that they also say that a panic of one worker of ANY neither ends the process nor
  keeps anybody waiting, which depends on the deferred calls being there and counted once.
* `ServfailIffWrong`: a reply is SERVFAIL exactly if one of the reads that count
  went wrong, for the whole path of the query; SOA reads do not count.
* `StableRecordsPrevail`: if the record of a level is not touched during the query,
  the reply comes from there or from a more specific level, whatever else is
  written. `ClosestAuthority` is its counterpart for denials.
* `ImplementsResolution`, `ImplementsAnswering`, `ImplementsService`: the refinements.
* `EveryValueOnce`, `OwnTtlWhenPaired`: the walk against a reference that pairs values
  and TTLs by name (`ValuesOf`, `HasOwnTtl`).
* `SingleTtlIsItsOwn`: a single value has a TTL its `.ttl` node held while the key held
  that value, although it is read by another request. It is the default if that request
  fails, and it may be another value's only if the key and then its `.ttl` node were
  written between the requests; a TTL set before or together with the value is right.
* `DecisionIsRule`: the lists made by the parser, walked by two loops that share
  `accepted`, decide as the options say; a reject option outweighs every accept
  option. `AgreesWithLabels`: for names in lower case that no domain cuts inside
  a label, text and labels agree, so that for names the boundary and the case are the
  only two ways in which they differ. A query without a name counts as within
  every domain, and its type decides.
* `CountersAddUp`: the four metrics of a protocol against the messages read and the
  stages of the handlers, at every moment and not only when all is quiet.
* `EndsForAReason`: of messages, only one on which `Unpack` runs past the end and a
  query over which the resolver panics end the process; none does because
  `Handle` takes the first question without looking whether there is one, whatever came
  before it on the connection.
* `EveryMessageIsHandled`: for clients that read their replies, whatever the
  others do; the deadline of the first read is what it needs.
* `RetriesAreBounded`, `LoneFailureTriesAll`: the limit of the retries counts
  exchanges of every kind and is shared by none, and redirects, which are not limited,
  do not add to the others; alone and with machines that do not respond, it is enough
  to try them all. `LeaderIsListed`. `EveryRequestEnds`: a request ends, is redirected
  again and again, or waits for a machine that hangs; what other requests do, or that they
  hang, never keeps it.
* `RoundTrip`, `CountsAgree`, `SubDomainByLabels`: the scans of text against packing.
* `EverythingPacks`: a message is packed exactly if it takes at most one octet more
  than predicted, and always if no record is of those whose length is predicted too short
  (`Short`). Options and the ports of a WKS are dropped rather than refused.
* `ArrivesAsSent`: a message that arrives whole is the one that was sent, if and only
  if it has none of the listed flaws (`Spoilt`).
* `CutIsSeen`: of a message that arrives cut, what was before the cut arrives as it
  was, one question or record partly, and the rest empty, unless it is refused. A
  panic is an outcome of its own and not a refusal: it comes of a cut within a record with
  options or with a bitmap, and of no other.
* `BufferDoesNotMatter`: what is packed depends on what the buffer held in the octets of
  a bitmap only. `ServedAsStored`: from the text in etcd to the client.
* `ReadsAsWritten`: what is read is what is meant, except in exactly the listed
  cases (`Misread` of ZoneFile), and the program crashes in none but them.
  `ErrorEndsTheZone`, `GoroutinesEnd`: with the exceptions they name.

### Fairness

Each goroutine is weakly fair, which the Go scheduler provides: a goroutine that
can run is run, and a channel operation both sides are ready for is taken. The
gathering loop needs no more: its `select` may prefer any ready case, because
the number of sends is finite. In Lookup there is one sequential
reader, weakly fair; `Write` is not fair, since nobody has to write. Storage has
at most two requests and states no liveness: that it cannot stop before the end
is the deadlock check. The accept loop, the reader of datagrams and each session
of Server are weakly fair; clients, the start of the listeners and what fails are
not, so that they may stop for ever, but a read does end, with a message or at its
deadline (`ReadNextFails` belongs to the goroutine). The lexer, the parser and the
reader of a zone are weakly fair, each as a whole.

The other modules assume that etcd answers or refuses every request. EtcdClient shows
what of this the client ensures. A request is fair except for the reaction of a machine
in `Hanging`, of which the run has one: the client sets a time limit for dialling only.
And it follows any number of redirects. `EveryRequestEnds` therefore names both: a
request that waits for such a machine, and one that is redirected again and again,
need not end, and fairness cannot make them. That a read of Lookup, Storage or
AnswerQuestion ends is an assumption about the environment, that no machine hangs
and that redirects come to an end.

### Disagreements found

The first is the run `storage_siblings`. The others were met while the modules
were written and are part of them: the model does what the code does, and the
properties are stated so that they hold beside it.

Resolver and filters:

* A `.ttl` node is given to the value before it in etcd's order, not to the value
  it is named after: with `bar`, `bar-1` and `bar.ttl`, `bar-1` gets the TTL
  (`resolver.go:61`, `README.md:205`). `OwnTtlWhenPaired` shows that this is the
  only way it goes wrong.
* `gatherFromChannels` is said to wait until both channels are closed; it may
  return when one is, having seen it twice. Harmless: when the first close
  happens, all sends on both channels are done (proved, `DeliveryIsComplete`).
* If the request for the TTL of a single value fails, the default TTL is
  returned, without an error (`README.md:203`); if the key and then its `.ttl` node are
  written between the two requests, the old value has the new TTL.
* The last subdomain `Authority` tries is the empty text and not the root
  (`resolver.go:112-114`, 333): the SOA it finds has no owner, and an empty name is packed
  to no octet (`msg.go:251-254`), behind which the length of the data goes where the
  class is (`rawmsg.go:54-95`). A denial by the root reaches the client with a record of
  type 1536 in the place of the SOA. Lookup has the empty name for it, `Unnamed` of
  MCMessage is such a record.
* A filter for `discodns.net` also matches `ediscodns.net`, and does not match
  `discodns.NET`, which the resolver would look up in lower case. The theorem
  `LabelsDecide` shows that for a query with a name there is no third way in which it is
  not "within the domain". A query without a name, which a message cut before its
  question makes, matches a filter for any domain (`filter.go:23`).
* An accept option that does not parse is dropped; if it was the only one, every
  query is accepted.
* The converter of AAAA takes IPv4 addresses; a backslash in a value of TXT is
  read as an escape by the library.
* The interval of the metrics is passed as nanoseconds (`main.go:77-78`).

Listeners (`miekg/dns/server.go`):

* `Write` sets no deadline and `WriteTimeout` is read nowhere (590), though it is
  documented (217) and discodns sets it: a client that does not read holds its
  goroutine for ever. Hence `Stalled` in `EveryMessageIsHandled`.
* "close socket after this many queries" (495): the counter is compared before
  it is increased, so one more is served. Hence `MaxQueries + 1` in Service.
* "Each request is handled in a separate goroutine" (375): one goroutine serves a
  connection.
* A connection whose first message is late is neither served nor closed.
* A panic of `Unpack` (below, a message that is cut) is in a goroutine that nothing
  recovers (441-459), and ends the process. `EndsForAReason` has it as the fourth reason.

etcd client (`go-etcd`):

* "Tried to connect to each peer twice and failed" (`requests.go:338`): a bad
  status is tried again at the same machine, and two requests move each other's
  leader. `LoneFailureTriesAll` says when it is true once.
* The list of machines is taken from a response of any status (`client.go:300`):
  an error page becomes the list. main warns only if no machine responds.
* An address of the list that is none ends a request at once, with the error of
  `http.NewRequest` (`requests.go:239-241`); the other machines are not tried. (One
  among the configured ones that `url.Parse` refuses panics at the start, which is not
  modelled.)
* "If we have retried 2 * machine number, stop retrying" (`requests.go:331`): after
  a redirect nobody asks (`requests.go:299-311`), so that a request that is always
  redirected does not end.
* "default timeout is one second" (`client.go:65`) is that of dialling.
* The leader is assigned and read without a lock (`cluster.go:30`).

Names and messages (`miekg/dns`):

* `Fqdn` takes a name that ends in an escaped dot for qualified, and the dot it
  adds behind a backslash is escaped (`defaults.go:193`). Two dots at the
  start are packed as the end of a name (`msg.go:321`).
* The predicted length (`types.go:253`) is too short for HINFO, NSAP-PTR, TKEY, L32, OPT
  with options, NSEC and NSEC3 with a full window or without window 0, and WKS, and too
  long for escapes: a message of the former is not packed at all, unless another
  record makes up for it or it is short by one octet only. With compression it is short by one for each
  name of an SOA (`msg.go:1838`). An option of EDNS0 is cut without an error when the
  buffer is too small for it (`msg.go:650`).
* A mask of EDNS0 client subnet is rounded down to whole octets when it is unpacked
  (`edns.go:291`); a type bitmap that starts behind window 0 leaves three octets out
  (`msg.go:746`) and is refused by the receiver; the ports of a WKS are written from the
  start of the message, over its header (`msg.go:714`); bits are set in whatever a
  used buffer holds (`msg.go:765`), so that the receiver sees types nobody sent.
* A record that is cut where a field starts arrives with the rest zero
  (`msg.go:1283`), a question that is cut off has no name, no type and no class, and
  within an OPT or a type bitmap the unpacking indexes past the message
  (`msg.go:991-992`, 1139-1140).
* The compression map is keyed by text without escapes, so that an escaped dot looks
  like a boundary (`msg.go:338`): of `b\..` and `\.\..b.` one is given a pointer into
  the other, and another name arrives. Packing makes chains of more pointers
  than unpacking follows (`msg.go:456`), and the message is refused.
* CDNSKEY is missing in the table by which records are unpacked: it arrives as a
  record of an unknown type.

Zones (`miekg/dns` `zscan.go`, `zscan_rr.go`):

* A token longer than the array panics before "token length insufficient" is
  reported (`zscan.go:490-508`).
* The lexer sends one variable again and again: the last type of an NSEC bitmap is
  that of an earlier token if a comment or the end of the text follows.
* Within braces, a newline without a blank joins two words, and after a comment a
  type of a list counts as the type of a record.
* RP, URI and WKS are not read back from their `String()`, nor the "-" of an empty
  salt; LOC loses its comment.
* `<-c // _BLANK` takes whatever comes, so that data may come from the next line,
  although "After the rdata there may come a _BLANK and then a
  _NEWLINE" and all else is garbage (`zscan_rr.go:22-25`).
* HIP with `@` never ends (`zscan_rr.go:998`); PX with `@` ends early; IPSECKEY with
  `@` has the origin twice; a type of fewer than four characters in NSEC, and a
  missing last field of RP, MINFO, LOC or IPSECKEY, crash the program; SOA reads
  zeros for what is missing at the end of the text.
* What follows the value of `$ORIGIN` is reported, and the zone read on;
  `$INCLUDE` always fails, since the name of the file is taken from a variable
  that a shadowed one hides (`zscan.go:290-325`).
* In a line whose type is given as TYPEnn the words of the data are still looked up as
  types and classes. One that begins like a TYPE or a CLASS and is none becomes the text
  of an error, which the parser of a name takes for the name, at the length of the
  word (`zscan.go:570-574`, `zscan_rr.go:156`): a short one makes the name `unknown RR
  type`, a long one a panic.
* The lexer is left over when the parser stops at an error and more tokens follow
  than the channel takes; the parser is, when one record is asked for and there are
  three (`GoroutinesEnd` has both).

## Proofs

Everything is proved from the named assumptions on the constants, which the
runs evaluate, and from nothing else. None of the properties is inductive; each
module has an `IInv` that is, with one part for each mechanism.

**AnswerQuestionProofs**, for any finite set of types, any `MaxRecords` and with
or without panics (`TypesAssumption`, `MaxRecords` a natural number):

| theorem | property |
|---|---|
| `TypeCorrect` | `TypeOK` |
| `DeliveryIsComplete` | `NothingLost` |
| `DeliveryIsExact` | `NothingInvented` |
| `SendsAreSafe` | `NoSendOnClosed` |
| `Refinement` | `ImplementsAnswering` |

* `StageInv`: a worker is where its question allows; it has sent nothing before
  `answers`, everything after it, and something is left to send while in it;
* `WgInv`: the WaitGroup counter of an ANY question is the number of workers that
  have not exited (the only fact about cardinalities, lemma `UnfinishedCount`);
* `ClosedInv`: the channels close in order, and once one is closed every worker is
  past its sends; `done` counts nothing before. This is the heart: `MayClose`
  implies it through `WgInv` when `wg = 0`, and the gathering loop's habit of
  counting one channel twice is then harmless;
* `OutInv`: the outcome of a worker is one its lookups can have;
* `RrsInv`, `ErrsInv`: the received sequences are exactly the sent prefixes, each
  element once.

`NextIInv` has one lemma per group of actions. The refinement follows from the
invariant: a lookup that decides is `Decide`, the second receive from a closed
channel is `Reply`, where `CompleteOnceClosed` and `ExactAlways` give the equality
of what was gathered with what was found, and all other steps stutter.

**QueryFilterProofs**, for any lists of options and any queries whose names end in a
dot or are empty, as `UnpackDomainName` and a question that is cut off make them
(`QueriesAssumption`):

| theorem | property |
|---|---|
| `FilterTypes` | `TypeOK` |
| `OptionsDecide` | `DecisionIsRule` |
| `LabelsDecide` | `AgreesWithLabels` |

The filters made are those of the options passed (`ParseInv`, lemma
`ParseStep`), and no filter the loops have passed matches (`LoopInv`); at the end
of a list this is the rule. `LabelsDecide` needs no induction: `SuffixByIndex`
turns the suffix of SequencesExt into a statement about elements, and
`PlainMatches` has the equivalence of text and labels for a plain query, the one without
a name being a case of its own.

**ServerProofs**, for any finite set of sessions, any scripts and any limit of
queries:

| theorem | property |
|---|---|
| `TypeCorrect` | `TypeOK` |
| `OnlyForAReason` | `EndsForAReason` |
| `Implements` | `ImplementsService` |
| `CountersRight` | `CountersAddUp` |

* `BacklogInv`: a connection waits in the backlog once;
* `StageOK`: what the stage of a session says about the message in its hands; a
  message without a question is never where `Handle` would take its first one,
  one on which `Unpack` runs past the end gets no further than there, and the
  pending reply is the one the message deserves;
* `ReplyOK`: the message in the hands of a handler is later than the last one
  answered. With `StageOK` every `Write` is an `Answer` of Service.

`CountersAddUp` is inductive together with `IInv`. A step concerns one session
(`OnlyItsOwn`), so each set that is counted gains or loses that session or stays
as it is (`SessionCounts`, `ReadCounts`); `CountingStep` turns this into arithmetic, and
each action of a handler is one case of it.

**EtcdClientProofs**, for any machines, lists and numbers of requests, and any redirects:

| theorem | property |
|---|---|
| `TypeCorrect` | `TypeOK` |
| `RetriesBounded` | `RetriesAreBounded` |
| `LeaderListed` | `LeaderIsListed` |
| `TriesAll` | `LoneFailureTriesAll` |

* `SyncInv`: no request before the list is known, so that the list no longer changes;
* `RetryInv`: a request that has not ended has failures left, which are never more than
  its exchanges, and `attempt` lags behind `numReqs`, by two while the leader is about
  to be switched;
* `TriedInv`: a request that nothing disturbs aims at the machines in turn
  (`InTurn`); after twice their number, less two, of attempts the turn has been
  around (`EnoughTurns`).

**LookupProofs**, for any queries, any keys and contents, and any number of
writes and failures:

| theorem | property |
|---|---|
| `TypeCorrect` | `TypeOK` |
| `ErrorsShow` | `ServfailIffWrong` |
| `RecordsPrevail` | `StableRecordsPrevail` |
| `AuthorityIsClosest` | `ClosestAuthority` |

* `PendingInv`: a question for a single type makes one lookup, or two if the first
  found nothing, so that no error precedes the lookup that assigns `errs` anew;
* `ErrorInv`: an error is remembered, in `errs` or `errored`, exactly if a read of
  the query's questions went wrong;
* `LevelInv`: a level that was passed had nothing that is untouched now, unless a
  read failed, and what is untouched of this level is among the answers as soon as it
  was looked up;
* `AuthorityInv`: the untouched names that were passed over do not have one SOA.

`TypeCorrect` is inductive beside this: no loop over the labels runs off the name, be it the
root, no name at all or one with empty labels. The interference is in one lemma: a key that is untouched now has been untouched
before and had the same content (`StableBefore`), so that a write can only make
these statements weaker.

**ResolutionProofs**, with the same generality, has one theorem, `Refinement`, for
`ImplementsResolution`. Lookup has no view of its own: it is the reads that decide
which view a reply resolves, and they are not all made until then. The invariant
`RInv` therefore speaks of every view that agrees with the reads so far
(`ViewInv`): it has no answers at the levels passed, fails at one of them exactly if
`errored` is set, and has at this level the answers gathered and the errors seen,
before (`DirectOf`) and after (`AliasOf`) the CNAME is asked for; while the authority
is sought, nothing answers and no subdomain passed decides (`DeniedBy`). A read only
makes these views fewer. `OnceInv` says that no read is made again, so that the
reads stay those of one view (`Consistent`), and `ViewExists` constructs it when the
reply is due. Then each kind of reply is `Resolve` of that view (`ErrorIsResolved`,
`AnswersAreResolved`, `DenialIsResolved` with `ClosestIs`), a write is `Change`, and a
lookup is `Fail` or a stutter.

**StorageProofs**, for any trees as etcd returns them (`TreesAssumption`: every tree
is `TreeOK`, of any depth and width), any TTLs and any number of writes and failures:

| theorem | property |
|---|---|
| `TypeCorrect` | `TypeOK` |
| `EveryValueOnceHolds` | `EveryValueOnce` |
| `OwnTtlWhenPairedHolds` | `OwnTtlWhenPaired` |
| `SingleTtlIsItsOwnHolds` | `SingleTtlIsItsOwn` |

A walk over a tree invites an induction over the tree, which this proof system cannot
make; the induction is over the steps of the walk instead. A position in the
response divides it: everything before it was dealt with, nothing behind.

* `StackOK`: each frame is that of the child its caller has just passed, and no value
  lies between the end of that child and where the caller resumes;
* `FrameOK`, `LastOK`: a frame has seen all children before `next`, and those after
  its last value node are `.ttl` nodes that are no numbers, so that the next `.ttl`
  node comes right behind it in a paired tree;
* `OutOK`: the records so far are the values before the position (`Resume`), each once,
  in order and, in a paired tree, with its own TTL;
* `SingleInv`: between the two requests of a single value, what the `.ttl` node holds is
  among `own`, unless the key was written before it.

The lemmas on trees are about the numbers of the nodes: two children do not overlap
(`ChildrenApart`), a node has one parent (`OneParent`), the children of a `.ttl` node
are hidden and everything else is not (`NothingBelowTtl`, `ChildIsVisible`). Each step
of the walk is then one of four moves of the position (`FramePasses`, `FrameCalls`, a
return and a start).

**ZoneParserProofs**, for any texts, any lexicon and channels of any size that is not
zero (`ZonesAssumption`, `CapacityAssumption`):

| theorem | property |
|---|---|
| `ErrorEndsTheZoneHolds` | `ErrorEndsTheZone` |
| `ZoneIsFinite` | `MeasureOK`, and every step is `Progress` |
| `NoDeadlock` | `SomebodyCan` |

The last two are what `GoroutinesEnd` rests on, see below. The invariant, `ZoneInv`:

* `ErrorsOK`: none but the last result is an error, and none at all while the parser has
  not ended, except the complaint about what follows an origin. The results made so far
  are those read, those in the channel and those about to be sent, and no step changes
  their order (`SentOrRead`). Each of the parser's states makes at most one result, or
  that complaint and an error (`ParserStep`, with one lemma for the states of a line, of
  a directive and of the data).
* `LexOK`, `BoundsOK`: the lexer has a lexer's variables, no channel holds more than it
  can, a symbol becomes at most two tokens (`SymbolSteps`) and a step of the parser at
  most two results (`FewAreDue`), and who asked for one result reads one.
* `WantOK`: the steps of the data that are left are the end of a row of Grammar, or two
  words: the texts after the first one, or the rest of a line and the directive it is of.
  A step that reads to the end of the line is the last of a row and no other is
  (`IsRow`), so that no parser runs out of steps within a line (`RowSuffix`, `LeftIsRow`).
  That every row of the table is one is `GrammarAssumption`: a fact about a fixed
  table, of concatenations the provers cannot compute, which TLC evaluates in full.

### Progress

The proof system handles neither fairness nor ENABLED, so that the liveness
properties stay with TLC. What they rest on is proved, for every value of the
constants: that a component has only so many steps to take, and that its goroutines do
not wait for each other in a circle. `Progress` is an action property of each module
(every step lowers a number of steps left, or takes a position forward); it is written
next to its theorem, since it is not a property of the code that a test would name.

| theorem | what it says |
|---|---|
| AnswerQuestionProofs `NoDeadlock` | of workers, closer and gathering loop one can go on, until all are done |
| AnswerQuestionProofs `QuestionIsFinite` | every step takes one of those a worker, the closer or the loop has left |
| ResolutionProofs `QueryIsFinite` | every etcd request is one of those of the query and made for the first time; steps without one go on to the next wildcard or the reply |
| StorageProofs `WalkEnds` | every step of the walk goes forward in the response and stays within it |
| EtcdClientProofs `OnlyRedirectsGoOn` | every step of a request takes one of those it has left and gives no other request one more, except a redirect of a request that has had its limit of exchanges: these can go on for ever |
| ServerProofs `ServedInTurn` | one connection is in the hands of the accept loop, and no step overtakes or forgets one that waits |
| ZoneParserProofs `NoDeadlock` | of lexer, parser and reader one can go on, until lexer and parser are done or one of them is left over as `GoroutinesEnd` says |
| ZoneParserProofs `ZoneIsFinite` | every step takes a token or a symbol, or goes on in a line without one, or moves a result; but for a HIP that spins, and a crash, which nothing follows |
| ServerProofs `SessionsAreFinite` | every step takes one session forward and none back, unless it is one of the process as a whole |
| ServerProofs `NoneIsHeldUp` | while the process runs, every session that has come and not gone can go on, by itself, by the reader of datagrams or by the accept loop, but for one whose own client does not read |

* `NoDeadlock` needs `DeferInv`: a single worker exits through its deferred closes,
  so that the loop sees them. The guards are stated as `CanSend`, `CanClose` and so on: a
  worker that sends can do so only while the loop receives, which is where a circle could
  have been.
* `QueryIsFinite` follows from `OnceInv`. What it bounds is the load of one query on
  etcd: at most one request for each type asked and one for the CNAME at every level,
  and one for the SOA of the name and of each one above it.
* `OnlyRedirectsGoOn`: the requests of a process share the leader and move it for each
  other; the steps left of a request depend on its own `numReqs` only, in which a redirect
  counts as long as the limit is not reached. No bound on redirects is assumed, since
  the client has none.
* `ServedInTurn` needs `LoopInv`, the other half of `BacklogInv`: who is queued is in
  the backlog. A silent client therefore holds up those behind it for one deadline
  (`ReadFirstFails` has no other guard than that nothing arrived), not for ever.
* `SessionsAreFinite`: `StepsLeft` counts the messages not yet read, those not yet
  arrived and the stages of the one in hand; `Advances` also says that all other
  sessions keep theirs.
* `NoneIsHeldUp` needs `LoopInv` (who is queued is in the backlog, so the accept loop
  has something to accept) and `DatagramInv` (a datagram that waits has arrived). The
  predicates `SessionCan`, `DatagramCan` and `LoopCan` are the guards of `Goroutine`,
  `ReadUDP` and `AcceptLoop`, written out because `ENABLED` cannot be used in a proof.
* `ZoneIsFinite` has three numbers, of which every step lowers the first one it changes:
  `TokensLeft` (a symbol counts for more than the two tokens it may become, a token to
  send for more than one sent), `PartLeft` (once there are no tokens the parser gets zero
  tokens, and each takes it to a later step of the row or to its end) and
  `ResultsLeft`. There is one lemma for each group of states (`LineGoesOn`,
  `FieldGoesOn`, `LoopGoesOn`, `TextsGoOn`, `SlurpGoesOn`); only `setHIP` can repeat
  itself, and only it lists names (`Named` in `WantOK`).
* `NoDeadlock` of a zone follows from `BoundsOK`: a channel that is full has something
  in it, and the one behind it can take that unless it has stopped.

What is left to TLC is the step from there to fairness: that the goroutine that can
go on is scheduled.

Only model-checked, and why:

* the liveness properties `QuestionReturns`, `NoGoroutineLeaks`, `EveryQueryIsAnswered`,
  `EveryMessageIsHandled`, `EveryRequestEnds` and `GoroutinesEnd`, as just said;
* `RoundTrip`, `CountsAgree`, `SubDomainByLabels` of Labels, the five invariants of
  Message, and `ReadsAsWritten` of ZoneFile: they compare two functions that recurse
  over the octets of a name, the fields of a record or the tokens of a line, and are
  true by induction over data.

## Not modelled

* The SOA serial (the current hour), the header bits that are constant, logging.
* Of the metrics: samples, averages, histograms and the reporters. The counters and
  timers are in Server.
* The text of keys: labels with escaped dots, and a record-type label used as a
  host label, are outside Zone.
* A class other than INET: `Zone!FirstLevel` has its effect (the name itself
  is not asked, the wildcards are), but all classes are one.
* `net.ParseIP`, `strconv.ParseUint`, the options parser `go-flags`, `net/http` and
  sockets: external, a constant or a nondeterministic outcome.
* Of the DNS library: DNSSEC signatures, zone transfers, the client, TSIG checks,
  `Shutdown` and hijacked connections, `$GENERATE` (with step 0 its loop does not
  end), the fixed-point arithmetic of LOC, the line and column of an error,
  private types. discodns calls none of them.
* Of the etcd client: writes, watches, TLS, saved configuration and compare-and-swap,
  which discodns does not use.
* The search tool shares no state with the server.

Modules stay apart where composing them would show nothing new: Lookup relies on
Answering instead of the goroutines (the refinement is proved), Server takes the
resolver and the filters as one step each (their runs and proofs say what that
step does), and EtcdClient justifies that a read of Lookup and Storage ends in an
answer or a failure.
