# proto-domain in TLA+

This directory holds TLA+ models of proto-domain: a DNS stub resolver forked
from Go's `net` package (`dns/`), a gRPC service that streams every record of a
name (`internal/resolver/`), an RDAP client and service (`internal/rdap/`), and
the grammar of domain names (`internal/grammar/`).  The modules are checked with
TLC on small instances; the theorems are proved with TLAPS for every value of
the constants.  All definitions are translated from the code; `PROJECT.json`
maps each of them to the lines it stands for.

## 1. The system

### Components, their state and their operations

| Component | Code | State it keeps | Operations |
|---|---|---|---|
| resolv.conf cache | `dns/dnsclient_unix.go` 372-451, `dns/dnsconfig_unix.go` | `initOnce`, the one-slot channel `ch`, `lastChecked`, an atomic pointer to the config | `getSystemDNSConfig`, `init`, `tryUpdate`, `dnsReadConfig` |
| single exchange | `dns/dnsclient_unix.go` 109-235 | one connection, its deadline, the network of the iteration | `exchange`, `dnsPacketRoundTrip`, `dnsStreamRoundTrip`, `checkResponse` |
| reply classification | `dns/dnsclient_unix.go` 237-310 | none | `checkHeader`, `skipToAnswer`, `extractExtendedRCode` |
| query loop | `dns/dnsclient_unix.go` 311-370, `dns/dnsconfig.go` | loop indices, `lastErr`; shared: `soffset` of the config | `tryOneName`, `serverOffset` |
| search list and address lookup | `dns/dnsclient_unix.go` 453-550, `dns/golookup.go` 48-240 | `records`, `lastErr` of a call | `lookup`, `nameList`, `avoidDNS`, `goLookupIPCNAMEOrder`, `goLookupPTR` |
| /etc/hosts cache | `dns/hosts.go` | the two maps, `expire`, `mtime`, `size` under one mutex | `readHosts`, `lookupStaticHost`, `lookupStaticAddr` |
| typed lookups, record decoding | `dns/lookup.go`, `dns/golookup.go` | an offset into the message | one per record type; `parseCharString`, `parseWireName`, `parseSVCBParams` |
| record ordering | `dns/sort.go` | none | sort of MX, weighted shuffle of SRV |
| GetDNSRecords service, upstream pool | `internal/resolver/resolver.go` | the cursor `next`, a counter per upstream, the `done` channel | `resolveStream`, `pickResolver`, `LogUpstreamStats` |
| names and grammar | `internal/grammar/`, `dns/dnsclient.go` | none | `ParseDomain`, `ParseHostname`, `ParseTLD`, `PrintDomain`, `isDomainName` |
| RDAP | `internal/rdap/` | the immutable bootstrap table | `NewBootstrap`, `Resolve`, `LookupDomain`, registrar fetch and merge |
| servers and registration | `cmd/server`, `cmd/rdap-server`, `service/register.go` | the gRPC server, the signal channel | start-up, signals, graceful stop |
| command-line clients | `cmd/*-client` | none | one call and printing |

### How they interact

A DNS RPC runs `resolveStream` in a goroutine of its own.  It picks an upstream
(`pickResolver`: two atomic additions), then makes one lookup after another.
Each lookup consults `/etc/hosts` (address and PTR lookups only), takes the
current config from the resolv.conf cache, expands the name by the search list
and calls `tryOneName` per name and type.  `tryOneName` drives `exchange` per
server and attempt and classifies what comes back; the lookup then decodes the
answers and, for MX and SRV, orders them.  Shared between goroutines are: the
config pointer with its try-lock, the config's rotation counter `soffset`, the
hosts table with its mutex, the pool's cursor and counters (also touched by the
stats goroutine).  An RDAP RPC shares nothing: it looks the server up in a table
that never changes, asks the registry and then, when the reply links to it, the
registrar.  Around both, `main` blocks in `Serve` while another goroutine waits
for a signal, stops the statistics and stops the server gracefully.

### What is hard about it, and what makes each part correct

* **resolv.conf cache**: lookups race on the re-check and on the re-read while
  the file is edited.  Correct: one re-check at a time, no token leaked, nobody
  waits, no nil config, a content is never filed under another revision's
  time, edits are picked up.
* **exchange**: late, duplicated and unrelated messages, truncation, deadlines,
  cancellation.  Correct: only the reply to this query is returned, every
  connection is closed, no traffic extends the wait, the call returns.
* **reply classification and decoding**: aliases before the answer, lame
  referrals, codes carried in OPT, a damaged record among good ones, lengths at
  the very end of a body.  Correct: the search ends only on a reply that settles
  it; a lookup returns all records of a reply or none; no field is read past the
  end or out of its place.
* **query loop**: servers fail one by one, lookups share the rotation counter,
  which wraps.  Correct: a failure is reported only after every server failed as
  often as configured, nothing is asked after a conclusive reply.
* **search list**: several names and types, each failing in its own way.
  Correct: which answer wins, when the search may stop, which error is told, and
  what must never be asked.
* **hosts cache**: the file changes between stat, open and scan, and each may
  fail.  Correct: bounded staleness, recovery, the mutex always released.
* **record ordering**: draws from a range that shrinks to nothing.  Correct: a
  permutation, by priority, with the chances the weights give.
* **names**: two sets of rules for one name, each with its own way to count to
  253.  Correct: what the service accepts, the resolver will ask for.
* **service**: partial failure of eighteen lookups, clients that leave, the
  stats goroutine between the RPCs' steps.  Correct: complete and ordered
  streams, no RPC lost from the statistics, an even use of the pool.
* **RDAP**: two servers that fail or keep silent, untidy documents, roles and
  statuses in several spellings.  Correct: the registrar can only add, its
  failure is not the call's, the call returns if its context ends or no server
  keeps silent.
* **servers**: the signal overtakes start-up, RPCs arrive while the server
  drains.  Correct: no RPC cut off by a clean exit, every signal ends the process.

`PROJECT.json` lists these hazards under `hazards`, each at its line.

## 2. The modules

| Module | Models | Role |
|---|---|---|
| `ResolverConfig` | resolv.conf cache | concurrent component |
| `ConfigFile` | what `dnsReadConfig` makes of the lines | operators |
| `Exchange` | one query to one server | component with a clock and an adversarial network |
| `Reply` | reply classification | operators, used by `QueryLoop` and `Answers` |
| `Answers` | the loop over a reply's answers | operators |
| `RecordData` | record bodies decoded by hand | operators |
| `QueryLoop` | `tryOneName`, `serverOffset` | concurrent component; composes `Reply` |
| `NameQuery` | what asking the servers promises | abstract specification of `QueryLoop` |
| `AddressLookup` | search list, address, typed and PTR lookups | component over the outcomes of `QueryLoop` |
| `SortRecords` | `dns/sort.go` | operators |
| `HostsCache` | /etc/hosts cache | concurrent component with a clock and I/O failures |
| `HostsFile` | what `readHosts` makes of the lines, and how the maps are read | operators |
| `Names` | the grammar's and the resolver's idea of a name | operators |
| `ResolverService` | GetDNSRecords, pool, statistics | concurrent component |
| `ServerMain` | start-up, signal, stop | composes `ResolverService` with the process around it |
| `RdapData` | bootstrap table, `parseDomain`, `parseVCard`, merge | operators |
| `RdapLookup` | one `LookupDomain` RPC | component; composes `RdapData` |
| `EnrichedLookup` | what an RDAP lookup promises | abstract specification of `RdapLookup` |
| `Filter` | the copying loops of `nameList` and the like, and the sum of a loop | operators, `Only` and `Total` |
| `Lemmas` | - | lemmas the proofs share: turns, induction, folds, `Only`, `Total`, order, rows of sequences |
| `ResolverConfigProofs`, `AnswerProofs`, `HostsCacheProofs`, `QueryLoopProofs`, `ServiceProofs`, `AddressLookupProofs`, `RdapLookupProofs` | - | theorems, see section 4 |
| `MC...` | - | constants of the runs; `MCReply`, `MCConfigFile`, `MCHostsFile`, `MCRecords`, `MCNames`, `MCBodies` and `MCFormats` also the inputs the operators are checked on, and what is said of them |

Operators named `X_variant` just before a definition `X` are plausible wrong
versions of it; substituting one for `X` breaks one of the properties.  They are
listed in `PROJECT.json` under `mutants` and show that each property depends on
the code it is about.

### ResolverConfig

`pc[c]` is where a lookup is in `getSystemDNSConfig`: `once` (at `initOnce.Do`),
`reload` (the `noReload` test), `acquire` (the try-lock), `check` (the five
seconds), `stat`, `open`, `scan` (in `dnsReadConfig`), `release` (the deferred
send), `load`.  `conf` is the atomic pointer.  A file, and a config, is a pair
of a modification time and a content; of the content only `no-reload` matters
here, so the parsing of the other directives is abstracted to a model value.
The scan may read the content the file had when it was opened or, when it is
edited in place, the one it has now; a torn mixture of the two is not
represented (its time is older than the file's, so it is replaced by the next
re-check).  A read that fails is: `ScanCut` stores what the lines before it
said, as the code does not look at `scanner.Err`, and the history variable
`partial` records it.  `age` counts the clock up to five seconds.

*Limits.*  A config cut by a failed read stays until the next edit: its time is
the file's.  `partial` records such reads; `StampSound` and `EventuallyFresh`
leave them out, and `CheckedIsCurrent` promises the time only.  If two revisions
carry one modification time the second is never read; the code has nothing to
tell them apart with.  `Write` may reuse a time, `reused` records it,
`StampSound` and `EventuallyFresh` exclude that case and all other properties
include it.

### Exchange

One behaviour is one call of `exchange`.  `network` and `phase` are the
iteration and the step in it; `budget` is when the caller's context expires and
`deadline` the earlier of that and the network's own timeout.  At any time while
reading, any member of `Replies` may arrive, as often as it likes: what
`checkResponse`, `SkipQuestion` and the TC test look at is a field of it, the
rest of the message is left out.  Over UDP what does not match is ignored
(`IgnoreUDP`), over TCP it ends the call (`RejectTCP`).
`RequestFails` is `newRequest` with a name it cannot pack, before anything is
dialled.  `accepted` is a history variable.

### Reply, QueryLoop, NameQuery

A section of a reply is the sequence of its record types, with `bad` and `short`
for records that do not parse.  `Verdict` is what the loop body of `tryOneName`
makes of a reply.  `QueryLoop` has one process per concurrent call on a shared
config; `Ask` is one iteration of the inner loop, with the outcome of `exchange`
chosen from `Outcomes`, and `Advance` the loop control.  The rotation counter
has `Width` bits instead of 32.  `NameQuery` states the promise without servers'
order or attempts; `QueryLoop` implements it under `heard <- [l |-> the set of
(server, verdict) in asked[l]]`.

*Disagreement.*  `net_helpers.go:91-94` says of `StrictErrors` that it "makes the
resolver abort the entire query as soon as a single sub-query returns a
temporary error, instead of trying the next server / search suffix".
`tryOneName` never reads the field: after a temporary failure it asks the next
server all the same, and only the loops over names and types
(`AddressLookup`) stop, once all servers have failed.  `EveryServerTried` and
`NameQuery` state what the code does, for a strict resolver as for any other; they
would not hold if the code did what the comment says.

*Limit.*  `(serverOffset+j)%sLen` (`dnsclient_unix.go:331`) is `uint32`
arithmetic.  With three servers and `rotate` a round in which the counter wraps
asks one server twice and another not at all, once in 2^32 lookups.
`EveryServerTried` is therefore stated, checked and proved for numbers of
servers that divide the counter's range, and for configs without `rotate`.

### Answers, RecordData, SortRecords

`Answers` starts where `skipToAnswer` stopped and names the records by their
positions.  The bodies which `dnsmessage` decodes are external: such a record is
whole or damaged, and `mangled` says which.  The
bodies which `dns/lookup.go` decodes itself are sequences of bytes in
`RecordData`; a type is the sequence of readers its body applies (`Layouts`).  A
name whose length byte is 192 or more is a compression pointer and refused, as
the code has no message to follow it in.  `MCBodies` has the other direction,
what a sender puts on the wire for a value, and writes bodies field by field;
`DecodeFaithful` compares the two.  `SortRecords` takes the random numbers as an
argument, one for each place of the list: a run of one priority uses those at
its places.

*Disagreement.*  `lookup.go:467-469` says `LookupCNAME` "reports an empty string when
no CNAME chain was followed".  `parseAddressAnswers` takes the owner of the first
address for the canonical name whether an alias came before it or not
(`golookup.go:158`), so of a name without an alias the name itself is reported.
`CanonicalName` has it so; `AnswersAreWhole` speaks of the canonical name only
where an alias came before the address, where code and comment agree.

*Limits.*  `parseWireName` keeps a `.` inside a label as it is, so two different
names on the wire can give one text.  `SortFunc` is the insertion by which
`slices.SortFunc` sorts up to twelve elements; of longer lists it says what a
sorted list is, but not which of several.

### AddressLookup

One behaviour is one call of a Lookup method.  `call` holds its parameters and
the config it got; `FromHosts` and `ToDNS` are what happens before the first
question, `Ask` one call of `tryOneName` with its outcome and what the loops do
about it: names in turn, and the types of a name in turn.  A name is its length,
dots and flags; `nameList` is the list of candidates, as the code builds it,
length limits included: the name itself (`Unsuffixed`), and the name under each
suffix that may be asked for (`Suffixed`, the loop over the search list as
`Only`).  `hosts` says whether /etc/hosts has something of use for the name.

*Limit.*  A typed lookup of an `.onion` name has an empty list of names.  The
loop in `lookup` is not entered and its parser is the zero value, so the caller
reports "cannot unmarshal DNS message" instead of "no such host"
(`dnsclient_unix.go:472`).  The model has it so.

### HostsCache

`locked` is `hosts.Mutex`, `table` the two maps with `mtime` and `size` (one
value: the stamp), `left` the time until `expire`, `elapsed` the time since the
holder of the mutex read the clock.  `stat`, `open` and `scan` are steps of
their own because the file may change between them.  Four kinds of failure can
happen: `stat` and `open` (an error other than not-exist and permission),
`denied` (permission) and `read` (the scanner stops early; `scanner.Err` is not
consulted).  `gone` and `partial` are history variables.  `hosts.path` is left
out: the path never changes outside the package's tests.

*Limit.*  Two revisions with one modification time and one size cannot be told
apart by the code, and the second is not read.  `Write` gives every revision a
new stamp, so no property says anything of that case.

### ConfigFile, HostsFile, Names

A line of a file is its fields.  `ConfigFile` follows `dnsReadConfig` option by
option; an `int` wraps at `MaxInt`, so that a timeout too long for a
`time.Duration` comes out as the code's does.  A line longer than the scanner's
64 KiB ends the scan silently.  `HostsFile` builds the two maps; addresses have
a spelling and a value.

In `Names` a label is what the checks look at: its length, its first and last
character, whether its characters are letters, digits and hyphens, whether all
are digits, whether it has capitals, whether it is `com`.  A text is its labels
and whether a dot follows.  The parser that reads the EBNF files is a library;
the grammar's own productions are `IsLabel` and the operators that use it.

*Limits.*  `domain .` puts the root on the search list
(`dnsconfig_unix.go:78`; `search` skips it), and so does a host name such as
`host..` (`dnsconfig_unix.go:165-176`), which puts `name..` on the list,
a name `newRequest` cannot pack;
a timeout beyond the range overflows (`dnsconfig_unix.go:110`).  `ConfUsable`
names the exceptions.

### ResolverService, ServerMain

One process per RPC; a lookup is one step whose outcome is chosen from what
`dns/` makes of the name (`Results`, `Probe`): its records, no such host (the
same for NXDOMAIN and for a name without records of the type), an answer that
does not parse, or another failure.  `Zone` says which types a name has and
whether its CNAME points to itself.  `pickResolver`'s two atomic additions are
two steps, as is each `Swap` of the stats goroutine.  Left out: alias records
inside an address answer, the contents of records and logging.  The cursor is a
natural number; the code's `uint64` does not wrap in the life of a process.

`ServerMain` puts this between start-up and exit.  `kind` says which program it
is: `resolver` is `cmd/server` with an upstream pool and statistics (their
interval is positive), `rdap` is `cmd/rdap-server`, `composed` a program that calls
`service.Register`, which has neither statistics nor, when the bootstrap file
cannot be had, an RDAPResolver.  `phase` is where `main` is, `sig` the signal
goroutine, `srv` the `grpc.Server`, which is external: `GracefulStop` refuses
new connections, waits for the RPCs and makes `Serve` return nil; a `Serve` that
comes after it returns an error.  An RPC may still arrive on an open connection
until the server has told its clients, so `Accept` is enabled while it drains.

*Limits.*  The error of a lookup that failed for another reason than "no such
host" is dropped (`resolver.go:190`), although `resolver.go:27` and
`resolver.go:191` speak of "no records" only; and where the probe's question for
A finds nothing and its question for AAAA fails, `golookup.go:101` keeps the
first error, so the RPC skips all other lookups.  Both streams end with OK.  A
client cannot tell a partial stream from a complete one, and `StreamFaithful`
promises a complete stream only of an RPC without failures.  When `Serve` fails
by an error of the listener, `log.Fatalf` ends the process and the RPCs under
way (`cmd/server/main.go:85`); `DrainedBeforeExit` is about exits with status 0.

### RdapData, RdapLookup, EnrichedLookup

A document is the record its JSON decodes to, `malformed` one that does not, and
`NotText` a value of a vCard that is not a string.  `Service`, `Card` and
`Object` are the types the decoder fills, whatever the strings in them.
`NewBootstrap` fills the table in the file's order, then the built-in fallbacks
where nothing is listed. `RdapLookup` has one behaviour per call: `Refuse`, of a
Domain without a hostname (`named`), and `Route`, of any other, the root's `.`
with its empty TLD included, precede the registry's `Get` and `Read`,
`FollowLink` decides about the registrar, and `RegistrarGet` and `RegistrarRead`
go to `Return` whatever fails.  `ContextEnds` can happen at any time, and need
not.  `EnrichedLookup` is the promise: an error only while the registry's data
are not there, afterwards those data, or an extension.

*Limits.*  An entity of the registrar is added whole when one of its roles is
new, so the roles it shares with an entity of the registry then occur twice
(`client.go:285-288` speaks of roles, the code adds entities).  `MergeAdds` says
what does hold.  A Domain without a hostname is refused (`server.go:24`, and
`client.go:34` would), although `client.go:30-31` says that "the labels+tld are
joined to reconstruct it".

## 3. The runs

| Run | Instance | What it shows |
|---|---|---|
| `config` | 2 lookups, 3 contents, 3 times, 1 failure, re-check after 2 ticks | the five safety properties of the cache, and that it ends up with the file's content |
| `config_noreload` | same, property `NoReloadSticks` | finding, below |
| `exchange` | 2 ids, 2 questions, timeout 2, budgets 1, 3, 9 | the safety properties of an exchange, and that it returns |
| `formats` | replies of up to 3 answers and 2 additional records, record bodies, lists of up to 3 records, names, resolv.conf of up to 4 lines, hosts files of up to 2 | the operators agree with independent definitions of what they are for |
| `query_loop` | 2 lookups, 2 servers, 2 attempts, 2-bit counter, 9 outcomes | rounds, balance of the rotation, refinement of `NameQuery` |
| `address_lookup` | 8 names, 4 search lists (one lists a suffix twice), 2 values of ndots, strict or not, 6 kinds of lookup | which answer wins, when a search ends and how, what is never asked |
| `hosts` | 2 lookups, 3 contents, 2 stamps, 1 failure, age 2 | soundness, bounded staleness, recovery, no lookup starves |
| `hosts_denied` | same, property `HostsComeFirst` | finding, below |
| `service_stream` | 1 RPC, all 18 lookups, 7 kinds of name, up to 2 failures, stats goroutine | completeness, order, the handler returns |
| `service_nodata` | 1 RPC, property `SkipMeansNoName` | finding, below |
| `server` | 3 kinds of process, 2 RPCs, 2 upstreams, stats goroutine, a signal at any time | conservation, balance, no RPC cut off, the process ends |
| `rdap` | 4 bootstrap files, 5 TLDs, 314 registry and 63 registrar documents, failures at every step | routing, merge, contacts, refinement of `EnrichedLookup`, the call returns if its context ends or no server keeps silent |

*Why these bounds are enough to be interesting.*  Two lookups are the least that
race; in the config cache one can initialise or re-check while the other is
anywhere, and the proofs cover any number.  Three times let the file change
twice during one re-read; two stamps let the hosts file change between any two
steps of a read, with removal in between.  One failure is enough to leave wrong
state behind, since recovery is required after it.  In `exchange` the ids and
questions let a message fail to match in either way; a timeout of two ticks with
budgets below, between and beyond lets the caller's deadline cut the first
network, the second, or none.  In `query_loop` the 2-bit counter starts at every
value, so wrap-around happens in the run; two servers divide its range as they
do 2^32.  In `address_lookup` the names lie on both sides of every test: fewer
and more dots than `ndots`, rooted, `.onion`, invalid, and so long that one
suffix, or every one, makes them too long; two suffixes give a first, a middle
and a last name to fail at.  In `formats` bodies are cut at every byte; lists of
up to three records of two priorities and of weights 0, 1 and 3, with draws from
0 to 5, make every outcome of a draw below one, two and three equally frequent;
labels have lengths 63 and 64, and four of 61 to 63 give names around 253;
resolv.conf has up to four lines, one server more than is kept, and the hosts
file up to two; `MaxInt` is 127 and a second 10 units, so that a timeout of 13
overflows and one of 200 is cut to an int first.  In `rdap` documents vary one
kind of content at a time, the others kept fixed, because `parseDomain` treats
them independently.  Two RPCs over two upstreams put one between its two
additions while the other ends and the counters are swapped; `service_stream`
needs one RPC only, as streams share nothing.  The bounds are all constants:
`Recheck`, `MaxAge`, `MaxFaults`, `MaxFailures`, `Width`, `MaxAnswers`,
`MaxAdds`, `MaxLines`, `MaxHosts`, `MaxNames`, `MaxRecords`, `Timeout`,
`MaxInt`, `Second`.

*Fairness.*  `ResolverConfig` and `HostsCache`: weak fairness of every step of a
lookup (goroutines are scheduled), of the clock, and of the arrival of lookups,
because nothing else re-reads a file; an idle server is not expected to notice
an edit.  `HostsCache` also has strong fairness of taking the mutex: Go's
`sync.Mutex` hands over to a goroutine that has waited for a millisecond.
`Exchange`: the clock runs, and a call on a socket whose deadline has passed
returns; nothing is assumed of the server, so the flood of non-matching messages
and the silent server are both included.  `ResolverService`: an RPC's next step
is taken; that a lookup returns is what `Returns` of `Exchange` and the bounded
loops of `QueryLoop` give.  `RdapLookup`: the handler's own steps are taken, and
an HTTP call returns once its context has ended.  Nothing is assumed of the
servers, nor of the context (the command line client sets 15 seconds, but
neither `NewClient` nor the server sets anything), so `LookupReturns` is
conditional: the context ends, or no wait for a server lasts for ever.
`ServerMain`: `main`, the signal goroutine and the steps of DNS RPCs are taken;
the bootstrap fetch has a timeout of 30 seconds.  Nothing is assumed of RDAP
lookups there, and `ShutsDown` is conditional on their coming back.  No fairness
is assumed of editors, failures, clients, signals, the stats goroutine or
cancellation.

Deadlock is checked in every run but `formats`, whose states
are inputs and end with the last of them.  Elsewhere, where a finite job ends,
an action says so (`Done`, `Idle`, the stutter of an ended process).

### What the violation runs show

* `config_noreload`: `tryUpdate` tests `noReload` before it takes the try-lock.
  A lookup that passed the test, while another one re-read the file and found
  `options no-reload`, re-reads it again five seconds later.  `dnsconfig.go:41`
  says "do not check for config file updates".
* `hosts_denied`: `readHosts` stores what it has after a permission error or a
  failed read under the modification time and size it got before, so the next
  comparison finds nothing to do and the file's entries stay unused until it is
  edited.  `golookup.go:39` says a lookup first tries /etc/hosts.
* `service_nodata`: a name with MX and TXT records but no address gets an empty
  stream, since the probe's "not found" stands for NXDOMAIN and for no data.
  `resolver.go:20-23` says the remaining lookups are skipped on NXDOMAIN.

Other disagreements with comments have no run of their own and are named in
section 2: what `StrictErrors` does (`QueryLoop`), the canonical name of a name
without an alias (`Answers`), lookups that fail in silence (`ResolverService`),
shared roles and a Domain without a hostname (`RdapLookup`).

## 4. The proofs

`ResolverConfigProofs` proves, for any set of callers, contents and times, and
any bounds on time and failures:

* `TypeCorrect`, `MutualExclusion`, `NoNilConfig`.  None of the three is
  inductive.  The invariant `IInv` adds to the types: until `init` returns nobody
  but the initialiser is past `initOnce.Do`, and there is no token (`OnceInv`);
  afterwards the token is in the channel exactly while one caller is between the
  try-lock and the release (`SemaInv`).  Without `OnceInv` the `Store` of `init`
  could overlap a re-read; without the third conjunct of `SemaInv` a try-lock
  could succeed beside a holder.
* `StampSoundness`, from `IInv` and `SoundInv`: the time of the cached config
  and of every open descriptor has been used by the file, and if it is still the
  file's, so is the content.  The descriptors have to be in the invariant: what a
  scan stores was opened several steps before.
* `CurrentAfterCheck`, `CheckedIsCurrent` as an invariant, from `IInv` and
  `QuietInv`: while the file is not touched and no call fails, the open descriptor
  is of the current revision, and when nobody reads, so is the cache.  That nobody
  else reads when a reader ends is mutual exclusion.
* `AnyFileUsable`: of any lines, `dnsReadConfig` makes a configuration that can be
  used.  `Usable` is the set of configurations that no word of an option and no line
  leads out of (`OptionUsable`, `DirectiveUsable`), so that the fold over the words,
  and the one over the lines, end in it; `TimeoutFits` is about the product that may
  wrap.

`AnswerProofs` proves, for any ids, questions, timeout and budgets:

* `AnswersOnly`, `TCPHasCause`, `NoLeak` from `IInv`: what was accepted on either
  network is this query's own (`AcceptedInv`), what is returned was accepted on
  the network the call ended on (`ResultInv`), and a connection is open exactly
  in the phases that write and read (`ConnInv`).
* `BoundedWait` from `IInv` and `TimeInv`: the clock stops at the deadline, and
  the deadline is within one timeout per network tried.

and, for lists of records of any length, any priorities, weights and draws:

* `OrderHolds`, in two parts.  `RecordsInOrder`: neither order loses or repeats
  a record, preferences and priorities ascend, and in a priority what has no weight
  comes last. An insertion keeps a list in order if "comes after" is a strict
  order (`Strict`, `InsertOrdered`), a swap keeps its records (`SwapFacts`). The
  weighted shuffle
  is followed round by round: what is placed has weight, and with what is left it
  is the whole list (`Splits`, `RoundFacts`); the rounds end by themselves, with
  nothing left that has weight or with one record (`RoundsEnd`).  Then the list is
  rebuilt run by run (`Placed`, `PlacedNext`); that a run has as many draws as
  records, `BucketFacts`, is where the sort is needed.
  `FirstByWeight`: of the numbers below the sum of the weights as many bring a
  record to the front as its weight says.  Record i is chosen by the numbers from
  the sum of the weights before it up to the sum with it (`ChosenFacts`,
  `ChosenByWeight`); the first round draws for the first run (`RunsBegin`), which
  is the best priority (`BestBucket`); and a sum does not depend on the order of
  its terms (`WeightsSame`).

and, for any values of the fields of a body that fit the bytes they are written in:

* `AnyBodyRead`: `Decode` returns what was written, also when more follows; of a
  body cut at any byte it returns nothing, unless the last field takes what is
  left, which is then a beginning of the value; a compression pointer is
  refused.  The invariant is `BodyInv`: every value of the body is one for its
  field.  Each reader is first shown right wherever its bytes stand (`At`) or
  are cut off by the end of the data (`Cut`): `UintReads`, `CharStringReads`,
  `NameReads`, `ParamsReads`, in one statement `EveryFieldRead`.  Names and
  service parameters are the hard ones: their readers are functions of the
  offset that use themselves at later offsets, so they are first shown to be
  determined from the end of the data backwards (`Backwards`, `LabelTableRead`,
  `ParamTableRead`), and what they return is then found label by label
  (`NameRowsOfMore`) and parameter by parameter (`ParamsReadOfMore`).  `Decode`
  is followed field by field (`DecodeSteps`): a body's bytes are those of its
  fields in a row, so each field stands at the sum of the lengths before it, and
  a body cut short is cut in one field, after others that are whole (`RowsAt`,
  `WholeBody`, `ShortBody`, `PointerRefused`).

`HostsCacheProofs` proves, for any lookups, contents, stamps, `cacheMaxAge` and
any number of failures:

* `TypeCorrect`, from `Mutex`: the mutex is held exactly by the lookup that reads
  or answers.
* `StampSoundness`, from `Stamped`: every stamp in memory has been the file's, so
  a new revision makes all of them differ; and in a scan, if the stamp taken
  before the open is still the file's, the open file has the file's content.
* `TrustBounded`, an action property, from `Aged`: the time a content has been
  off the disk and the time its table may still be trusted add up to at most
  `cacheMaxAge`, because the clock was read before the stat, and during a scan
  the content opened has been off the disk for no longer than the read has
  taken.  That nobody resets the read's clock meanwhile needs `Mutex`; that an
  unchanged stamp means the content is still there needs `Stamped`.
* `AnyHostsMutual`: of any lines, `readHosts` makes two maps that are each other's
  inverse, mention for mention.  One name keeps the maps in agreement
  (`AddNameAgrees`) provided its canonical name is `Settled`: it has an entry with
  the line's address, or is the name itself.  So the names of a line are followed
  one by one (`LineAgrees`), and then the lines (`FileAgrees`).

`QueryLoopProofs` proves, for any number of concurrent lookups, servers and
attempts, if the config does not rotate or the number of servers divides the
range of the rotation counter (`FullRounds`):

* `KeepsPromise`: `QueryLoop` implements `NameQuery`.  The invariant `LoopInv`
  says that in the first round the servers at the places before this one have
  failed, and later all have; the places of a round meet every server exactly
  once (`Places`, where the condition is used); and an exchange is a `Hear` of
  `NameQuery` (`AskStep`, `StepImplements`), everything else a stutter.
* `TriesAll`, `EveryServerTried` as an invariant, from `LoopInv` and `CountInv`:
  the servers at the places before this one have been asked once more than the
  others.
* `StartsSpread`, `RotationBalanced` as an invariant, for finitely many lookups
  and a number of servers that divides the range: `Spread` of the lookups that
  have begun, from `BeginInv`.

and, for replies of any length in which any records may be damaged:

* `JustifiedVerdicts`: what `checkHeader` and `skipToAnswer` make of a reply is
  justified by what it says.  `skipToAnswer` stops at the first answer that is of
  the type, damaged or cut off (`BeforeStops`, `ReachedShape`), and the code that
  counts is raised only by an OPT record that can be reached (`RaisedShape`).
* `WholeAnswers`: a lookup returns every record of the type, in order, or an error;
  after an alias the canonical name is the owner of the first address.
  The loop over the answers is followed along them (`WalkSteps`): after n of
  them it has failed, or has the wanted places among the first n (`WalkWhole`).
  The invariant (`Received`) is only that a reply that loses an answer is one still.

`ServiceProofs` proves, for every kind of process of `ServerMain`, any finite number
of RPCs and any pool:

* `NoRpcLost`: what was logged, what is in the counters and the RPCs between
  their two additions add up to the RPCs routed.
* `EvenPool`: no upstream gets two RPCs more than another.  `PoolBalanced` is not
  inductive, as it does not say who is next.  `Spread` (of `Lemmas`) does.
* `SafeExit`: a process that exits with status 0 has drained its RPCs.
  `StopOrder` bounds what the server can be doing by how far the signal goroutine
  has come; `ServeInv` says that a server which does not serve has no RPC in hand.

and for `ResolverService`, for any order of lookups without repetition and any
zone:

* `FaithfulStreams`, from `OrderedStreams` and `CompleteStreams`: what a client
  has received has no kind twice and follows the order of the lookups, and of an
  RPC without failures it is everything the name has.  Both follow from
  `StreamInv`: what was sent, with the batch in hand, is a selection of what a
  stream without gaps has after `k` lookups (`Fits`), and all of it while
  nothing has failed.  The inductive step adds one lookup (`FitsNext`); a client
  that leaves cuts the batch short (`FitsCut`).

`AddressLookupProofs` proves, for any names, search lists, `ndots` and kind of
lookup:

* `FirstAnswerHolds`: the records returned are those of the first name that has
  some, of all its types, and every question about the names before it failed.
* `FailureHolds`: a call that fails has asked every name of the list for every
  type, unless a reply was garbled or, of a strict resolver, a failure temporary;
  the error is one that was met, and about the name itself where it has to be.
* `QuestionsHold`: no `.onion` name, no name too long and no listed name is asked
  for, and the name itself comes before or after its suffixed forms as `ndots` says.
* The invariant behind them: `OrderInv`, the m-th question is the m-th of the two
  nested loops; and `AskInv`, while the search runs only questions about the
  present name may have been answered, `records` is the answered ones in order
  and `lastErr` is one of the failures.  That the nested loops meet each pair once
  is `PlaceOrder`; that nothing improper is in the list is `SuffixedShape`.

and, for names of any number of labels of any length and kind:

* `AnyNameAgrees`: what the grammar accepts prints as it was written, in lower
  case, and parses to the same again; the three entries of the grammar agree; and
  the resolver asks for it unless all its labels are digits.  The parts of a
  parsed name put together are its labels again (`PartsAgain`), and the two sums
  that are compared with 253 and 254 differ by the dot (`OctetsFacts`).

`RdapLookupProofs` proves, for any bootstrap file, TLD and documents:

* `RightServer`: the registry asked is the one that the last usable service of the
  file names for the TLD, else the fallback, and without either the call fails.
* `OnlyAdds`: a merge leaves the registry's entities and statuses first and as they
  were; what it adds has a role, or is a status, that was not there; and every
  role and known status of the registrar is there afterwards.
* `FaithfulContacts`: every contact of the registry has exactly the values of its
  card's whole entries.
* `KeepsTheRegistrysData`: `RdapLookup` implements `EnrichedLookup`, under the
  mapping in `RdapLookup`.  The abstract specification has no fairness, so the
  theorem is the whole refinement; `PromiseStep` has one case per action.

The invariant `IInv` says where the handler is with what in hand, and that
`domain` is what the documents read so far make of it (`DataInv`) and `url` what
the bootstrap file has for the TLD (`RouteInv`).  The rest is about data: the
loops over services, statuses, entities and card entries are folds.  Each is
first followed along its sequence (`ServiceSteps`, `KnownStatusSteps`,
`EntitySteps`, `EntrySteps`: what there is after n elements), then what it comes
to is proved by induction on n.

`Lemmas` has what the proofs share:

* remainders are unique, the next one is one more or zero, a counter that wraps
  at a multiple of m keeps its remainder by m, m steps meet every remainder once;
  a place that takes its turn keeps `Spread`: the places one turn ahead form an
  arc from where the round began to the counter;
* induction.  The library states it for an operator `P(_)`, which the provers here
  cannot instantiate.  Stated for a set G instead of P, derived from the least
  element of a set of numbers, it can be cited like any lemma, for numbers and
  along a sequence;
* a fold follows its sequence: there is a function from 0..n to the values in
  between (`FoldLeft` of the community modules is a recursive function, so its
  values exist);
* `Only`: what it keeps, its order, its type, of an appended element, of a
  concatenation, of another `Only`;
* `Total`, the sum of a sequence, of none and of an appended term;
* sequences that repeat nothing (`Distinct`) and that follow an order (`Ordered`):
  of an appended element, of a concatenation, of `Only`;
* rows of sequences (`FlattenSteps`, `RowsAt`), where in a sequence another
  stands or is cut off (`At`, `Cut`), and functions that refer to themselves at
  later places (`Backwards`).

Assumptions are only those the modules name (`ConfigAssumption`,
`NilAssumption`, `ConfigFileAssumption`, `LinesAssumption`,
`ExchangeAssumption`, `HostsAssumption`, `ReplyAssumption`, `LoopAssumption`,
`ServiceAssumption`, `AddressAssumption`, `RdapAssumption`,
`SpellingsAssumption`, `RecordsAssumption`, `TextsAssumption`,
`FieldsAssumption`) and the hypotheses of the theorems of `QueryLoopProofs`: the
default config is a content without `no-reload`, the zero time is not a file's
time, `Nil` is not a config, the timeout and `cacheMaxAge` are positive, there
is a server and an attempt, the RPCs of one life are finitely many, the list of
lookups names no type twice, a name that has records exists, a suffix is not
empty, an int holds five seconds of a Duration, a line has a first field, what
parses as an address is not empty, preferences, weights and draws are numbers, a
label marked `com` is that in lower case, a value fits its field (a length its
one or two bytes, and a label has 1 to 191 of them), and services and documents
have the types their decoder gives them.

Where two tests of the code overlap (`Entry`, `CheckHeader`, `SkipToAnswer`,
`Probe`), the definition is a chain of `IF` in the order of the tests: of two
arms of a `CASE` that both hold TLC takes the first, but TLA+ leaves the choice
open.

Only model-checked:

* liveness (`EventuallyFresh`, `Returns`, `LookupAnswers`, `RpcReturns`,
  `ShutsDown`, `LookupReturns`) and `NeverBlocked`, which uses `ENABLED`, are
  outside what the provers do;
* `EqualsShuffled`, which counts the sequences of draws that lead to each order.  It
  holds only if what is drawn is even modulo every length, as 0 to 5 is up to
  three, and a proof would have to count permutations.

## 5. Not modelled

* **Command-line clients**: flag parsing, one call and printing.
* **Generated protobuf code** (`proto/`): message types and accessors.  It is about
  half of the lines of the repository's Go code and has no behaviour of its
  own, which bounds the share of the code that the modules can stand for.
* **Text**: what `reverseaddr` writes, the comparison of strings in lower case, the
  wording of errors and logs, and the formatting of records as strings.
* **Libraries**: `dnsmessage`'s own record bodies, the EBNF parser, `net/http`,
  `grpc.Server`.  What the code relies on is modelled and marked external in
  `PROJECT.json`.
* **Same modification time**: two revisions of resolv.conf with one time, or of the
  hosts file with one time and size; see `ResolverConfig` and `HostsCache`.

## 6. Plan

* `QueryLoop` inside `AddressLookup` in one run, with the outcomes of exchanges
  in place of those of `tryOneName`.
