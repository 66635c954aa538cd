# Verification of the DHCP server

TLA+ models of the DHCP server in this repository, the TLC configurations that
check them on small instances, and proofs, checked by TLAPS, of what matters
most for instances of every size. Names in the modules are those of the source;
source lines are given as `file:line`, all below `src/`.

## 1. Inventory of the system

The server is one process, written in C. `main` (`server_connection.c:732`)
reads the configuration, opens the UDP socket of port 67, starts `THREAD_NUM`
(1) worker threads and then receives datagrams for ever. Each datagram becomes
a `ClientTask` in an array shared with the workers; a worker takes the oldest
one and runs `handle_client`, which reads and changes the pool's cursor and the
list of bindings and answers with `sendto`.

| Component | State | Operations | Modelled by |
|---|---|---|---|
| Task queue and threads (`server_connection.c:30-78`, `766-789`) | `taskQueue[256]`, `taskCount`, `mutexQueue`, `condQueue`; each thread's place and task | receive, `submitTask`, `startThread` | `TaskQueue`, abstractly `TaskChannel` |
| Handlers and dispatch (`server_connection.c:344-712`) | pool cursor, binding list, `config->dns` | `send_DHCP_Offer`, `send_DHCP_Ack`, `handle_DHCP_Decline`, `handle_DHCP_Release`, `handle_DHCP_Inform_Reply`, `send_DHCP_NACK`, `handle_client` | `DhcpServer`, abstractly `AddressLedger`; with clients and network around it `DhcpExchange`, `ExchangeRestart` |
| Address pool of the server (`server_connection.c:275-306`) | `ip_first`, `ip_last`, `ip_current` | `is_ip_available`, `offer_ip_available` | `DhcpServer` |
| Binding list (`ip_pool_manager.c`, `queue.h`) | a doubly linked list of `ip_binding` | insertion at the head, `remove_binding`, `search_binding` | as a sequence `Bindings` and `BindingSearch`, as pointers `BindingList`, abstractly `BindingSequence` |
| Pool library (`ip_pool_manager.c:36-187`) | the same list, a cursor | `add_binding`, `update_bindings_statuses`, `cleanup_expired_bindings`, `take_free_address`, `new_dynamic_binding` | `IpPoolManager` |
| Configuration reader (`config_reader.c`) | `server_config`, the pool's bounds and cursor | `read_config_dhcp` | `ConfigReader` |
| Option scan (`server_connection.c:80-104`) | none | `get_dhcp_message_type` | `Options`; its result is an input of `DhcpServer` |
| Options library (`options.c`) | a list of options | `parse_option`, `append_option`, `search_option`, `parse_options_to_list`, `serialize_option_list`, `delete_option_list` | `Options`, without the conversions of texts |
| Logging and printing | `logfile.txt` | `log_operation`, `print_dhcp_message`, `display_binding_list` | no: writes text that nothing reads back |
| Socket set-up, `makefile`, `config.sh` | - | - | no: straight-line system calls and build rules |

**Interactions.** `main` and the workers share the task queue and nothing else;
they synchronise with one mutex and one condition variable. Handlers share the
pool and the list, under `pool_mutex` and `bindings_mutex` in some places and
without them in others, which has no effect while `THREAD_NUM` is 1. Clients
reach the server only by datagrams.

**Where it is hard.**

- Two threads hand over tasks through an array that the consumer shifts and a
  signal that the producer sends after the unlock.
- Nothing bounds the number of queued tasks, or gives an address back.
- UDP loses, repeats, delays and reorders: a REQUEST may come before, after or
  without its DISCOVER, a DECLINE or a RELEASE may name an older address or
  somebody else's.
- Which binding an ACK confirms depends on the order of the list alone, and so
  on every insertion and removal before it.
- `sendto` and `malloc` fail in the middle of a handler; `recvfrom` and `sendto`
  failing ends the process, and a new one knows nothing of the leases.
- Two views of time: a lease of an ACK begins at the ACK, the record of it at the
  OFFER.
- A client is told from another by as many bytes of `chaddr` as the datagram's `hlen`
  says: clients may have a prefix in common, or all be one with `hlen` 0.
- The list is changed by a loop that frees the element it stands on.
- The configuration is read into variables that nothing has initialised, by formats
  whose `%15s` takes the punctuation of short words along.
- Options are bytes that a client chose, with lengths that may lead past their end.

**What makes each component correct.**

- Task queue: datagrams are taken in order of arrival, each by one worker; no
  wakeup is lost; what was submitted is handled.
- Handlers and pool: an address is announced to one client; it is confirmed only
  to its holder, and never again after a release or a decline; an ACK confirms the
  holder's latest address; a datagram changes no binding of another identifier than its own.
- Binding list: it is a sequence; links agree; freed elements are not followed.
- Pool library: a binding expires only when overdue and without a lease; upkeep takes no lease;
  addresses come from the pool.
- Clients and server together: what a client holds is bound to it, two clients do not
  hold one address, and a client that goes on asking is answered.
- Configuration reader: the pool begins and ends as the last range line says; each value comes from a
  line of its own keyword; the DNS servers come from one line.
- Options: what is written is read back; nothing is written past the room given; the
  server's scan and the library find the same message type.

The hazards, each at its line with the properties that cover it, are listed in
`PROJECT.json`.

## 2. The modules

### TaskChannel, TaskQueue

`TaskChannel` says what the hand-over promises: a FIFO channel; a worker takes the
oldest datagram, finishes it, and does so with fairness.

`TaskQueue` is the code, at the grain of the shared accesses. `pc[t]` is the
place of thread t. `main` is `Receive` or `ReceiveFails`, then `SubmitLock`,
`SubmitStore`, `SubmitCount` (increment and unlock) and `SubmitSignal`; a worker
is `WorkerLock`, then `WorkerWait` with an empty queue or `WorkerTake` (copy,
shift, decrement, unlock), then `WorkerHandle` or `WorkerExits` (the handler calls
`exit`). `SpuriousWakeup` may happen to any waiting worker. Steps under the
mutex could be merged further; store and counter are kept apart to let TLC see
that the mutex is what protects them. `SubmitOverrun` is the store with all slots
taken: C gives the program no meaning after it, and the model stops
(`process = "undefined"`). A task is the number of its datagram.

### Bindings, BindingSearch, AddressLedger, DhcpServer, DhcpClaims, MCDhcpServer, MCDhcpClaims

`Bindings` has the record of a binding, insertion and removal, with the list as a
sequence, newest first. `BindingSearch` adds the search: `search_binding(list, ..., p)`
holds of the one place p of the first match, or of 0 for `NULL`. The identifier
of a binding is the client it was copied from and the number of bytes copied
(`cident`, `cident_len`). The constant `Prefix` gives the first n bytes of what a client
sends from `chaddr` on, and `memcmp` over n bytes compares those (`SameBytes`): two
clients may have a prefix in common, and with `hlen` 0 all have. `Prefix` is any
function: with one that no bytes have, where clients differ in n bytes and agree in more,
the model only has more behaviours. The model-checking modules give it values:
`VendorPrefix` has Ethernet addresses that differ in the last two bytes, `OwnPrefix` in
the first.

`DhcpServer` is the worker's side: `TakeRequest` puts any datagram of the model
into the worker's hands and `HandleRequest` runs `handle_client` on it as one
step. That is sound with the one worker the program is built with: the pool, the
list and the configuration are touched by handlers only. As any datagram may
come next, loss, repetition, delay and reordering are all covered. `ReceiveFails`
ends the process at any time, also between taking a request and handling it;
`Restart` begins a new life with an empty list. `sendto` and `malloc` fail
nondeterministically. A datagram has the fields handlers read (`op`, `xid`, message
type, `chaddr`, `hlen`, `ciaddr`, `yiaddr`); a reply is its type, `xid`, receiver, address,
end of the lease and DNS server. `told` is a history variable, which no guard
reads: which station was told which address in this life. A station
(`Station`) is the six bytes of an Ethernet address, the identifier by which `send_DHCP_Ack`
finds a client's bindings; two clients that send the same six bytes are one station.

Kept as in the code: the handler of DECLINE is dispatched on type 5; an ACK is
searched with the fixed length 6, the other handlers use `hlen`; `send_DHCP_Ack`
overwrites `config->dns[0]`; `send_DHCP_Offer` alone does not exit when `sendto`
fails; a failed `malloc` loses the address the cursor passed.

`AddressLedger` is the promise within a life of the process: each address is free,
leased to one client, released or gone; only a free address is given, only its holder
is told of it, and what is released or gone is told to nobody again. `DhcpServer`
implements it with the mapping `LedgerEntry`: an address in the list is leased or
released as its status says; otherwise it is gone when the cursor has passed it and
free when not. A restart of the server is a restart of the ledger, and `told` begins
anew with it.

`DhcpClaims` holds statements of the documentation that the code does not keep
(section 4).

### DhcpExchange, ExchangeRestart, MCDhcpExchange

`DhcpExchange` puts clients and a network around `DhcpServer`, which it
extends: the server takes what clients sent instead of any datagram. A client
goes through DISCOVER, OFFER, REQUEST and ACK, renews, releases, or is switched off
without a word (`Forget`). `Repeat` sends its message again while no reply came.
Datagrams are a set, so they arrive in any order and any number of times
(`Take` may leave its datagram on the way); `Send` and `Lose` lose them, and a failed
`sendto` loses a reply in the server. The server broadcasts, so a client takes the
replies that bear its `chaddr` and `xid` in the phase that waits for them (`Takes`);
replies nobody can take any more are dropped from the state. The clients are not part
of the program and are marked external in the map.

`ExchangeRestart` adds the restart of the server under clients that keep their addresses.
`MCDhcpExchange` gives both their Ethernet addresses for TLC.

### BindingSequence, BindingList

`BindingList` is the list at the level of `queue.h`: `lh_first`, and for each
element `le_next` and `le_prev`, the latter being the address of the pointer
that leads to the element (`HeadSlot` for `&head->lh_first`). `Insert` takes any place
not in use, so memory is used again; `Free` does what `LIST_REMOVE` and `free` do,
and stale links stay in the freed element. `cleanup_expired_bindings` runs turn by
turn: `CleanupTest` reads ahead, as `LIST_FOREACH_SAFE` does, `CleanupBody` removes the
element it stands on if it is expired, `CleanupEnd` leaves. There is one thread:
nothing else touches the list while the loop runs. `BindingSequence` is what
the list promises: its operations are `LIST_INSERT_HEAD` and `remove_binding` of
`Bindings`, which the handlers of `DhcpServer` use. The refinement mapping `Chain` is the
sequence whose elements are linked in its order, from the head to NULL (`Linked`).

### IpPoolManager

The operations of `ip_pool_manager.h` on the list and the cursor, called in any
order by one thread. The server calls only `init_binding_list`, `search_binding`
and `remove_binding`; the rest is compiled and called by nothing, so its caller
here is any program that sets a binding's fields as the handlers do (`Associate`,
`Release`). An address is a number of four digits of radix `Radix`, its bytes, so
that `ntohl` is modelled by what it does on a little-endian machine: the bytes
change places. `process = "faulted"` is a null pointer that was followed.
`cleanup_expired_bindings` is stated by the places of the list it keeps, in their order
(`KeptPlaces`); its loop is that of `BindingList`.

### ConfigReader

`read_config_dhcp` over any file of a bounded number of lines. A line is its keyword
and the words behind it; a word is a text and the mark right behind it. The
operators are the branches of the chain of `strncmp`. `Captured` is what `%15s` makes of a
word: a text of less than 15 characters takes the mark along, which `inet_addr` then
refuses, and one of 15 leaves the mark to the next conversion. `inet_addr` of a text that is
no address is the largest number. `Unset` is what main's uninitialised variables
hold. Where the code reads a text that was not written, or writes past `netmask[6]`, the
fields concerned may hold anything (`ReadSubnet`).

### Options

Options as bytes of radix `Radix`. `get_dhcp_message_type` is the scan in the server, over
the bytes received, the zeros of the rest of main's buffer and anything behind it
(`Memory`). `parse_options_to_list` (`Parsed`), `parse_option`, `serialize_option_list` and
`delete_option_list` are the library, called in any order; a value is a sequence of
bytes of any length, which `Size` cuts to the width of a byte as the `uint8_t` does.
`options.c` is in no build rule and does not compile as it stands; what it says
is modelled all the same, since the repository has it as its option library.

### The proof modules, Induction

`TaskQueueProofs`, `DhcpServerProofs`, `DhcpExchangeProofs`, `BindingListProofs`,
`IpPoolManagerProofs`, `ConfigReaderProofs` and `OptionsProofs` extend the modules they
prove about. `Induction` has what `BindingListProofs` and `OptionsProofs` need to reason
about lists of any length.
The library's induction theorems take the property as an operator, which the provers
cannot instantiate; here it is given as the set of the numbers that have it. `HasLeast` is
the library's fact that the natural numbers are well-founded; `UpTo`, `Everywhere` and
`Downwards` are induction from 0 and from a bound down, and `BackwardRecursion` is the
existence of a function whose value is made from that at a later place.

## 3. What the runs check

Faulty variants of definitions stand in the modules beside the real ones; each
property is known to fail when one of them takes the place of the real one.

| Run | Instance | Shows |
|---|---|---|
| `task_queue` | 2 workers, 3 slots, 5 datagrams | order of arrival, each datagram taken by one worker, no lost wakeup, every submitted datagram handled, refinement of the fair channel |
| `dhcp_server` | 2 clients, identifiers of 6 bytes, and of 4 that both have in common, 3 addresses, clock 0 to 1, one restart, any datagrams | the list sorted by address and age, free address after the cursor, one client per address, ACK of the newest address held, bindings of other identifiers undisturbed, refinement of `AddressLedger` |
| `exchange` | 2 clients, 3 addresses, 2 transactions, lossy network | what a client holds is bound to it, no two clients hold one address, a repeated REQUEST is confirmed in the end, a repeated DISCOVER is served or the pool is used up |
| `binding_list` | 4 elements | links agree, no freed element followed, the loop ends (`CleanupEnds`) and leaves no expired binding (`CleanupCompletes`), refinement of `BindingSequence` |
| `pool_library` | 2 addresses, at most 3 bindings, clock 0 to 3, pending time 1 | only overdue bindings without a lease expire, also when old ones are used again, upkeep spares leases and reclaims the rest |
| `config_reader` | files of up to 2 lines, 2 addresses (one of 15 characters), 2 lease times | the pool begins and ends as the last range line says, each lease time that of its own last line, the DNS servers are from one line |
| `options` | bytes of radix 4, up to 5 received, up to 2 options in front of a call, 12 bytes of room | what is written is read back, within the room; a parse keeps whole options only; the scan agrees with the library |

Five more runs, each with a single property that TLC refutes, are in section 4.

**The bounds.**

- *Task queue.* The program starts one worker; two are checked, so that the hand-over
  is seen not to rest on `THREAD_NUM` being 1, and the second one also adds to every
  interleaving a worker may meet. 5 datagrams fill the array of 3 with both workers
  busy, and an idle worker leaves enough of them to overrun it. `task_queue_overrun`
  has the one worker of the program.
- *Server.* Two clients are the least for which a binding can be somebody else's.
  The pool of three addresses is used up when two are given, as the first one never is: of
  the addresses 10 to 12 one client has both 11 and 12, or each client one. So no binding
  leaves the middle of the list in this run; with a fourth address it takes longer than the
  five minutes a run may have, and the proofs are for pools of any size. No expression
  compares addresses except by order, and none tells clients apart but by `Prefix`, so
  they are symmetric. Identifiers of 6 bytes are what the ACK searches for and tell the
  clients apart; with 4 bytes both clients have the same one, and each can release the
  other's binding. `MaxLives` 2 gives one restart,
  with the clock going on. `MaxTime` 1 gives bindings of two ages; handlers read the
  clock only to add it to `MaxLease`. Transaction numbers are copied into the reply and read
  by nothing else, so one is enough here. `claim_expiry` has one address to give and two
  clients that ask, and a clock that passes the end of the lease.
- *Exchange.* The transactions are counted over all clients together: two of them let
  a client begin again, or renew, or two clients compete. The clock stands still:
  nothing in the server reads the ends of leases. With a fourth address or a third
  transaction the state graph is too large for the liveness properties; the safety
  properties of the server and of the exchange are proved for any number.
- *List.* Removal at the head, in the middle, at the end and of the only element,
  with one element more to be inserted at a place that was freed.
- *Pool library.* One identifier is enough, as no operation reads it. Radix 3 is the
  smallest for which a byte can have a value besides the extremes 0 and largest;
  first address 27 is the digits 1 0 0 0, whose bytes swapped are another number.
- *Configuration.* A line sets only the fields of its own keyword, so two lines show
  whatever one line can do to another; the proofs are for files of any length. One of
  the two addresses has a text of 15 characters and one has not.
- *Options.* Radix 4 has PAD, END, the message type and one other option; values up to
  radix + 1 bytes overflow the length byte. The buffer and the limit of the scan keep the
  order they have in the code (received, then buffer, then limit), so that the scan can
  leave the buffer. What lies behind the buffer is one byte over and over, any one, in the
  run and in the proofs. 12 bytes are room for the longest lists of the instance or too few.

**Fairness.** `TaskQueue!FairSpec` has weak fairness of `main`'s way through
`submitTask` and of each worker's steps: the scheduler runs threads that can run, and
handlers return (none of them loops or waits). No fairness is assumed for the
arrival of datagrams, for spurious wakeups or for failures, and none stronger than
weak for the mutex: main takes it once per datagram. `DhcpClaims!AskedSpec` is for
`claim_expiry`: clients only ask, so that no lease ends by a RELEASE; a handler returns and
time passes (weak), and each client's DISCOVER is taken again and again while the process
lives (strong, since the worker may have another datagram in its hands). The server of
the counterexample has every chance to give the address out anew, and refuses.
`DhcpExchange!FairExchange` says that a handler returns, that a client that waits sends
again (both weak), and that of the copies of one datagram that is sent again and again
some arrive, as do some of the replies to it (strong: a network that loses every copy
serves nobody). No fairness makes `sendto` succeed; a handler other than that of DISCOVER
exits when it fails, and the properties count an exited server as an end.
`BindingList!FairSpec` says that a loop that was started is run on.

**Deadlock** is checked in every run; where the system may rest (all datagrams
handled, the process gone, a fault) the module has an action `Rest` (`Over` in `DhcpExchange`) that says so.

## 4. Where code and documentation disagree

Each of these is a run whose single property TLC refutes; `PROJECT.json` quotes the
document (`Server DHCP documentatie.docx`).

| Run | The document | The code |
|---|---|---|
| `task_queue_overrun` | all requests are processed | a burst longer than 256 runs over the end of `taskQueue` (`server_connection.c:50`) |
| `claim_decline` | a DECLINE gives the address back | a DECLINE, type 4, is "unknown"; its handler is on type 5 (`server_connection.c:687`) |
| `claim_expiry` | ended leases are used again | nothing reads `lease_time` (`server_connection.c:350`) |
| `exchange_restart` | a file of leases keeps the associations, each client has an address of its own | a server that is started again gives out addresses that are in use (`server_connection.c:737`) |
| `config_range` | the range line of `dhcp_config_file.txt` names both ends of the pool | the `;` makes the end 255.255.255.255 (`config_reader.c:38`) |

Others were met and have no run of their own. They show in what the modules do:

- a REQUEST without a binding is not answered, where a NAK is described
  (`send_DHCP_Ack`, `server_connection.c:456`);
- the address a REQUEST asks for is not read: a renewal of an older address is confirmed
  with the newest (`server_connection.c:453`);
- a renewal leaves the binding's `lease_time` as the OFFER set it (no line of
  `server_connection.c:444-546` assigns it), although the document says in section 6.2 that
  the lease is extended. Nothing reads the recorded end; the ACK itself carries a new lease;
- the first address of the pool is never handed out: the cursor starts at `ip_first` and the
  search at the address after it (`server_connection.c:297`), while `config.sh:10-12` calls both
  ends of the range the pool;
- the line of DNS servers is read only when its first address has 15 characters
  (`config_reader.c:85`), the line of routers never, as its format begins with
  `options` (`config_reader.c:76`), and the subnet line writes past `netmask[6]`
  (`config_reader.c:66`);
- `take_free_address` swaps the bytes of its second address (`ip_pool_manager.c:141`), and
  `new_dynamic_binding` with no address left follows a null pointer, or returns a
  binding that is in use (`LastResort`, `ip_pool_manager.c:179`); the server calls neither;
- in `options.h` the NETBIOS datagram distribution server has the number 4 of the time
  server, whose entry in the table of `options.c` it replaces.

## 5. What is proved

The proofs hold for every value of the constants that satisfies the modules' named
assumptions, with the bounds `MaxDatagrams`, `MaxTime` and `MaxLives` arbitrary.

**TaskQueueProofs** (any set of workers, any array length): `TypeCorrect`,
`ArrivalOrder`, `EachTakenOnce`, `WakeupNotLost` and `Implementation`, that is
`Spec => Channel!Spec`. The queue's contents say nothing without knowing who is
between lock and unlock. So the invariant adds: each thread is at a
place of its own code (`Locations`); the mutex is held exactly at the places between lock
and unlock (`MutexHeld`); main between its lock and its count has submitted
one task less than it received (`Submitting`); and `CountBounded`. For the refinement each step maps
to `Submit`, `Take`, `Finish`, `Stop` or a stutter; the store is a stutter, the
count is `Submit`.

**DhcpServerProofs** (any pool, clients, lengths and transaction numbers): every property
of the run `dhcp_server`, for any `Prefix`. `TypeCorrect`, `ListSorted`, `SearchIsImmediate` and
`NoAddressGivenTwice` come first. That an address is told to one station
is not inductive by itself: an ACK tells an address that was offered before, and a new
OFFER must not repeat one whose binding was declined. `ToldOwned` says that every
address told in this life lies behind the cursor and, if it is still bound, is bound to
the station it was told to; `NewestFirst` says the list lies behind the cursor and has no
address twice. A lemma first shows that each handler has one of six
effects on pool, list and announcements (`Effect`), and the invariant is shown for
the effects. From there:

- `ListByAge`: `Origins` says that each element of the new
  list is made now or comes from one of the old list, with the same address and time,
  and that the order is kept. `ByAge` (no binding is from the future, and the
  list is sorted by age) is inductive by it.
- `AckIsNewest`: the search finds the first match (`SearchFinds`), and in a sorted list
  the first is the newest.
- `OthersUntouched`: each effect leaves the old and the new list with the same bindings,
  but those that carry the datagram's identifier. It says
  nothing against one client releasing another's binding when both have the first `hlen`
  bytes in common: the code allows that, and the theorem bounds it to those bindings.
- `LedgerImplemented`: each effect is a step of the ledger. An address stands in the
  list once (`Once`), so its entry is that of its binding (`EntryBound`), or follows from
  the cursor if it has none (`EntryUnbound`); a step changes the entry of one address,
  and the lists before and after have the same entry for all others (`EntrySame`).

**DhcpExchangeProofs** (any clients, pool and number of transactions): `HoldersAreBound`,
`AddressesAreUnique` and `ExchangeTypeCorrect`. The clients have Ethernet addresses of their
own (`StationAssumption`): two that have the same one are told one address by design. What a client was offered must outlive
every datagram it sent before, above all a RELEASE of an earlier address that arrives late. The reason it
does is that the server never gives an address twice: a client's addresses grow. A pair
of client and address is `Fresh` if the list has an active binding of it and every
RELEASE of that client still under way names a lower address. `EInv` says that what a
client was offered or holds is fresh, that so is the address of every reply a client can
still take, and that a datagram under way was sent in the client's present or an earlier
transaction. A DISCOVER adds the address after the cursor, above all that were ever
released (`OfferBinds`); a RELEASE ends the binding of the address it names and no other
(`ReleaseTakesOne`); an ACK names the newest active address, which is at least the
fresh one (`AckNamesNewest`, from `NewestFirst`). Uniqueness follows from boundness, as
the list has each address once. The invariant of `DhcpServerProofs` is used as it is:
each step of the exchange is a step of the server or leaves it alone. That no
client numbers a transaction beyond `MaxTransactions` rests on a count: a client whose
number is n has begun n transactions of its own, which are among all that were begun
(`Begun`), and every client that is not idle has a number (`Numbered`).

**BindingListProofs** (any number of elements): `TypeCorrect`, `LinksAlwaysAgree`,
`CleanupNeverUsesFreed`, `CleanupIsComplete` and `SequenceImplemented`. The agreement of
the links is inductive. The safety of the loop needs more: the element read ahead must be another than the one freed, which
two links that agree do not give, since an element could follow itself. `Acyclic`
says that some rank grows along the links; insertion shifts all ranks by one, and
removal leaves them as they are. `LoopInPlace` says that what was read ahead
is still the next element.

- `CleanupIsComplete`: the loop has passed a set of elements that are not expired and
  whose links lead to one another or to where it stands; the head leads there too
  (`PassedBy`). At the end of the list all live elements are passed, by the rank.
- `SequenceImplemented`: the invariant has a witness, a sequence of all live elements
  without repetition that is linked (`Listed`). No other sequence is linked, by induction
  along the links (`OneLinked`), so that `Chain` is the witness, and each insertion and
  removal changes it as `Bindings` says.

**IpPoolManagerProofs** (any pool, radix, pending time and list length): every property of
the run `pool_library`. `AllSound` is inductive: a binding that is PENDING or EXPIRED has
`lease_time` 0, as `calloc` left it, and an EXPIRED one was overdue. `Associate` may take
any binding, an EXPIRED one too, and gives it status, time and lease at once; the clock
makes no binding less overdue. Each call keeps every binding of the new list sound (`Lawful`).
Behind a call of `update_bindings_statuses` no binding of the list is still overdue
(`Updated`), which `UpkeepIsComplete` adds to what the cleanup removes.

**ConfigReaderProofs** (files of any length, any addresses and any choice of those that
have 15 characters): `TypeCorrect`, `PoolAsConfigured`, `LeasesAsConfigured`
and `DnsServersTogether`. The invariants are about the last line that names a range, its end
included, the last line of
each lease time and some DNS line among those read; each branch of the loop moves them by one line, and those of other keywords do not touch
the fields.

**OptionsProofs** (bytes of any size from 3 values on; options, lists, datagrams and
buffers of any length): every property of the run `options`. What is recursive there,
the bytes of a list and the two readers, is a recursive function, that is, any function
with the recursive equation. Such a function is first shown to exist (`FlatteningExists`,
`ParserExists`, `ScanExists`); what it computes then follows by induction:

- `Flat` from the first option on: one more option at the end or in front adds its bytes
  there (`FlatAppend`, `FlatCons`), so that the bytes of a list begin with those of its
  first options (`FlatBegins`). With that the tests `serialize_option_list` makes for each
  option come to one comparison (`FitsWhenRoom`, for `RoomIsUsed`).
- `ParserFinds`, from the end of the bytes backwards: what is parsed from a place on stands
  there, one option behind the other, with END behind them if and only if the parser
  accepts (for `ParserKeeps` and `TypeCorrect`).
- `WrittenIsParsed`, from the last option of a list to its first: where the bytes of an
  option begin the parser reads that option (`NextStands`) and goes on where the next
  ones begin (for `RoundTrip`).
- `ReadersAgree`, from the end of the bytes backwards, for both readers at once: where the
  parser accepts, the scan has not left the bytes received, and what it returns is the
  type in the options parsed (`IsTypeIn`, for `ScanAgreesWithSearch`).

The inductive invariant `OInv` says, besides the types, that `written` and the results are
what these functions make of the list and the datagram.

The assumptions: `ThreadsAssumption` (main is no worker, nobody is neither),
`QueueSizeAssumption`; `PoolAssumption` (the pool does not begin at 0.0.0.0, the
value `offer_ip_available` uses for none); `HlenAssumption` (`hlen` from 0 to
208: a copy of more than the 16 bytes of `chaddr` goes on with `sname` and `file`, and one of
more than 208 would put the datagram's options over those of the reply);
`StationAssumption` (in the exchange, clients have different Ethernet addresses); `PlacesAssumption` (elements, the
head and NULL are distinct, and memory is finite); `AddressAssumption` and
`TextAssumption` (addresses are 32-bit numbers, and texts and unwritten variables are
told from numbers); `TransactionsAssumption` (the bound is a number and the clients are
finitely many) and `ChannelAssumption` (the transaction numbers and the `hlen` of the
clients are among those of `DhcpServer`); `RadixAssumption` (a byte has at least two values
in `IpPoolManager`, and in `Options` room for PAD, END and the message type, which differ)
and `LengthAssumption` (`cident_len` fits its byte); `ScanAssumption` (the scan goes at least to the end of the buffer,
308 against 272 bytes) and `BoundsAssumption` (what is received fits the buffer, since
`recvfrom` is given its size).

**Only model-checked.** Liveness and fairness, which are beyond the prover:
`EveryTaskHandled`, the fair part of `ImplementsChannel`, `CleanupEnds`,
`RequestIsConfirmed` and `DiscoverIsServed`. Every other property of a passing run is
proved. The five properties that TLC refutes have their counterexamples in section 4 and
nothing to prove.

## 6. What is not modelled, and why

- The layout of replies, printed text and logs: no handler's state depends on them.
- Datagrams with a `hlen` from 209 on, whose copy reaches the options of the reply
  (`HlenAssumption`); `sname` and `file` as such: the bytes a client sends from `chaddr`
  on are those of `Prefix`, the same in all its datagrams.
- What a write past `netmask[6]` does besides damaging `subnet`: `ReadSubnet` leaves subnet
  and netmask open, and every other variable as it was.
- Different bytes behind a received datagram: `Memory` has one byte, any one, repeated.
- A second handler running at once: the program is built with one worker. The
  unprotected accesses to the list are listed as a hazard.
- A pool that no range line has set: `ConfigReader` shows that `main` then serves with
  what its stack held; `DhcpServer` begins with a pool.
- The conversions of texts to option values in `options.c` (`parse_byte`, `parse_ip` and
  the others): `parse_option` takes a value of any length from them. The file is in no
  build rule and nothing calls it.
- A failed `pthread_create` and the socket set-up: they come before the first behaviour.

## 7. Plan

Done, in this order: the task queue with its channel and proofs; the bindings,
the server with its ledger, its claims and its first proofs; the list at the level of
pointers with proofs; the pool library; the exchange between clients and server, with
restarts; the configuration reader with proofs; the options; the rest of the proofs about
the server, the refinement of its ledger included; the proofs about the exchange.

The proofs about the pool library, the loop and the refinement of the binding list, the
types of the exchange and the options came last.

Next, by importance:

1. The composition of `TaskQueue` with `DhcpServer`: the worker's `TakeRequest` as the
   channel's `Take`, with the server's safety properties carried over to datagrams that pass through
   the queue.
2. What leads to the liveness properties and can be proved without fairness: that a step
   of each loop is always possible until it ends, and that it brings the end nearer.
