----------------------------- MODULE DhcpServer ------------------------------
(***************************************************************************)
(* The DHCP server proper (server_connection.c): handle_client and the     *)
(* handlers it dispatches to, with the address pool, the binding list and  *)
(* the part of the configuration they change.  THREAD_NUM is 1, so one     *)
(* worker runs the handlers one after the other; main shares only the task *)
(* queue with it (TaskQueue), from which the worker takes a datagram here. *)
(* Any datagram may be next, so losing, repeating, delaying and reordering *)
(* them on the network is covered.  The process may end and be started     *)
(* again; nothing is stored, so a new life begins with an empty list.      *)
(***************************************************************************)
EXTENDS BindingSearch

CONSTANTS
  Clients,          \* who sends datagrams; Prefix has their hardware addresses
  Hlens,            \* the lengths of them that datagrams carry (hlen)
  Xids,             \* the transaction numbers that datagrams carry
  ipFirst, ipLast,  \* pool->ip_first and pool->ip_last, set at the start
  MaxLease,         \* config->max_lease_time, in ticks of now
  None,             \* no datagram in the worker's hands; no reply sent
  MaxTime,          \* bound of the model: the clock stops there
  MaxLives          \* bound of the model: how often the process is started

ASSUME PoolAssumption == /\ ipFirst \in Nat \ {0}
                         /\ ipLast \in Nat
\* A copy of more than the 16 bytes of chaddr goes on with sname and file, in
\* datagram and reply alike; one of more than these 208 bytes would also put
\* the datagram's options over those of the reply.
ASSUME HlenAssumption == Hlens \subseteq 0 .. 208
ASSUME XidAssumption == Xids \subseteq Nat \ {0}
ASSUME LeaseAssumption == MaxLease \in Nat
ASSUME BoundsAssumption == MaxTime \in Nat /\ MaxLives \in Nat \ {0}

VARIABLES
  ip_current,  \* pool->ip_current, the address handed out last
  bindings,    \* the binding list, newest first
  dns,         \* config->dns[0]
  request,     \* the datagram in the worker's hands
  reply,       \* the reply sendto accepted in the last handler, or None
  now,         \* time(NULL)
  process,     \* "running" or "exited"
  life,        \* how often the process was started
  told         \* history: which station was told which address in this life

vars == <<ip_current, bindings, dns, request, reply, now, process, life, told>>

(* The values of DHCP option 53 (enum dhcp_msg_type of options.h). *)
DHCP_DISCOVER == 1
DHCP_OFFER    == 2
DHCP_REQUEST  == 3
DHCP_DECLINE  == 4
DHCP_ACK      == 5
DHCP_NAK      == 6
DHCP_RELEASE  == 7
DHCP_INFORM   == 8

BOOTREQUEST == 1
BOOTREPLY   == 2

ETHERNET_LEN == 6    \* the identifier length send_DHCP_Ack searches with

Addresses == ipFirst .. ipLast
Times == 0 .. MaxTime + MaxLease

(* config->dns[0]: what main's uninitialised struct holds, what the        *)
(* configuration file names, or what send_DHCP_Ack stores.                 *)
Unset == "unset"
FileDns == "file"
AckDns == "8.8.8.8"

\* A received datagram: what get_dhcp_message_type makes of its options and
\* the header fields the handlers read.
Datagram(op, xid, type, chaddr, hlen, ciaddr, yiaddr) ==
  [op |-> op, xid |-> xid, type |-> type, chaddr |-> chaddr, hlen |-> hlen,
   ciaddr |-> ciaddr, yiaddr |-> yiaddr]

\* The datagrams that can arrive: every type with the fields its handler reads
\* and, for a REQUEST, the address the client wants to keep (ciaddr), which
\* its handler does not read; all other fields are 0. get_dhcp_message_type
\* returns 0 when it finds no type. A datagram that is no BOOTREQUEST or has
\* xid 0 is ignored whatever it holds.
Plain(type, c, h, x) == Datagram(BOOTREQUEST, x, type, c, h, 0, 0)

DatagramsOf(c, h, x) ==
  {Plain(type, c, h, x) : type \in 0 .. 8}
    \union {[Plain(type, c, h, x) EXCEPT !.yiaddr = a] :
              type \in {DHCP_DECLINE, DHCP_ACK}, a \in Addresses}
    \union {[Plain(type, c, h, x) EXCEPT !.ciaddr = a] :
              type \in {DHCP_REQUEST, DHCP_RELEASE}, a \in Addresses}
    \union {[Plain(DHCP_DISCOVER, c, h, x) EXCEPT !.op = BOOTREPLY],
            [Plain(DHCP_DISCOVER, c, h, x) EXCEPT !.xid = 0]}

Datagrams == UNION {DatagramsOf(c, h, x) : c \in Clients, h \in Hlens, x \in Xids}

\* A reply to m, with its xid and the first hlen bytes of its chaddr. until is
\* the time the lease in it ends for a client that gets it at once; a reply
\* without an address or a server list has 0 or "none".
Reply(type, m, yiaddr, until, dnsOption) ==
  [type |-> type, xid |-> m.xid, chaddr |-> m.chaddr, hlen |-> m.hlen,
   yiaddr |-> yiaddr, until |-> until, dns |-> dnsOption]

-----------------------------------------------------------------------------
\* main, up to the start of the worker: the pool and the list as
\* read_config_dhcp and init_binding_list leave them.
Init == /\ ip_current = ipFirst
        /\ bindings = <<>>
        /\ dns \in {Unset, FileDns}
        /\ request = None
        /\ reply = None
        /\ now = 0
        /\ process = "running"
        /\ life = 1
        /\ told = {}

-----------------------------------------------------------------------------
(* The address pool *)

\* A faulty form: the test leaves out the last address.
AvailableBelowLast(ip) ==
  /\ ip \in ipFirst .. ipLast - 1
  /\ \A i \in 1 .. Len(bindings) : bindings[i].address # ip

is_ip_available(ip) == /\ ip \in Addresses
                       /\ \A i \in 1 .. Len(bindings) : bindings[i].address # ip

\* offer_ip_available finds ip: the first free address above the cursor.
offer_ip_available(ip) == /\ ip \in ip_current + 1 .. ipLast
                          /\ is_ip_available(ip)
                          /\ \A j \in ip_current + 1 .. ip - 1 : ~ is_ip_available(j)

PoolEmpty == \A ip \in ip_current + 1 .. ipLast : ~ is_ip_available(ip)

-----------------------------------------------------------------------------
(* The handlers; m is the datagram.  sendto may fail in each of them, and  *)
(* all but send_DHCP_Offer then call exit.                                 *)

\* The Ethernet address of a client, by which send_DHCP_Ack tells them apart.
Station(c) == Prefix[c][ETHERNET_LEN]

Told(c, ip) == told \union {[client |-> Station(c), address |-> ip]}

Unsent == reply' = None

\* sendto accepts r, or it fails and the handler ends the process.
SendOrExit(r) == \/ reply' = r /\ UNCHANGED process
                 \/ Unsent /\ process' = "exited"

\* Faulty forms, which show that the properties below tell them apart, stand
\* before the definitions they vary.

\* The status is not set.
NewBindingNoStatus(m, ip) ==
  [address |-> ip, cident_len |-> m.hlen, cident |-> m.chaddr,
   binding_time |-> now, lease_time |-> now + MaxLease,
   status |-> 0, is_static |-> DYNAMIC]

\* The binding waits for the REQUEST.
NewBindingPending(m, ip) ==
  [address |-> ip, cident_len |-> m.hlen, cident |-> m.chaddr,
   binding_time |-> now, lease_time |-> now + MaxLease,
   status |-> PENDING, is_static |-> DYNAMIC]

NewBinding(m, ip) ==
  [address |-> ip, cident_len |-> m.hlen, cident |-> m.chaddr,
   binding_time |-> now, lease_time |-> now + MaxLease,
   status |-> ASSOCIATED, is_static |-> DYNAMIC]

\* The cursor stays where it was.
TakeAddressNoCursor(m, ip) ==
  /\ offer_ip_available(ip)
  /\ bindings' = LIST_INSERT_HEAD(bindings, NewBinding(m, ip))
  /\ reply' = Reply(DHCP_OFFER, m, ip, now + MaxLease, "none")
  /\ told' = Told(m.chaddr, ip)
  /\ UNCHANGED ip_current

\* The OFFER names the address after the one that is bound.
TakeAddressOffersNext(m, ip) ==
  /\ offer_ip_available(ip)
  /\ ip_current' = ip
  /\ bindings' = LIST_INSERT_HEAD(bindings, NewBinding(m, ip))
  /\ reply' = Reply(DHCP_OFFER, m, ip + 1, now + MaxLease, "none")
  /\ told' = Told(m.chaddr, ip)

\* An address is taken. malloc may then return NULL, which loses it; a failed
\* sendto leaves the binding in the list.
TakeAddress(m, ip) ==
  /\ offer_ip_available(ip)
  /\ ip_current' = ip
  /\ \/ Unsent /\ UNCHANGED <<bindings, told>>
     \/ /\ bindings' = LIST_INSERT_HEAD(bindings, NewBinding(m, ip))
        /\ \/ Unsent /\ UNCHANGED told
           \/ /\ reply' = Reply(DHCP_OFFER, m, ip, now + MaxLease, "none")
              /\ told' = Told(m.chaddr, ip)

send_DHCP_Offer(m) ==
  /\ UNCHANGED <<dns, process>>
  /\ \/ /\ ip_current >= ipLast \/ PoolEmpty
        /\ Unsent
        /\ UNCHANGED <<ip_current, bindings, told>>
     \/ /\ ip_current < ipLast
        /\ \E ip \in Addresses : TakeAddress(m, ip)

\* The search has the fixed length ETHERNET_LEN, not hlen, and takes the
\* client's newest binding whatever address the REQUEST asks for.
send_DHCP_Ack(m) ==
  /\ UNCHANGED <<ip_current, bindings>>
  /\ \E p \in 0 .. Len(bindings) :
       /\ search_binding(bindings, m.chaddr, ETHERNET_LEN, STATIC_OR_DYNAMIC, ASSOCIATED, p)
       /\ \/ p = 0 /\ Unsent /\ UNCHANGED <<dns, told, process>>
          \/ /\ p # 0
             /\ dns' = AckDns
             /\ SendOrExit(Reply(DHCP_ACK, m, bindings[p].address,
                                 now + MaxLease, AckDns))
             /\ told' = IF reply' = None THEN told
                        ELSE Told(m.chaddr, bindings[p].address)

\* A declined address goes back to the pool.
DeclineReturnsAddress(m) ==
  /\ Unsent
  /\ UNCHANGED <<dns, process, told>>
  /\ \E p \in 0 .. Len(bindings) :
       /\ search_binding(bindings, m.chaddr, m.hlen, DYNAMIC, ASSOCIATED, p)
       /\ IF p # 0 /\ bindings[p].address = m.yiaddr
            THEN /\ bindings' = remove_binding(bindings, p)
                 /\ ip_current' = bindings[p].address - 1
            ELSE UNCHANGED <<bindings, ip_current>>

handle_DHCP_Decline(m) ==
  /\ Unsent
  /\ UNCHANGED <<ip_current, dns, process, told>>
  /\ \E p \in 0 .. Len(bindings) :
       /\ search_binding(bindings, m.chaddr, m.hlen, DYNAMIC, ASSOCIATED, p)
       /\ IF p # 0 /\ bindings[p].address = m.yiaddr
            THEN bindings' = remove_binding(bindings, p)
            ELSE UNCHANGED bindings

\* The client's newest binding is released, whatever address is named.
ReleaseNewest(m) ==
  /\ Unsent
  /\ UNCHANGED <<ip_current, dns, process, told>>
  /\ \E p \in 0 .. Len(bindings) :
       /\ search_binding(bindings, m.chaddr, m.hlen, STATIC_OR_DYNAMIC, ASSOCIATED, p)
       /\ IF p # 0
            THEN bindings' = [bindings EXCEPT ![p].status = RELEASED,
                                              ![p].lease_time = 0]
            ELSE UNCHANGED bindings

\* The binding and its lease are made to begin anew.
ReleaseStampsTime(m) ==
  /\ Unsent
  /\ UNCHANGED <<ip_current, dns, process, told>>
  /\ \E p \in 0 .. Len(bindings) :
       /\ search_binding(bindings, m.chaddr, m.hlen, STATIC_OR_DYNAMIC, ASSOCIATED, p)
       /\ IF p # 0 /\ bindings[p].address = m.ciaddr
            THEN bindings' = [bindings EXCEPT ![p].status = RELEASED,
                                              ![p].lease_time = now + MaxLease,
                                              ![p].binding_time = now]
            ELSE UNCHANGED bindings

handle_DHCP_Release(m) ==
  /\ Unsent
  /\ UNCHANGED <<ip_current, dns, process, told>>
  /\ \E p \in 0 .. Len(bindings) :
       /\ search_binding(bindings, m.chaddr, m.hlen, STATIC_OR_DYNAMIC, ASSOCIATED, p)
       /\ IF p # 0 /\ bindings[p].address = m.ciaddr
            THEN bindings' = [bindings EXCEPT ![p].status = RELEASED,
                                              ![p].lease_time = 0]
            ELSE UNCHANGED bindings

handle_DHCP_Inform_Reply(m) ==
  /\ UNCHANGED <<ip_current, bindings, dns, told>>
  /\ SendOrExit(Reply(DHCP_INFORM, m, 0, 0, dns))

send_DHCP_NACK(m) ==
  /\ UNCHANGED <<ip_current, bindings, dns, told>>
  /\ SendOrExit(Reply(DHCP_NAK, m, 0, 0, "none"))

Ignore == Unsent /\ UNCHANGED <<ip_current, bindings, dns, process, told>>

\* The dispatch on op, xid and message type. A DECLINE is taken on case 5.
handle_client(m) ==
  IF m.op # BOOTREQUEST \/ m.xid = 0 THEN Ignore
  ELSE CASE m.type = DHCP_DISCOVER -> send_DHCP_Offer(m)
         [] m.type = DHCP_REQUEST  -> send_DHCP_Ack(m)
         [] m.type = DHCP_ACK      -> handle_DHCP_Decline(m)
         [] m.type = DHCP_RELEASE  -> handle_DHCP_Release(m)
         [] m.type = DHCP_INFORM   -> handle_DHCP_Inform_Reply(m)
         [] m.type = DHCP_NAK      -> send_DHCP_NACK(m)
         [] OTHER                  -> Ignore

-----------------------------------------------------------------------------
\* The worker takes the next datagram out of the queue.
TakeRequest == /\ process = "running"
               /\ request = None
               /\ request' \in Datagrams
               /\ reply' = None
               /\ UNCHANGED <<ip_current, bindings, dns, now, process, life, told>>

\* The worker handles it; nothing else touches the state it works on.
HandleRequest == /\ process = "running"
                 /\ request # None
                 /\ handle_client(request)
                 /\ request' = None
                 /\ UNCHANGED <<now, life>>

\* recvfrom fails and main returns, whatever the worker is doing.
ReceiveFails == /\ process = "running"
                /\ process' = "exited"
                /\ UNCHANGED <<ip_current, bindings, dns, request, reply, now, life, told>>

Tick == /\ now < MaxTime
        /\ now' = now + 1
        /\ UNCHANGED <<ip_current, bindings, dns, request, reply, process, life, told>>

\* The process is started again; it reads the same configuration file, and
\* finds no trace of its earlier bindings.
Restart == /\ process = "exited"
           /\ life < MaxLives
           /\ life' = life + 1
           /\ process' = "running"
           /\ ip_current' = ipFirst
           /\ bindings' = <<>>
           /\ dns' \in {Unset, FileDns}
           /\ request' = None
           /\ reply' = None
           /\ told' = {}
           /\ UNCHANGED now

\* The last life the model has room for is over.
Rest == /\ process = "exited"
        /\ life = MaxLives
        /\ UNCHANGED vars

Next == \/ TakeRequest
        \/ HandleRequest
        \/ ReceiveFails
        \/ Tick
        \/ Restart
        \/ Rest

Spec == Init /\ [][Next]_vars

-----------------------------------------------------------------------------
(* Properties *)

Replies == [type : {DHCP_OFFER, DHCP_ACK, DHCP_NAK, DHCP_INFORM},
            xid : Xids, chaddr : Clients, hlen : Hlens,
            yiaddr : Addresses \union {0}, until : Times,
            dns : {Unset, FileDns, AckDns, "none"}]

Stations == {Station(c) : c \in Clients}

TypeOK == /\ ip_current \in Addresses \union {ipFirst}
          /\ bindings \in Seq(Binding(Addresses, Clients, Times))
          /\ dns \in {Unset, FileDns, AckDns}
          /\ request \in Datagrams \union {None}
          /\ reply \in Replies \union {None}
          /\ now \in 0 .. MaxTime
          /\ process \in {"running", "exited"}
          /\ life \in 1 .. MaxLives
          /\ told \subseteq [client : Stations, address : Addresses]

\* The binding list is sorted from the newest address to the oldest and stays
\* between the first address and the cursor, whatever is declined out of its
\* middle: no address is in two bindings.
NewestFirst ==
  /\ \A i \in 1 .. Len(bindings) : bindings[i].address \in ipFirst + 1 .. ip_current
  /\ \A i, j \in 1 .. Len(bindings) :
       i < j => bindings[i].address > bindings[j].address

\* The list is sorted by age as well: of two bindings the one with the higher
\* address was made no earlier, so that the first active binding of a client,
\* which send_DHCP_Ack confirms, is the client's latest.
NewestIsYoungest ==
  \A i, j \in 1 .. Len(bindings) :
    bindings[i].address > bindings[j].address
      => bindings[i].binding_time >= bindings[j].binding_time

\* While the cursor is below the end of the pool, the address after it is
\* free: the loop of offer_ip_available finds an address in its first
\* iteration, so that it never fails with addresses left above the cursor.
NextIsFree == ip_current < ipLast => is_ip_available(ip_current + 1)

\* While the process lives, an address is announced, in an OFFER or an ACK, to
\* one station only: whatever is offered, confirmed, released, declined,
\* repeated or lost, and with whatever hlen, none with another Ethernet address
\* is told of it.
OneClientPerAddress ==
  \A s, t \in told : s.address = t.address => s.client = t.client

Active(c) == {i \in 1 .. Len(bindings) : /\ Station(bindings[i].cident) = Station(c)
                                         /\ bindings[i].cident_len = ETHERNET_LEN
                                         /\ bindings[i].status = ASSOCIATED}

\* An ACK confirms the address that was bound last among those the client
\* still holds, so that a client that asked twice and was offered two
\* addresses is confirmed the later one, and it never confirms an address the
\* client released or declined.
AckServesNewest ==
  [][reply' # reply /\ reply' # None /\ reply'.type = DHCP_ACK
       => /\ \E i \in Active(reply'.chaddr) : bindings[i].address = reply'.yiaddr
          /\ \A i \in Active(reply'.chaddr) : bindings[i].address <= reply'.yiaddr]_vars

\* Binding b carries the identifier of datagram m: its length and its bytes.
Carries(b, m) == /\ b.cident_len = m.hlen
                 /\ SameBytes(b.cident, m.chaddr, m.hlen)

\* The bindings in the list that carry another identifier than datagram m.
OtherBindings(list, m) == {b \in {list[i] : i \in 1 .. Len(list)} : ~ Carries(b, m)}

\* A datagram changes the bindings with the identifier it bears and no other: a
\* DECLINE or a RELEASE of somebody's address leaves it alone, unless the first
\* hlen bytes of both, which may be few or none, are the same.
OthersKeepBindings ==
  [][request # None /\ life' = life
       => OtherBindings(bindings', request) = OtherBindings(bindings, request)]_vars

\* The abstract state of address a, when list is the binding list and cursor
\* the address handed out last.
EntryOf(list, cursor, a) ==
  LET bound == {i \in 1 .. Len(list) : list[i].address = a}
      b == list[CHOOSE i \in bound : TRUE]
  IN IF bound # {}
       THEN [status |-> IF b.status = ASSOCIATED THEN "leased" ELSE "released",
             client |-> Station(b.cident)]
       ELSE [status |-> IF a \in ipFirst + 1 .. cursor THEN "gone" ELSE "free",
             client |-> None]

LedgerEntry(a) == EntryOf(bindings, ip_current, a)

Ledger == INSTANCE AddressLedger WITH
            Clients <- Stations,
            Nobody <- None,
            ledger <- [a \in Addresses |-> LedgerEntry(a)]

\* Within a life, the server keeps the promises of AddressLedger.
ImplementsLedger == Ledger!Spec
==============================================================================
