------------------------- MODULE DhcpExchangeProofs --------------------------
(***************************************************************************)
(* Proofs about DhcpExchange, for any clients, any pool and any number of  *)
(* transactions: what a client holds is bound to it in the server's list,  *)
(* and no two clients hold one address, whatever the network does.         *)
(***************************************************************************)
EXTENDS DhcpExchange, DhcpServerProofs, FiniteSetTheorems

USE DEF ASSOCIATED, RELEASED, ETHERNET_LEN, DHCP_DISCOVER, DHCP_OFFER, DHCP_REQUEST,
        DHCP_ACK, DHCP_NAK, DHCP_RELEASE, DHCP_INFORM

(* The invariant.  What a client was offered or confirmed must outlive the *)
(* datagrams it sent earlier: a RELEASE that is still under way names a    *)
(* lower address than any the client took up since it sent it.             *)

Phases == {"idle", "selecting", "requesting", "bound", "renewing"}
ClientRecord == [phase : Phases, xid : Nat, address : Addresses \union {NoAddress}]

\* The datagrams the server has yet to handle.
Underway == datagrams \union ({request} \ {None})

\* m was sent by its client, in this transaction or an earlier one, and if it
\* is a RELEASE, it names an address that was handed out.
Sent(m) == /\ m.type \in {DHCP_DISCOVER, DHCP_REQUEST, DHCP_RELEASE}
           /\ m.chaddr \in Clients
           /\ m.hlen = ETHERNET_LEN
           /\ m.xid \in Nat /\ m.xid <= client[m.chaddr].xid
           /\ m.type = DHCP_RELEASE => m.ciaddr \in Addresses /\ m.ciaddr <= ip_current

\* Client c has an active binding of address a.
BoundNow(c, a) == \E i \in Active(c) : bindings[i].address = a

\* No RELEASE under way can take a, or a higher address, away from c.
BeyondReleases(c, a) ==
  \A m \in Underway : m.type = DHCP_RELEASE /\ m.chaddr = c => m.ciaddr < a

Fresh(c, a) == c \in Clients /\ a \in Addresses /\ BoundNow(c, a) /\ BeyondReleases(c, a)

AllSent == \A m \in Underway : Sent(m)
AllTakeable == \A r \in replies : \E c \in Clients : Takes(c, r)
HasAddress(c, a) == /\ InPhase(c, {"requesting", "bound", "renewing"})
                    /\ client[c].address = a
AddressesFresh ==
  \A c \in Clients, a \in Addresses \union {NoAddress} : HasAddress(c, a) => Fresh(c, a)
RepliesFresh ==
  \A r \in replies, c \in Clients : Takes(c, r) => Fresh(c, r.yiaddr)

EInv == /\ IInv
        /\ client \in [Clients -> ClientRecord]
        /\ AllSent
        /\ AllTakeable
        /\ AddressesFresh
        /\ RepliesFresh

-----------------------------------------------------------------------------
(* What the server does to a client's bindings *)

\* Of what clients send, only three types are dispatched.
LEMMA SentDispatch ==
  ASSUME NEW m, Sent(m), handle_client(m)
  PROVE  \/ Ignore
         \/ m.type = DHCP_DISCOVER /\ send_DHCP_Offer(m)
         \/ m.type = DHCP_REQUEST /\ send_DHCP_Ack(m)
         \/ m.type = DHCP_RELEASE /\ handle_DHCP_Release(m)
BY DEF Sent, handle_client

\* A DISCOVER leaves the active bindings alone. An OFFER that is sent names the
\* address after the cursor, and its client has a binding of it.
LEMMA OfferBinds ==
  ASSUME IInv, NEW m \in Datagrams, Sent(m), send_DHCP_Offer(m)
  PROVE  /\ \A c, a : BoundNow(c, a) => BoundNow(c, a)'
         /\ ip_current' \in Int /\ ip_current' >= ip_current
         /\ reply' # None => /\ reply'.chaddr = m.chaddr
                             /\ \E ip \in Addresses : /\ reply'.yiaddr = ip
                                                      /\ ip > ip_current
                                                      /\ BoundNow(m.chaddr, ip)'
<1>0. Len(bindings) \in Nat /\ ip_current \in Int
  BY ListFacts DEF IInv
<1>1. CASE UNCHANGED <<ip_current, bindings>> /\ Unsent
  BY <1>0, <1>1 DEF Unsent, BoundNow, Active
<1>2. ASSUME NEW ip \in Addresses, TakeAddress(m, ip)
      PROVE  /\ \A c, a : BoundNow(c, a) => BoundNow(c, a)'
             /\ ip_current' \in Int /\ ip_current' >= ip_current
             /\ reply' # None => /\ reply'.chaddr = m.chaddr
                                 /\ \E a \in Addresses : /\ reply'.yiaddr = a
                                                          /\ a > ip_current
                                                          /\ BoundNow(m.chaddr, a)'
  <2>1. ip_current' = ip /\ ip = ip_current + 1
    BY <1>2, OfferIsNext DEF TakeAddress, IInv
  <2>2. CASE Unsent /\ UNCHANGED bindings
    BY <1>0, <2>1, <2>2 DEF Unsent, BoundNow, Active
  <2>3. CASE bindings' = LIST_INSERT_HEAD(bindings, NewBinding(m, ip))
    <3>1. /\ Len(bindings') = Len(bindings) + 1
          /\ bindings'[1] = NewBinding(m, ip)
          /\ \A i \in 2 .. Len(bindings) + 1 : bindings'[i] = bindings[i - 1]
      BY <2>3, Inserted DEF IInv
    <3>2. ASSUME NEW c, NEW a, BoundNow(c, a) PROVE BoundNow(c, a)'
      <4>1. PICK i \in Active(c) : bindings[i].address = a
        BY <3>2 DEF BoundNow
      <4>2. i \in 1 .. Len(bindings)
        BY DEF Active
      <4>3. i + 1 \in 2 .. Len(bindings) + 1 /\ i + 1 \in 1 .. Len(bindings') /\ (i + 1) - 1 = i
        BY <1>0, <3>1, <4>2
      <4>4. bindings'[i + 1] = bindings[i]
        BY <3>1, <4>3
      <4> QED
        BY <4>1, <4>3, <4>4 DEF BoundNow, Active
    <3>3. BoundNow(m.chaddr, ip)'
      <4>1. 1 \in 1 .. Len(bindings')
        BY <1>0, <3>1
      <4>2. /\ bindings'[1].address = ip /\ bindings'[1].cident = m.chaddr
            /\ bindings'[1].cident_len = ETHERNET_LEN /\ bindings'[1].status = ASSOCIATED
        BY <3>1 DEF NewBinding, Sent
      <4> QED
        BY <4>1, <4>2 DEF BoundNow, Active
    <3>4. reply' # None => reply'.chaddr = m.chaddr /\ reply'.yiaddr = ip
      BY <1>2 DEF TakeAddress, Unsent, Reply
    <3>5. ip > ip_current /\ ip \in Int
      BY <1>0, <2>1
    <3>6. \A c, a : BoundNow(c, a) => BoundNow(c, a)'
      BY <3>2
    <3>7. reply' # None
            => /\ reply'.chaddr = m.chaddr
               /\ \E a \in Addresses : /\ reply'.yiaddr = a
                                        /\ a > ip_current
                                        /\ BoundNow(m.chaddr, a)'
      BY <3>3, <3>4, <3>5
    <3>8. ip_current' \in Int /\ ip_current' >= ip_current
      BY <1>0, <2>1, <3>5
    <3> QED
      BY <3>6, <3>7, <3>8
  <2> QED
    BY <1>2, <2>2, <2>3 DEF TakeAddress
<1> QED
  BY <1>1, <1>2 DEF send_DHCP_Offer

\* A RELEASE takes no binding away but that of the address it names.
LEMMA ReleaseTakesOne ==
  ASSUME IInv, NEW m \in Datagrams, Sent(m), handle_DHCP_Release(m)
  PROVE  /\ \A c, a : BoundNow(c, a) /\ (Station(c) = Station(m.chaddr) => a # m.ciaddr)
                      => BoundNow(c, a)'
         /\ reply' = None /\ UNCHANGED ip_current
<1>1. reply' = None /\ UNCHANGED ip_current
  BY DEF handle_DHCP_Release, Unsent
<1>2. PICK p \in 0 .. Len(bindings) :
        /\ search_binding(bindings, m.chaddr, m.hlen, STATIC_OR_DYNAMIC, ASSOCIATED, p)
        /\ IF p # 0 /\ bindings[p].address = m.ciaddr
             THEN bindings' = [bindings EXCEPT ![p].status = RELEASED, ![p].lease_time = 0]
             ELSE UNCHANGED bindings
  BY DEF handle_DHCP_Release
<1>3. CASE UNCHANGED bindings
  BY <1>1, <1>3 DEF BoundNow, Active
<1>4. CASE /\ p # 0 /\ bindings[p].address = m.ciaddr
           /\ bindings' = [bindings EXCEPT ![p].status = RELEASED, ![p].lease_time = 0]
  <2>1. p \in 1 .. Len(bindings) /\ Station(bindings[p].cident) = Station(m.chaddr)
    <3>1. p \in 1 .. Len(bindings) /\ SameBytes(bindings[p].cident, m.chaddr, m.hlen)
      BY <1>2, <1>4, SearchFinds DEF IInv
    <3> QED
      BY <3>1 DEF SameBytes, Station, Sent
  <2>2. bindings' = WithReleased(bindings, p) /\ bindings \in Seq(ABinding)
    BY <1>4, ListFacts DEF WithReleased, IInv
  <2>3. /\ Len(bindings') = Len(bindings)
        /\ \A i \in 1 .. Len(bindings) : i # p => bindings'[i] = bindings[i]
    BY <2>1, <2>2, ReleaseAt
  <2>4. ASSUME NEW c, NEW a, BoundNow(c, a), Station(c) = Station(m.chaddr) => a # m.ciaddr
        PROVE  BoundNow(c, a)'
    <3>1. PICK i \in Active(c) : bindings[i].address = a
      BY <2>4 DEF BoundNow
    <3>2. i \in 1 .. Len(bindings) /\ Station(bindings[i].cident) = Station(c)
      BY DEF Active
    <3>3. i # p
      BY <1>4, <2>1, <2>4, <3>1, <3>2
    <3> QED
      BY <2>3, <3>1, <3>2, <3>3 DEF BoundNow, Active
  <2> QED
    BY <1>1, <2>4
<1> QED
  BY <1>2, <1>3, <1>4

\* An ACK names the newest address its client has an active binding of.
LEMMA AckNamesNewest ==
  ASSUME IInv, NEW m \in Datagrams, send_DHCP_Ack(m)
  PROVE  /\ \A c, a : BoundNow(c, a) <=> BoundNow(c, a)'
         /\ UNCHANGED ip_current
         /\ reply' # None => /\ reply'.chaddr = m.chaddr
                             /\ reply'.yiaddr \in Addresses
                             /\ BoundNow(m.chaddr, reply'.yiaddr)
                             /\ \A a \in Addresses : BoundNow(m.chaddr, a) => a <= reply'.yiaddr
<1>1. UNCHANGED <<ip_current, bindings>>
  BY DEF send_DHCP_Ack
<1>2. PICK p \in 0 .. Len(bindings) :
        /\ search_binding(bindings, m.chaddr, ETHERNET_LEN, STATIC_OR_DYNAMIC, ASSOCIATED, p)
        /\ reply' # None => p # 0 /\ reply'.chaddr = m.chaddr
                                  /\ reply'.yiaddr = bindings[p].address
  BY DEF send_DHCP_Ack, SendOrExit, Unsent, Reply
<1>3. ASSUME reply' # None
      PROVE  /\ reply'.yiaddr \in Addresses
             /\ BoundNow(m.chaddr, reply'.yiaddr)
             /\ \A a \in Addresses : BoundNow(m.chaddr, a) => a <= reply'.yiaddr
  <2>1. /\ p \in Active(m.chaddr)
        /\ \A i \in Active(m.chaddr) : bindings[i].address <= bindings[p].address
    BY <1>2, <1>3, FirstIsNewest
  <2>2. bindings[p].address \in Addresses
    BY <2>1, ListFacts DEF IInv, Active, ABinding, Binding
  <2> QED
    BY <1>2, <1>3, <2>1, <2>2 DEF BoundNow
<1> QED
  BY <1>1, <1>2, <1>3 DEF BoundNow, Active

-----------------------------------------------------------------------------
(* The clients *)

\* What is fresh stays so while the list does not change and its client sends
\* no RELEASE.
LEMMA FreshStays ==
  ASSUME UNCHANGED bindings, NEW c, NEW a, Fresh(c, a),
         \A m \in Underway' : m \in Underway \/ m.type # DHCP_RELEASE \/ m.chaddr # c
  PROVE  Fresh(c, a)'
BY DEF Fresh, BoundNow, Active, BeyondReleases

\* What is fresh now was handed out.
LEMMA FreshPassed ==
  ASSUME IInv, NEW c, NEW a, Fresh(c, a)
  PROVE  a \in Addresses /\ a <= ip_current
BY ListFacts DEF Fresh, BoundNow, Active, IInv, NewestFirst

\* Client c becomes rec and may send one datagram; the server does nothing.
LEMMA ClientMoves ==
  ASSUME EInv, NEW c \in Clients, NEW rec \in ClientRecord,
         UNCHANGED vars, client' = [client EXCEPT ![c] = rec],
         rec.xid >= client[c].xid,
         \A m \in Underway' : \/ m \in Underway
                              \/ /\ Sent(m)'
                                 /\ m.type = DHCP_RELEASE => m.chaddr = c /\ rec.phase = "idle",
         Carry(replies), \A r \in replies : ~ Takes(c, r)',
         rec.phase \in {"requesting", "bound", "renewing"} => Fresh(c, rec.address)
  PROVE  EInv'
<1>1. IInv'
  BY StepIInv DEF EInv
<1>2. client' \in [Clients -> ClientRecord] /\ client'[c] = rec
      /\ \A d \in Clients : d # c => client'[d] = client[d]
  BY DEF EInv
<1>3. UNCHANGED <<bindings, ip_current, request>>
  BY DEF vars
<1>4. AllSent'
  <2> SUFFICES ASSUME NEW m \in Underway' PROVE Sent(m)'
    BY DEF AllSent
  <2>1. CASE m \in Underway
    <3>1. Sent(m) /\ m.chaddr \in Clients /\ m.xid \in Nat
      BY <2>1 DEF EInv, AllSent, Sent
    <3>2. client[m.chaddr].xid \in Nat /\ client'[m.chaddr].xid \in Nat
      BY <1>2, <3>1 DEF EInv, ClientRecord
    <3>3. client[m.chaddr].xid <= client'[m.chaddr].xid
      BY <1>2, <3>1, <3>2
    <3>4. m.xid <= client'[m.chaddr].xid
      BY <3>1, <3>2, <3>3 DEF Sent
    <3> QED
      BY <1>3, <3>1, <3>4 DEF Sent
  <2> QED
    BY <2>1
<1>5. AllTakeable'
  BY DEF Carry, AllTakeable
<1>6. ASSUME NEW d \in Clients, NEW a, Fresh(d, a), d = c => rec.phase # "idle"
      PROVE  Fresh(d, a)'
  <2>1. \A m \in Underway' : m \in Underway \/ m.type # DHCP_RELEASE \/ m.chaddr # d
    BY <1>6
  <2> QED
    BY <1>3, <1>6, <2>1, FreshStays
<1>7. AddressesFresh'
  <2> SUFFICES ASSUME NEW d \in Clients, NEW a \in Addresses \union {NoAddress},
                      HasAddress(d, a)'
               PROVE  Fresh(d, a)'
    BY DEF AddressesFresh
  <2>1. CASE d = c
    <3>1. rec.phase \in {"requesting", "bound", "renewing"} /\ rec.address = a
      BY <1>2, <2>1 DEF HasAddress, InPhase
    <3> QED
      BY <1>6, <2>1, <3>1
  <2>2. CASE d # c
    <3>1. HasAddress(d, a)
      BY <1>2, <2>2 DEF HasAddress, InPhase
    <3> QED
      BY <1>6, <2>2, <3>1 DEF EInv, AddressesFresh
  <2> QED
    BY <2>1, <2>2
<1>8. RepliesFresh'
  <2> SUFFICES ASSUME NEW r \in replies', NEW d \in Clients, Takes(d, r)'
               PROVE  Fresh(d, r.yiaddr)'
    BY DEF RepliesFresh
  <2>1. r \in replies /\ d # c
    BY DEF Carry
  <2>2. Takes(d, r)
    BY <1>2, <2>1 DEF Takes, InPhase
  <2> QED
    BY <1>6, <2>1, <2>2 DEF EInv, RepliesFresh
<1> QED
  BY <1>1, <1>2, <1>4, <1>5, <1>7, <1>8 DEF EInv

\* A step in which a client goes on to phase, with a REQUEST, a DISCOVER or
\* nothing to send, keeps the invariant.
LEMMA ClientAsks ==
  ASSUME EInv, NEW c \in Clients, UNCHANGED vars,
         NEW rec \in ClientRecord, client' = [client EXCEPT ![c] = rec],
         rec.xid >= client[c].xid,
         \/ UNCHANGED datagrams
         \/ Send(Message(c)') /\ rec.phase \in {"selecting", "requesting", "renewing"},
         Carry(replies), \A r \in replies : ~ Takes(c, r)',
         rec.phase \in {"requesting", "bound", "renewing"} => Fresh(c, rec.address)
  PROVE  EInv'
<1>1. client'[c] = rec /\ rec.xid \in Nat
  BY DEF EInv, ClientRecord
<1>2. ASSUME NEW m \in Underway'
      PROVE  \/ m \in Underway
             \/ /\ Sent(m)'
                /\ m.type = DHCP_RELEASE => m.chaddr = c /\ rec.phase = "idle"
  <2>1. CASE m \in Underway
    BY <2>1
  <2>2. CASE m = Message(c)' /\ rec.phase \in {"selecting", "requesting", "renewing"}
    <3>1. /\ m.type \in {DHCP_DISCOVER, DHCP_REQUEST} /\ m.chaddr = c
          /\ m.hlen = ETHERNET_LEN /\ m.xid = rec.xid
      BY <1>1, <2>2 DEF Message, Plain, Datagram
    <3> QED
      BY <1>1, <3>1 DEF Sent
  <2> QED
    BY <2>1, <2>2 DEF Underway, Send, vars
<1> QED
  BY <1>2, ClientMoves

\* No reply that is taken now is taken by a client with another transaction or
\* in a phase that waits for another type.
LEMMA TakenNoMore ==
  ASSUME EInv, NEW c \in Clients, NEW rec \in ClientRecord,
         client' = [client EXCEPT ![c] = rec],
         \/ rec.xid # client[c].xid
         \/ rec.phase \in {"idle", "bound"}
         \/ InPhase(c, {"selecting"}) /\ rec.phase = "requesting"
  PROVE  \A r \in replies : ~ Takes(c, r)'
<1> SUFFICES ASSUME NEW r \in replies, Takes(c, r)' PROVE FALSE
  OBVIOUS
<1>1. client'[c] = rec
  BY DEF EInv
<1>2. PICK d \in Clients : Takes(d, r)
  BY DEF EInv, AllTakeable
<1>3. Takes(c, r)
  BY <1>1, <1>2 DEF Takes
<1> QED
  BY <1>1, <1>3 DEF Takes, InPhase

\* Every step of a client keeps the invariant.
LEMMA ClientKeeps ==
  ASSUME EInv, NEW c \in Clients, ClientStep(c)
  PROVE  EInv'
<1>1. /\ client[c] \in ClientRecord /\ client[c].xid \in Nat /\ client[c].phase \in Phases
      /\ client[c].address \in Addresses \union {NoAddress}
  BY DEF EInv, ClientRecord
<1>2. CASE Discover(c)
  <2> DEFINE rec == [phase |-> "selecting", xid |-> client[c].xid + 1, address |-> NoAddress]
  <2>1. rec \in ClientRecord /\ rec.xid >= client[c].xid /\ rec.xid # client[c].xid
    BY <1>1 DEF ClientRecord, Phases
  <2>2. client' = [client EXCEPT ![c] = rec] /\ rec.phase = "selecting"
    BY <1>2 DEF Discover, Become
  <2>3. UNCHANGED vars /\ Send(Message(c)') /\ Carry(replies)
    BY <1>2 DEF Discover
  <2> HIDE DEF rec
  <2>4. \A r \in replies : ~ Takes(c, r)'
    BY <2>1, <2>2, TakenNoMore
  <2> QED
    BY <2>1, <2>2, <2>3, <2>4, ClientAsks
<1>3. CASE Renew(c)
  <2> DEFINE rec == [phase |-> "renewing", xid |-> client[c].xid + 1,
                     address |-> client[c].address]
  <2>1. rec \in ClientRecord /\ rec.xid >= client[c].xid /\ rec.xid # client[c].xid
    BY <1>1 DEF ClientRecord, Phases
  <2>2. client' = [client EXCEPT ![c] = rec] /\ rec.phase = "renewing"
    BY <1>3 DEF Renew, Become
  <2>3. UNCHANGED vars /\ Send(Message(c)') /\ Carry(replies)
    BY <1>3 DEF Renew
  <2>4. Fresh(c, rec.address)
    BY <1>1, <1>3 DEF Renew, EInv, AddressesFresh, HasAddress, InPhase
  <2> HIDE DEF rec
  <2>5. \A r \in replies : ~ Takes(c, r)'
    BY <2>1, <2>2, TakenNoMore
  <2> QED
    BY <2>1, <2>2, <2>3, <2>4, <2>5, ClientAsks
<1>4. CASE Repeat(c)
  <2>1. UNCHANGED <<vars, client, replies>> /\ datagrams' = datagrams \union {Message(c)}
    BY <1>4 DEF Repeat
  <2>2. Sent(Message(c)) /\ Message(c).type # DHCP_RELEASE
    BY <1>1, <1>4 DEF Repeat, Waits, InPhase, Message, Plain, Datagram, Sent
  <2>3. UNCHANGED <<bindings, ip_current, request>>
    BY <2>1 DEF vars
  <2>4. \A m \in Underway' : m \in Underway \/ m = Message(c)
    BY <2>1, <2>3 DEF Underway
  <2>5. \A m : Sent(m) => Sent(m)'
    BY <2>1, <2>3 DEF Sent
  <2>6. \A d, a : Fresh(d, a) => Fresh(d, a)'
    BY <2>2, <2>3, <2>4, FreshStays
  <2>7. \A d, a : HasAddress(d, a)' => HasAddress(d, a)
    BY <2>1 DEF HasAddress, InPhase
  <2>8. \A d, r : Takes(d, r)' <=> Takes(d, r)
    BY <2>1 DEF Takes, InPhase
  <2>9. IInv'
    BY <2>1, StepIInv DEF EInv
  <2>10. AllSent'
    BY <2>2, <2>4, <2>5 DEF EInv, AllSent
  <2>11. AllTakeable'
    BY <2>1, <2>8 DEF EInv, AllTakeable
  <2>12. AddressesFresh' /\ RepliesFresh'
    BY <2>1, <2>6, <2>7, <2>8 DEF EInv, AddressesFresh, RepliesFresh
  <2> QED
    BY <2>1, <2>9, <2>10, <2>11, <2>12 DEF EInv
<1>5. CASE GetOffer(c)
  <2>1. PICK r \in replies : /\ Takes(c, r)
                             /\ Become(c, "requesting", r.xid, r.yiaddr)
                             /\ Carry(replies)
    BY <1>5 DEF GetOffer, Receive
  <2> DEFINE rec == [phase |-> "requesting", xid |-> r.xid, address |-> r.yiaddr]
  <2>2. Fresh(c, rec.address) /\ rec.address \in Addresses
    BY <2>1 DEF EInv, RepliesFresh, Fresh
  <2>3. rec \in ClientRecord /\ rec.xid >= client[c].xid
    BY <1>1, <2>1, <2>2 DEF ClientRecord, Phases, Takes
  <2>4. client' = [client EXCEPT ![c] = rec] /\ rec.phase = "requesting"
    BY <2>1 DEF Become
  <2>5. UNCHANGED vars /\ Send(Message(c)') /\ InPhase(c, {"selecting"})
    BY <1>5 DEF GetOffer
  <2> HIDE DEF rec
  <2>6. \A q \in replies : ~ Takes(c, q)'
    BY <2>3, <2>4, <2>5, TakenNoMore
  <2> QED
    BY <2>1, <2>2, <2>3, <2>4, <2>5, <2>6, ClientAsks
<1>6. CASE GetAck(c)
  <2>1. PICK r \in replies : /\ Takes(c, r)
                             /\ Become(c, "bound", r.xid, r.yiaddr)
                             /\ Carry(replies)
    BY <1>6 DEF GetAck, Receive
  <2> DEFINE rec == [phase |-> "bound", xid |-> r.xid, address |-> r.yiaddr]
  <2>2. Fresh(c, rec.address) /\ rec.address \in Addresses
    BY <2>1 DEF EInv, RepliesFresh, Fresh
  <2>3. rec \in ClientRecord /\ rec.xid >= client[c].xid
    BY <1>1, <2>1, <2>2 DEF ClientRecord, Phases, Takes
  <2>4. client' = [client EXCEPT ![c] = rec] /\ rec.phase = "bound"
    BY <2>1 DEF Become
  <2>5. UNCHANGED <<vars, datagrams>>
    BY <1>6 DEF GetAck
  <2> HIDE DEF rec
  <2>6. \A q \in replies : ~ Takes(c, q)'
    BY <2>3, <2>4, TakenNoMore
  <2> QED
    BY <2>1, <2>2, <2>3, <2>4, <2>5, <2>6, ClientAsks
<1>7. CASE Release(c)
  <2> DEFINE rec == [phase |-> "idle", xid |-> client[c].xid, address |-> NoAddress]
  <2>0. PICK m : m = [Plain(DHCP_RELEASE, c, ETHERNET_LEN, client[c].xid)
                        EXCEPT !.ciaddr = client[c].address]
    OBVIOUS
  <2>1. rec \in ClientRecord /\ rec.xid >= client[c].xid
    BY <1>1 DEF ClientRecord, Phases
  <2>2. client' = [client EXCEPT ![c] = rec] /\ rec.phase = "idle" /\ client'[c] = rec
    BY <1>7 DEF Release, Become, EInv
  <2>3. UNCHANGED vars /\ Send(m) /\ Carry(replies)
    BY <1>7, <2>0 DEF Release
  <2>4. Fresh(c, client[c].address)
    BY <1>1, <1>7 DEF Release, EInv, AddressesFresh, HasAddress, InPhase
  <2>5. client[c].address \in Addresses /\ client[c].address <= ip_current
    BY <2>4, FreshPassed DEF EInv
  <2>6. Sent(m)' /\ m.chaddr = c
    <3>1. /\ m.type = DHCP_RELEASE /\ m.chaddr = c /\ m.hlen = ETHERNET_LEN
          /\ m.xid = client[c].xid /\ m.ciaddr = client[c].address
      BY <2>0 DEF Plain, Datagram
    <3> QED
      BY <1>1, <2>2, <2>3, <2>5, <3>1 DEF Sent, vars
  <2> HIDE DEF rec
  <2>7. \A r \in replies : ~ Takes(c, r)'
    BY <2>1, <2>2, TakenNoMore
  <2>8. \A d \in Underway' : d \in Underway \/ d = m
    BY <2>3 DEF Underway, Send, vars
  <2> QED
    BY <2>1, <2>2, <2>3, <2>6, <2>7, <2>8, ClientMoves
<1>8. CASE Forget(c)
  <2> DEFINE rec == [phase |-> "idle", xid |-> client[c].xid, address |-> NoAddress]
  <2>1. rec \in ClientRecord /\ rec.xid >= client[c].xid
    BY <1>1 DEF ClientRecord, Phases
  <2>2. client' = [client EXCEPT ![c] = rec] /\ rec.phase = "idle"
    BY <1>8 DEF Forget, Become
  <2>3. UNCHANGED <<vars, datagrams>> /\ Carry(replies)
    BY <1>8 DEF Forget
  <2> HIDE DEF rec
  <2>4. \A r \in replies : ~ Takes(c, r)'
    BY <2>1, <2>2, TakenNoMore
  <2> QED
    BY <2>1, <2>2, <2>3, <2>4, ClientAsks
<1> QED
  BY <1>2, <1>3, <1>4, <1>5, <1>6, <1>7, <1>8 DEF ClientStep

-----------------------------------------------------------------------------
(* The server and the network *)

\* The server takes a datagram off the way, or a copy of it.
LEMMA TakeKeeps ==
  ASSUME EInv, NEW m \in datagrams, Take(m)
  PROVE  EInv'
<1>1. /\ UNCHANGED <<ip_current, bindings, client, replies>>
      /\ request' = m /\ datagrams' \subseteq datagrams /\ TakeRequest
  BY DEF Take, TakeRequest
<1>2. IInv'
  BY <1>1, StepIInv DEF EInv, Next
<1>3. Underway' \subseteq Underway
  BY <1>1 DEF Underway
<1>4. AllSent'
  BY <1>1, <1>3 DEF EInv, AllSent, Sent
<1>5. \A d, a : Fresh(d, a) => Fresh(d, a)'
  BY <1>1, <1>3, FreshStays
<1>6. \A d, r : Takes(d, r)' <=> Takes(d, r)
  BY <1>1 DEF Takes, InPhase
<1>7. \A d, a : HasAddress(d, a)' => HasAddress(d, a)
  BY <1>1 DEF HasAddress, InPhase
<1>8. AllTakeable'
  BY <1>1, <1>6 DEF EInv, AllTakeable
<1>9. AddressesFresh' /\ RepliesFresh'
  BY <1>1, <1>5, <1>6, <1>7 DEF EInv, AddressesFresh, RepliesFresh
<1> QED
  BY <1>1, <1>2, <1>4, <1>8, <1>9 DEF EInv

\* The datagram that is handled: what was fresh stays so, and a reply some
\* client can take has a fresh address.
LEMMA HandlerKeepsFresh ==
  ASSUME EInv, request \in Datagrams, request # None, handle_client(request),
         UNCHANGED <<client, datagrams>>, request' = None
  PROVE  /\ \A c, a : Fresh(c, a) => Fresh(c, a)'
         /\ ip_current' \in Int /\ ip_current' >= ip_current
         /\ reply' # None =>
              \A c \in Clients : Takes(c, reply')
                => \E a \in Addresses : reply'.yiaddr = a /\ Fresh(c, a)'
<1>0. /\ request \in Underway /\ Sent(request) /\ ip_current \in Int
      /\ IInv /\ \A a \in Addresses : a \in Int
  BY ListFacts, PoolAssumption DEF Underway, EInv, AllSent, IInv, Addresses
<1>1. Underway' \subseteq Underway
  BY DEF Underway
<1>2. ASSUME NEW c, NEW a, Fresh(c, a), BoundNow(c, a)' PROVE Fresh(c, a)'
  BY <1>1, <1>2 DEF Fresh, BeyondReleases
<1>3. CASE Ignore
  <2>1. UNCHANGED <<ip_current, bindings>> /\ reply' = None
    BY <1>3 DEF Ignore, Unsent
  <2>2. \A c, a : Fresh(c, a) => Fresh(c, a)'
    BY <1>1, <2>1, FreshStays
  <2> QED
    BY <1>0, <2>1, <2>2
<1>4. CASE request.type = DHCP_DISCOVER /\ send_DHCP_Offer(request)
  <2>0. PICK m : m = request
    OBVIOUS
  <2>1. /\ \A c, a : BoundNow(c, a) => BoundNow(c, a)'
        /\ ip_current' \in Int /\ ip_current' >= ip_current
        /\ reply' # None => /\ reply'.chaddr = m.chaddr
                            /\ \E ip \in Addresses : /\ reply'.yiaddr = ip
                                                     /\ ip > ip_current
                                                     /\ BoundNow(m.chaddr, ip)'
    BY <1>0, <1>4, <2>0, OfferBinds
  <2>2. \A c, a : Fresh(c, a) => Fresh(c, a)'
    BY <1>2, <2>1 DEF Fresh
  <2>3. ASSUME reply' # None, NEW c \in Clients, Takes(c, reply')
        PROVE  \E a \in Addresses : reply'.yiaddr = a /\ Fresh(c, a)'
    <3>1. PICK ip \in Addresses : /\ reply'.yiaddr = ip
                                  /\ ip > ip_current
                                  /\ BoundNow(m.chaddr, ip)'
      BY <2>1, <2>3
    <3>2. c = m.chaddr
      BY <2>1, <2>3 DEF Takes
    <3>3. BeyondReleases(c, ip)'
      <4> SUFFICES ASSUME NEW d \in Underway', d.type = DHCP_RELEASE PROVE d.ciaddr < ip
        BY DEF BeyondReleases
      <4>1. d.ciaddr \in Addresses /\ d.ciaddr <= ip_current
        BY <1>1 DEF EInv, AllSent, Sent
      <4> QED
        BY <1>0, <3>1, <4>1
    <3> QED
      BY <3>1, <3>2, <3>3 DEF Fresh
  <2> QED
    BY <2>1, <2>2, <2>3
<1>5. CASE request.type = DHCP_REQUEST /\ send_DHCP_Ack(request)
  <2>1. /\ \A c, a : BoundNow(c, a) <=> BoundNow(c, a)'
        /\ UNCHANGED ip_current
        /\ reply' # None =>
             /\ reply'.chaddr = request.chaddr
             /\ reply'.yiaddr \in Addresses
             /\ BoundNow(request.chaddr, reply'.yiaddr)
             /\ \A a \in Addresses : BoundNow(request.chaddr, a) => a <= reply'.yiaddr
    BY <1>0, <1>5, AckNamesNewest
  <2>2. \A c, a : Fresh(c, a) => Fresh(c, a)'
    BY <1>2, <2>1 DEF Fresh
  <2>3. ASSUME reply' # None, NEW c \in Clients, Takes(c, reply')
        PROVE  \E a \in Addresses : reply'.yiaddr = a /\ Fresh(c, a)'
    <3>1. PICK new \in Addresses : reply'.yiaddr = new
      BY <2>1, <2>3
    <3>2. c = request.chaddr
      BY <2>1, <2>3 DEF Takes
    <3>3. PICK old \in Addresses : Fresh(c, old)
      <4>1. client[c].address \in Addresses \union {NoAddress}
        BY DEF EInv, ClientRecord
      <4>2. InPhase(c, {"requesting", "renewing"})
        BY <1>5, <2>3 DEF Takes, send_DHCP_Ack, SendOrExit, Unsent, Reply
      <4>3. Fresh(c, client[c].address)
        BY <4>1, <4>2 DEF EInv, AddressesFresh, HasAddress, InPhase
      <4> QED
        BY <4>3 DEF Fresh
    <3>4. old <= new
      BY <2>1, <2>3, <3>1, <3>2, <3>3 DEF Fresh
    <3>5. ASSUME NEW m \in Underway', m.type = DHCP_RELEASE, m.chaddr = c PROVE m.ciaddr < new
      <4>1. m \in Underway /\ m.ciaddr \in Addresses
        BY <1>1, <3>5 DEF EInv, AllSent, Sent
      <4>2. m.ciaddr < old
        BY <3>3, <3>5, <4>1 DEF Fresh, BeyondReleases
      <4> QED
        BY <1>0, <3>4, <4>1, <4>2
    <3>6. BoundNow(c, new)'
      BY <2>1, <2>3, <3>1, <3>2
    <3> QED
      BY <3>1, <3>5, <3>6 DEF Fresh, BeyondReleases
  <2> QED
    BY <1>0, <2>1, <2>2, <2>3
<1>6. CASE request.type = DHCP_RELEASE /\ handle_DHCP_Release(request)
  <2>1. /\ \A c, a : BoundNow(c, a)
                       /\ (Station(c) = Station(request.chaddr) => a # request.ciaddr)
                     => BoundNow(c, a)'
        /\ reply' = None /\ UNCHANGED ip_current
    BY <1>0, <1>6, ReleaseTakesOne
  <2>2. ASSUME NEW c, NEW a, Fresh(c, a) PROVE Fresh(c, a)'
    <3>1. Station(c) = Station(request.chaddr) => request.ciaddr < a
      BY <1>0, <1>6, <2>2, StationAssumption DEF Fresh, BeyondReleases, Sent
    <3>2. request.ciaddr \in Int /\ a \in Int
      BY <1>0, <1>6, <2>2 DEF Sent, Fresh
    <3> QED
      BY <1>2, <2>1, <2>2, <3>1, <3>2 DEF Fresh
  <2> QED
    BY <1>0, <2>1, <2>2
<1> QED
  BY <1>0, <1>3, <1>4, <1>5, <1>6, SentDispatch

\* The server handles a datagram.
LEMMA HandleKeeps ==
  ASSUME EInv, Handle
  PROVE  EInv'
<1>1. /\ HandleRequest /\ UNCHANGED <<client, datagrams>> /\ request # None
      /\ request \in Datagrams /\ handle_client(request) /\ request' = None
      /\ replies' \subseteq replies \union ({reply'} \ {None})
      /\ \A r \in replies' : \E c \in Clients : Takes(c, r)'
  BY DEF Handle, HandleRequest, EInv, IInv, TypeOK, Carry
<1>2. /\ \A c, a : Fresh(c, a) => Fresh(c, a)'
      /\ ip_current' \in Int /\ ip_current' >= ip_current
      /\ reply' # None =>
           \A c \in Clients : Takes(c, reply')
             => \E a \in Addresses : reply'.yiaddr = a /\ Fresh(c, a)'
  BY <1>1, HandlerKeepsFresh
<1>3. IInv'
  BY <1>1, StepIInv DEF EInv, Next
<1>4. AllSent'
  <2> SUFFICES ASSUME NEW m \in Underway' PROVE Sent(m)'
    BY DEF AllSent
  <2>1. Sent(m)
    BY <1>1 DEF Underway, EInv, AllSent
  <2>2. \A a \in Addresses : a <= ip_current => a <= ip_current'
    BY <1>2, ListFacts, PoolAssumption DEF EInv, IInv, Addresses
  <2> QED
    BY <1>1, <2>1, <2>2 DEF Sent
<1>5. AllTakeable'
  BY <1>1 DEF AllTakeable
<1>6. \A d, r : Takes(d, r)' <=> Takes(d, r)
  BY <1>1 DEF Takes, InPhase
<1>7. \A d, a : HasAddress(d, a)' => HasAddress(d, a)
  BY <1>1 DEF HasAddress, InPhase
<1>8. AddressesFresh'
  BY <1>2, <1>7 DEF EInv, AddressesFresh
<1>9. RepliesFresh'
  <2> SUFFICES ASSUME NEW r \in replies', NEW c \in Clients, Takes(c, r)'
               PROVE  Fresh(c, r.yiaddr)'
    BY DEF RepliesFresh
  <2>1. CASE r \in replies
    BY <1>2, <1>6, <2>1 DEF EInv, RepliesFresh
  <2>2. CASE r = reply' /\ reply' # None
    <3>1. PICK a \in Addresses : r.yiaddr = a /\ Fresh(c, a)'
      BY <1>2, <1>6, <2>2
    <3> QED
      BY <3>1
  <2> QED
    BY <1>1, <2>1, <2>2
<1> QED
  BY <1>1, <1>3, <1>4, <1>5, <1>8, <1>9 DEF EInv

\* A reply is lost, or nothing happens.
LEMMA LossKeeps ==
  ASSUME EInv, UNCHANGED <<vars, client, datagrams>>, replies' \subseteq replies
  PROVE  EInv'
<1>1. UNCHANGED <<ip_current, bindings, request>>
  BY DEF vars
<1>2. IInv'
  BY StepIInv DEF EInv
<1>3. Underway' \subseteq Underway
  BY <1>1 DEF Underway
<1>4. AllSent'
  BY <1>1, <1>3 DEF EInv, AllSent, Sent
<1>5. \A d, a : Fresh(d, a) => Fresh(d, a)'
  BY <1>1, <1>3, FreshStays
<1>6. \A d, r : Takes(d, r)' <=> Takes(d, r)
  BY DEF Takes, InPhase
<1>7. \A d, a : HasAddress(d, a)' => HasAddress(d, a)
  BY DEF HasAddress, InPhase
<1>8. AllTakeable'
  BY <1>6 DEF EInv, AllTakeable
<1>9. AddressesFresh' /\ RepliesFresh'
  BY <1>5, <1>6, <1>7 DEF EInv, AddressesFresh, RepliesFresh
<1> QED
  BY <1>2, <1>4, <1>8, <1>9 DEF EInv

-----------------------------------------------------------------------------
(* Types.  A client that may begin a transaction has not begun all of them *)
(* by itself, so its number stays in the range; one that is not idle has   *)
(* begun one, so that its datagrams are among those the server takes.      *)

Numbered == \A c \in Clients : ~ InPhase(c, {"idle"}) => client[c].xid \in 1 .. MaxTransactions

XInv == ExchangeTypeOK /\ Numbered

\* A client may begin a transaction only below the bound.
LEMMA BeginsBelowBound ==
  ASSUME XInv, MayBegin, NEW c \in Clients
  PROVE  client[c].xid + 1 \in 1 .. MaxTransactions
<1>1. client[c].xid \in 0 .. MaxTransactions
  BY DEF XInv, ExchangeTypeOK, ClientType
<1>2. ASSUME client[c].xid = MaxTransactions PROVE FALSE
  <2> DEFINE own == {c} \X (1 .. MaxTransactions)
  <2>1. IsFiniteSet(1 .. MaxTransactions) /\ Cardinality(1 .. MaxTransactions) = MaxTransactions
    BY FS_Interval, TransactionsAssumption
  <2>2. IsFiniteSet({c}) /\ Cardinality({c}) = 1
    BY FS_Singleton
  <2>3. Cardinality(own) = Cardinality({c}) * Cardinality(1 .. MaxTransactions)
    BY <2>1, <2>2, FS_Product
  <2>4. IsFiniteSet(Clients \X (1 .. MaxTransactions))
    BY <2>1, FS_Product, TransactionsAssumption
  <2>5. Begun \subseteq Clients \X (1 .. MaxTransactions)
    BY DEF Begun
  <2>6. own \subseteq Begun
    BY <1>2 DEF Begun
  <2>7. IsFiniteSet(Begun) /\ Cardinality(Begun) \in Nat
    BY <2>4, <2>5, FS_Subset, FS_CardinalityType
  <2> HIDE DEF own
  <2>8. Cardinality(own) <= Cardinality(Begun)
    BY <2>6, <2>7, FS_Subset
  <2>9. Cardinality(own) = MaxTransactions
    BY <2>1, <2>2, <2>3, TransactionsAssumption
  <2> QED
    BY <2>7, <2>8, <2>9, TransactionsAssumption DEF MayBegin
<1> QED
  BY <1>1, <1>2, TransactionsAssumption

\* What clients send is among the datagrams the server takes.
LEMMA DatagramsTaken ==
  ASSUME NEW c \in Clients, NEW x \in 1 .. MaxTransactions
  PROVE  /\ Plain(DHCP_DISCOVER, c, ETHERNET_LEN, x) \in Datagrams
         /\ Plain(DHCP_REQUEST, c, ETHERNET_LEN, x) \in Datagrams
         /\ \A a \in Addresses :
              /\ [Plain(DHCP_REQUEST, c, ETHERNET_LEN, x) EXCEPT !.ciaddr = a] \in Datagrams
              /\ [Plain(DHCP_RELEASE, c, ETHERNET_LEN, x) EXCEPT !.ciaddr = a] \in Datagrams
<1>1. x \in Xids /\ ETHERNET_LEN \in Hlens
  BY ChannelAssumption
<1>2. DatagramsOf(c, ETHERNET_LEN, x) \subseteq Datagrams
  BY <1>1 DEF Datagrams
<1> QED
  BY <1>2 DEF DatagramsOf

\* Every step of a client keeps the types.
LEMMA ClientTypes ==
  ASSUME XInv, EInv, EInv', NEW c \in Clients, ClientStep(c)
  PROVE  XInv'
<1>1. /\ client \in [Clients -> ClientType] /\ Numbered
      /\ client[c].xid \in 0 .. MaxTransactions
      /\ client[c].address \in Addresses \union {NoAddress}
      /\ datagrams \subseteq Datagrams /\ replies \subseteq Replies
      /\ AddressesFresh
  BY DEF XInv, EInv, ExchangeTypeOK, ClientType
<1>2. ASSUME NEW rec \in ClientType, client' = [client EXCEPT ![c] = rec],
             rec.phase = "idle" \/ rec.xid \in 1 .. MaxTransactions,
             replies' \subseteq replies,
             \/ datagrams' \subseteq Datagrams
             \/ /\ datagrams' \subseteq datagrams \union {Message(c)'}
                /\ rec.phase \in {"selecting", "requesting", "renewing"}
      PROVE  XInv'
  <2>1. client' \in [Clients -> ClientType] /\ client'[c] = rec
    BY <1>1, <1>2
  <2>2. Numbered'
    BY <1>1, <1>2, <2>1 DEF Numbered, InPhase
  <2>3. datagrams' \subseteq Datagrams
    <3>1. CASE rec.phase \in {"selecting", "requesting", "renewing"}
      <4>1. rec.xid \in 1 .. MaxTransactions /\ rec.address \in Addresses \union {NoAddress}
        BY <1>2, <3>1 DEF ClientType
      <4>2. rec.phase = "renewing" => rec.address \in Addresses
        BY <2>1, <4>1 DEF EInv, AddressesFresh, HasAddress, InPhase, Fresh
      <4>3. Message(c)' \in Datagrams
        BY <2>1, <3>1, <4>1, <4>2, DatagramsTaken DEF Message
      <4> QED
        BY <1>1, <1>2, <4>3
    <3> QED
      BY <1>2, <3>1
  <2> QED
    BY <1>1, <1>2, <2>1, <2>2, <2>3 DEF XInv, ExchangeTypeOK
<1>3. CASE Discover(c)
  <2> DEFINE rec == [phase |-> "selecting", xid |-> client[c].xid + 1, address |-> NoAddress]
  <2>1. rec.xid \in 1 .. MaxTransactions
    BY <1>3, BeginsBelowBound DEF Discover
  <2>2. rec \in ClientType /\ rec.phase = "selecting"
    BY <2>1 DEF ClientType
  <2>3. client' = [client EXCEPT ![c] = rec]
    BY <1>3 DEF Discover, Become
  <2>4. replies' \subseteq replies /\ datagrams' \subseteq datagrams \union {Message(c)'}
    BY <1>3 DEF Discover, Carry, Send
  <2> HIDE DEF rec
  <2> QED
    BY <1>2, <2>1, <2>2, <2>3, <2>4
<1>4. CASE Renew(c)
  <2> DEFINE rec == [phase |-> "renewing", xid |-> client[c].xid + 1,
                     address |-> client[c].address]
  <2>1. rec.xid \in 1 .. MaxTransactions
    BY <1>4, BeginsBelowBound DEF Renew
  <2>2. rec \in ClientType /\ rec.phase = "renewing"
    BY <1>1, <2>1 DEF ClientType
  <2>3. client' = [client EXCEPT ![c] = rec]
    BY <1>4 DEF Renew, Become
  <2>4. replies' \subseteq replies /\ datagrams' \subseteq datagrams \union {Message(c)'}
    BY <1>4 DEF Renew, Carry, Send
  <2> HIDE DEF rec
  <2> QED
    BY <1>2, <2>1, <2>2, <2>3, <2>4
<1>5. CASE Repeat(c)
  <2>1. client[c].xid \in 1 .. MaxTransactions
    BY <1>1, <1>5 DEF Repeat, Waits, Numbered, InPhase
  <2>2. client[c].phase = "renewing" => client[c].address \in Addresses
    BY <1>1 DEF AddressesFresh, HasAddress, InPhase, Fresh
  <2>3. Message(c) \in Datagrams
    BY <1>5, <2>1, <2>2, DatagramsTaken DEF Repeat, Waits, InPhase, Message
  <2> QED
    BY <1>1, <1>5, <2>3 DEF Repeat, XInv, ExchangeTypeOK, Numbered, InPhase
<1>6. ASSUME NEW phase \in {"requesting", "bound"}, Receive(c, phase),
             ~ InPhase(c, {"idle"}),
             \/ UNCHANGED datagrams
             \/ Send(Message(c)') /\ phase = "requesting"
      PROVE  XInv'
  <2>1. PICK r \in replies : /\ Takes(c, r)
                             /\ Become(c, phase, r.xid, r.yiaddr)
                             /\ Carry(replies)
    BY <1>6 DEF Receive
  <2> DEFINE rec == [phase |-> phase, xid |-> r.xid, address |-> r.yiaddr]
  <2>2. r.xid = client[c].xid /\ r.xid \in 1 .. MaxTransactions
    BY <1>1, <1>6, <2>1 DEF Takes, Numbered
  <2>3. r.yiaddr \in Addresses \union {NoAddress}
    BY <2>1 DEF EInv, RepliesFresh, Fresh
  <2>4. rec \in ClientType /\ rec.phase = phase /\ rec.xid \in 1 .. MaxTransactions
    BY <2>2, <2>3 DEF ClientType
  <2>5. client' = [client EXCEPT ![c] = rec]
    BY <2>1 DEF Become
  <2>6. replies' \subseteq replies
    BY <2>1 DEF Carry
  <2>7. \/ datagrams' \subseteq Datagrams
        \/ /\ datagrams' \subseteq datagrams \union {Message(c)'}
           /\ rec.phase \in {"selecting", "requesting", "renewing"}
    BY <1>1, <1>6, <2>4 DEF Send
  <2> HIDE DEF rec
  <2> QED
    BY <1>2, <2>4, <2>5, <2>6, <2>7
<1>7. CASE GetOffer(c)
  BY <1>6, <1>7 DEF GetOffer, InPhase
<1>8. CASE GetAck(c)
  BY <1>6, <1>8 DEF GetAck, InPhase
<1>9. ASSUME Become(c, "idle", client[c].xid, NoAddress), Carry(replies),
             datagrams' \subseteq Datagrams
      PROVE  XInv'
  <2> DEFINE rec == [phase |-> "idle", xid |-> client[c].xid, address |-> NoAddress]
  <2>1. rec \in ClientType /\ rec.phase = "idle"
    BY <1>1 DEF ClientType
  <2>2. client' = [client EXCEPT ![c] = rec]
    BY <1>9 DEF Become
  <2>3. replies' \subseteq replies
    BY <1>9 DEF Carry
  <2> HIDE DEF rec
  <2> QED
    BY <1>2, <1>9, <2>1, <2>2, <2>3
<1>10. CASE Release(c)
  <2> DEFINE x == client[c].xid
             a == client[c].address
             m == [Plain(DHCP_RELEASE, c, ETHERNET_LEN, x) EXCEPT !.ciaddr = a]
  <2>1. x \in 1 .. MaxTransactions
    BY <1>1, <1>10 DEF Release, Numbered, InPhase
  <2>2. a \in Addresses
    BY <1>1, <1>10 DEF Release, AddressesFresh, HasAddress, InPhase, Fresh
  <2>3. m \in Datagrams
    BY <2>1, <2>2, DatagramsTaken
  <2> QED
    BY <1>1, <1>9, <1>10, <2>3 DEF Release, Send
<1>11. CASE Forget(c)
  BY <1>1, <1>9, <1>11 DEF Forget
<1> QED
  BY <1>3, <1>4, <1>5, <1>7, <1>8, <1>10, <1>11 DEF ClientStep

\* So does every other step.
LEMMA StepTypes ==
  ASSUME XInv, EInv, EInv', [ExchangeNext]_everything
  PROVE  XInv'
<1>1. ASSUME UNCHANGED client, datagrams' \subseteq datagrams,
             replies' \subseteq replies \union ({reply'} \ {None})
      PROVE  XInv'
  <2>1. reply' \in Replies \union {None}
    BY DEF EInv, IInv, TypeOK
  <2> QED
    BY <1>1, <2>1 DEF XInv, ExchangeTypeOK, Numbered, InPhase
<1>2. CASE \E m \in datagrams : Take(m)
  BY <1>1, <1>2 DEF Take
<1>3. CASE Handle
  BY <1>1, <1>3 DEF Handle, Carry
<1>4. CASE Lose
  BY <1>1, <1>4 DEF Lose
<1>5. CASE Over \/ UNCHANGED everything
  BY <1>1, <1>5 DEF Over, everything
<1> QED
  BY <1>2, <1>3, <1>4, <1>5, ClientTypes DEF ExchangeNext

-----------------------------------------------------------------------------
(* The theorems *)

LEMMA ExchangeInductive == Exchange => []EInv
<1>1. ExchangeInit => EInv
  <2> SUFFICES ASSUME ExchangeInit PROVE EInv
    OBVIOUS
  <2>1. IInv /\ Underway = {} /\ replies = {}
    BY InitIInv DEF ExchangeInit, Init, Underway
  <2>2. /\ client \in [Clients -> ClientRecord]
        /\ \A c \in Clients : client[c].phase = "idle"
    BY DEF ExchangeInit, ClientRecord, Phases
  <2> QED
    BY <2>1, <2>2
       DEF EInv, AllSent, AllTakeable, AddressesFresh, HasAddress, InPhase, RepliesFresh
<1>2. EInv /\ [ExchangeNext]_everything => EInv'
  <2> SUFFICES ASSUME EInv, [ExchangeNext]_everything PROVE EInv'
    OBVIOUS
  <2>1. CASE Lose \/ Over \/ UNCHANGED everything
    <3>1. UNCHANGED <<vars, client, datagrams>> /\ replies' \subseteq replies
      BY <2>1 DEF Lose, Over, everything
    <3> QED
      BY <3>1, LossKeeps
  <2> QED
    BY <2>1, ClientKeeps, TakeKeeps, HandleKeeps DEF ExchangeNext
<1> QED
  BY <1>1, <1>2, PTL DEF Exchange

\* The clients, the datagrams and the replies stay in their types; in particular
\* no client ever sends a datagram the server's model does not take, nor numbers
\* a transaction beyond the bound.
THEOREM ExchangeTypeCorrect == Exchange => []ExchangeTypeOK
<1>1. ExchangeInit => XInv
  BY TransactionsAssumption
     DEF ExchangeInit, XInv, ExchangeTypeOK, ClientType, Numbered, InPhase
<1>2. XInv /\ EInv /\ EInv' /\ [ExchangeNext]_everything => XInv'
  BY StepTypes
<1>3. XInv => ExchangeTypeOK
  BY DEF XInv
<1> QED
  BY ExchangeInductive, <1>1, <1>2, <1>3, PTL DEF Exchange

\* Whatever is lost, repeated, delayed or reordered, and however often clients
\* ask, renew, release and are switched off, the address a client uses is an
\* active binding of its own in the server's list.
THEOREM HoldersAreBound == Exchange => []HeldIsBound
<1>1. EInv => HeldIsBound
  <2> SUFFICES ASSUME EInv, NEW c \in Clients, Holds(c)
               PROVE  \E i \in 1 .. Len(bindings) :
                        /\ bindings[i].address = client[c].address
                        /\ bindings[i].cident = c
                        /\ bindings[i].status = ASSOCIATED
    BY DEF HeldIsBound
  <2>1. client[c].address \in Addresses \union {NoAddress}
    BY DEF EInv, ClientRecord
  <2>2. Fresh(c, client[c].address)
    BY <2>1 DEF EInv, AddressesFresh, HasAddress, Holds, InPhase
  <2>3. PICK i \in Active(c) : bindings[i].address = client[c].address
    BY <2>2 DEF Fresh, BoundNow
  <2>4. i \in 1 .. Len(bindings) /\ bindings[i].cident \in Clients
    BY ListFacts DEF Active, EInv, IInv, ABinding, Binding
  <2>5. bindings[i].cident = c
    BY <2>4, StationAssumption DEF Active
  <2> QED
    BY <2>3, <2>4, <2>5 DEF Active
<1> QED
  BY ExchangeInductive, <1>1, PTL

\* No two clients ever use one address at the same time, while the server runs.
THEOREM AddressesAreUnique == Exchange => []NoTwoHolders
<1>1. IInv /\ HeldIsBound => NoTwoHolders
  BY AddressOnce DEF IInv, HeldIsBound, NoTwoHolders
<1>2. EInv => IInv
  BY DEF EInv
<1> QED
  BY ExchangeInductive, HoldersAreBound, <1>1, <1>2, PTL
=============================================================================
