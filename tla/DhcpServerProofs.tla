-------------------------- MODULE DhcpServerProofs ---------------------------
(***************************************************************************)
(* Proofs about DhcpServer, for any clients, any pool and any bounds: its  *)
(* types, the order of the binding list, that an address is announced to   *)
(* one client only, what the steps may never do, and that the server       *)
(* implements AddressLedger.                                               *)
(***************************************************************************)
EXTENDS DhcpServer, SequenceTheorems, TLAPS

USE DEF ASSOCIATED, PENDING, EXPIRED, RELEASED, AnyStatus, Statuses,
        DYNAMIC, STATIC, STATIC_OR_DYNAMIC, ETHERNET_LEN,
        DHCP_DISCOVER, DHCP_OFFER, DHCP_REQUEST, DHCP_DECLINE, DHCP_ACK,
        DHCP_NAK, DHCP_RELEASE, DHCP_INFORM

ABinding == Binding(Addresses, Clients, Times)

-----------------------------------------------------------------------------
(* The operations of the list *)

\* LIST_INSERT_HEAD puts the new element first and moves the others up.
LEMMA InsertHead ==
  ASSUME NEW S, NEW list \in Seq(S), NEW b \in S
  PROVE  /\ LIST_INSERT_HEAD(list, b) \in Seq(S)
         /\ Len(LIST_INSERT_HEAD(list, b)) = Len(list) + 1
         /\ LIST_INSERT_HEAD(list, b)[1] = b
         /\ \A i \in 2 .. Len(list) + 1 : LIST_INSERT_HEAD(list, b)[i] = list[i - 1]
<1>1. Len(list) \in Nat /\ \A i \in 1 .. Len(list) : list[i] \in S
  BY ElementOfSeq, LenProperties
<1>2. \A i \in 1 .. Len(list) + 1 : (IF i = 1 THEN b ELSE list[i - 1]) \in S
  BY <1>1
<1> QED
  BY <1>1, <1>2 DEF LIST_INSERT_HEAD

\* remove_binding closes the gap and keeps the order of the others.
LEMMA RemoveAt ==
  ASSUME NEW S, NEW list \in Seq(S), NEW p \in 1 .. Len(list)
  PROVE  /\ remove_binding(list, p) \in Seq(S)
         /\ Len(remove_binding(list, p)) = Len(list) - 1
         /\ \A i \in 1 .. Len(list) - 1 :
              remove_binding(list, p)[i] = list[IF i < p THEN i ELSE i + 1]
<1>1. Len(list) \in Nat /\ Len(list) - 1 \in Nat /\ \A i \in 1 .. Len(list) : list[i] \in S
  BY ElementOfSeq, LenProperties
<1>2. \A i \in 1 .. Len(list) - 1 : (IF i < p THEN list[i] ELSE list[i + 1]) \in S
  BY <1>1
<1> QED
  BY <1>1, <1>2 DEF remove_binding

WithReleased(list, p) == [list EXCEPT ![p].status = RELEASED, ![p].lease_time = 0]

\* A release changes the status and the lease of one element.
LEMMA ReleaseAt ==
  ASSUME NEW list \in Seq(ABinding), NEW p \in 1 .. Len(list)
  PROVE  /\ WithReleased(list, p) \in Seq(ABinding)
         /\ Len(WithReleased(list, p)) = Len(list)
         /\ \A i \in 1 .. Len(list) :
              /\ i # p => WithReleased(list, p)[i] = list[i]
              /\ WithReleased(list, p)[i].address = list[i].address
              /\ WithReleased(list, p)[i].cident = list[i].cident
              /\ WithReleased(list, p)[i].cident_len = list[i].cident_len
              /\ WithReleased(list, p)[i].binding_time = list[i].binding_time
         /\ WithReleased(list, p)[p].status = RELEASED
<1> DEFINE new == [list[p] EXCEPT !.status = RELEASED, !.lease_time = 0]
<1>1. list[p] \in ABinding /\ 0 \in Times
  BY ElementOfSeq, BoundsAssumption, LeaseAssumption DEF Times
<1>2. /\ new \in ABinding /\ new.address = list[p].address /\ new.cident = list[p].cident
      /\ new.cident_len = list[p].cident_len /\ new.binding_time = list[p].binding_time
      /\ new.status = RELEASED
  BY <1>1 DEF ABinding, Binding
<1>3. list \in [1 .. Len(list) -> ABinding] /\ Len(list) \in Nat
  BY LenProperties
<1>4. WithReleased(list, p) = [i \in 1 .. Len(list) |-> IF i = p THEN new ELSE list[i]]
  BY <1>3 DEF WithReleased
<1> HIDE DEF new
<1>5. \A i \in 1 .. Len(list) : WithReleased(list, p)[i] \in ABinding
  BY <1>2, <1>3, <1>4
<1> QED
  BY <1>2, <1>3, <1>4, <1>5

\* A datagram carries a client, a length, a type and a transaction in range.
LEMMA DatagramFields ==
  ASSUME NEW m \in Datagrams
  PROVE  /\ m.chaddr \in Clients /\ m.hlen \in Hlens /\ m.hlen \in 0 .. 208 /\ m.type \in 0 .. 8
         /\ m.xid \in Xids \union {0}
<1>1. PICK c \in Clients, h \in Hlens, x \in Xids : m \in DatagramsOf(c, h, x)
  BY DEF Datagrams
<1>2. m.chaddr = c /\ m.hlen = h /\ m.type \in 0 .. 8 /\ m.xid \in {x, 0}
  BY <1>1 DEF DatagramsOf, Plain, Datagram
<1> QED
  BY <1>2, HlenAssumption

\* handle_client runs one of the handlers or none.
LEMMA Dispatch ==
  ASSUME NEW m, handle_client(m)
  PROVE  \/ Ignore
         \/ /\ m.xid # 0
            /\ \/ send_DHCP_Offer(m) \/ send_DHCP_Ack(m)
               \/ handle_DHCP_Decline(m) \/ handle_DHCP_Release(m)
               \/ handle_DHCP_Inform_Reply(m) \/ send_DHCP_NACK(m)
BY DEF handle_client

-----------------------------------------------------------------------------
(* Types *)

\* A reply has the type of a reply.
LEMMA ReplyType ==
  ASSUME NEW type \in {DHCP_OFFER, DHCP_ACK, DHCP_NAK, DHCP_INFORM},
         NEW m \in Datagrams, m.xid # 0,
         NEW a \in Addresses \union {0}, NEW until \in Times,
         NEW d \in {Unset, FileDns, AckDns, "none"}
  PROVE  Reply(type, m, a, until, d) \in Replies
BY DatagramFields DEF Reply, Replies

\* The end of a lease is a time of the model, and so are 0 and now.
LEMMA LeaseEnd == TypeOK => now + MaxLease \in Times /\ now \in Times /\ 0 \in Times
BY BoundsAssumption, LeaseAssumption DEF TypeOK, Times

\* Telling client c of address a keeps the type of the history.
LEMMA ToldType ==
  ASSUME TypeOK, NEW c \in Clients, NEW a \in Addresses
  PROVE  Told(c, a) \subseteq [client : Stations, address : Addresses]
BY DEF TypeOK, Told, Stations

\* Init has the types.
LEMMA InitType == Init => TypeOK
<1> SUFFICES ASSUME Init PROVE TypeOK
  OBVIOUS
<1>1. bindings \in Seq(ABinding)
  BY EmptySeq DEF Init
<1> QED
  BY <1>1, BoundsAssumption DEF Init, TypeOK, ABinding

\* Each handler keeps the types of what it changes.
LEMMA HandlerType ==
  ASSUME TypeOK, NEW m \in Datagrams, handle_client(m)
  PROVE  /\ ip_current' \in Addresses \union {ipFirst}
         /\ bindings' \in Seq(ABinding)
         /\ dns' \in {Unset, FileDns, AckDns}
         /\ reply' \in Replies \union {None}
         /\ process' \in {"running", "exited"}
         /\ told' \subseteq [client : Stations, address : Addresses]
<1> DEFINE Goal == /\ ip_current' \in Addresses \union {ipFirst}
                   /\ bindings' \in Seq(ABinding)
                   /\ dns' \in {Unset, FileDns, AckDns}
                   /\ reply' \in Replies \union {None}
                   /\ process' \in {"running", "exited"}
                   /\ told' \subseteq [client : Stations, address : Addresses]
<1>1. /\ ip_current \in Addresses \union {ipFirst} /\ bindings \in Seq(ABinding)
      /\ dns \in {Unset, FileDns, AckDns} /\ process \in {"running", "exited"}
      /\ told \subseteq [client : Stations, address : Addresses]
  BY DEF TypeOK, ABinding
<1>2. m.chaddr \in Clients /\ m.hlen \in 0 .. 255
  BY DatagramFields
<1>3. CASE m.xid # 0 /\ send_DHCP_Offer(m)
  <2>1. CASE Unsent /\ UNCHANGED <<ip_current, bindings, told>>
    BY <1>1, <1>3, <2>1 DEF send_DHCP_Offer, Unsent
  <2>2. ASSUME NEW ip \in Addresses, TakeAddress(m, ip) PROVE Goal
    <3>1. NewBinding(m, ip) \in ABinding
      BY <1>2, LeaseEnd DEF NewBinding, ABinding, Binding
    <3>2. bindings' \in Seq(ABinding)
      <4>1. LIST_INSERT_HEAD(bindings, NewBinding(m, ip)) \in Seq(ABinding)
        BY <1>1, <3>1, InsertHead, Zenon
      <4> QED
        BY <1>1, <2>2, <4>1 DEF TakeAddress
    <3>3. Reply(DHCP_OFFER, m, ip, now + MaxLease, "none") \in Replies
      BY <1>3, LeaseEnd, ReplyType
    <3>4. reply' \in Replies \union {None}
      BY <2>2, <3>3 DEF TakeAddress, Unsent
    <3>5. told' \subseteq [client : Stations, address : Addresses]
      BY <1>1, <1>2, <2>2, ToldType DEF TakeAddress
    <3> QED
      BY <1>1, <1>3, <2>2, <3>2, <3>4, <3>5 DEF TakeAddress, send_DHCP_Offer
  <2> QED
    BY <1>3, <2>1, <2>2 DEF send_DHCP_Offer
<1>4. CASE m.xid # 0 /\ send_DHCP_Ack(m)
  <2>1. PICK p \in 0 .. Len(bindings) :
          \/ p = 0 /\ Unsent /\ UNCHANGED <<dns, told, process>>
          \/ /\ p # 0
             /\ dns' = AckDns
             /\ SendOrExit(Reply(DHCP_ACK, m, bindings[p].address,
                                 now + MaxLease, AckDns))
             /\ told' = IF reply' = None THEN told
                        ELSE Told(m.chaddr, bindings[p].address)
    BY <1>4 DEF send_DHCP_Ack
  <2>2. CASE p = 0
    BY <1>1, <1>4, <2>1, <2>2 DEF send_DHCP_Ack, Unsent
  <2>3. CASE p # 0
    <3>1. p \in 1 .. Len(bindings)
      BY <1>1, <2>3, LenProperties
    <3>2. bindings[p].address \in Addresses
      <4>1. bindings[p] \in ABinding
        BY <1>1, <3>1, ElementOfSeq
      <4> QED
        BY <4>1 DEF ABinding, Binding
    <3>3. Reply(DHCP_ACK, m, bindings[p].address, now + MaxLease, AckDns) \in Replies
      BY <1>4, <3>2, LeaseEnd, ReplyType
    <3>4. SendOrExit(Reply(DHCP_ACK, m, bindings[p].address, now + MaxLease, AckDns))
      BY <2>1, <2>3
    <3>6. reply' \in Replies \union {None} /\ process' \in {"running", "exited"}
      BY <1>1, <3>3, <3>4 DEF SendOrExit, Unsent
    <3>5. told' \subseteq [client : Stations, address : Addresses]
      BY <1>1, <1>2, <2>1, <2>3, <3>2, ToldType
    <3> QED
      BY <1>1, <1>4, <2>1, <2>3, <3>5, <3>6 DEF send_DHCP_Ack
  <2> QED
    BY <2>2, <2>3
<1>5. CASE m.xid # 0 /\ handle_DHCP_Decline(m)
  <2>1. PICK p \in 0 .. Len(bindings) :
          bindings' = bindings \/ (p # 0 /\ bindings' = remove_binding(bindings, p))
    BY <1>5 DEF handle_DHCP_Decline
  <2>2. bindings' \in Seq(ABinding)
    BY <1>1, <2>1, RemoveAt, LenProperties
  <2> QED
    BY <1>1, <1>5, <2>2 DEF handle_DHCP_Decline, Unsent
<1>6. CASE m.xid # 0 /\ handle_DHCP_Release(m)
  <2>1. PICK p \in 0 .. Len(bindings) :
          \/ bindings' = bindings
          \/ /\ p # 0
             /\ bindings' = [bindings EXCEPT ![p].status = RELEASED, ![p].lease_time = 0]
    BY <1>6 DEF handle_DHCP_Release
  <2>2. CASE bindings' = bindings
    BY <1>1, <1>6, <2>2 DEF handle_DHCP_Release, Unsent
  <2>3. CASE p # 0 /\ bindings' = [bindings EXCEPT ![p].status = RELEASED, ![p].lease_time = 0]
    <3>1. p \in 1 .. Len(bindings)
      BY <1>1, <2>3, LenProperties
    <3>2. bindings' \in Seq(ABinding)
      BY <1>1, <2>3, <3>1, ReleaseAt DEF WithReleased
    <3> QED
      BY <1>1, <1>6, <3>2 DEF handle_DHCP_Release, Unsent
  <2> QED
    BY <2>1, <2>2, <2>3
<1>7. CASE m.xid # 0 /\ handle_DHCP_Inform_Reply(m)
  <2>1. Reply(DHCP_INFORM, m, 0, 0, dns) \in Replies
    BY <1>1, <1>7, LeaseEnd, ReplyType
  <2> QED
    BY <1>1, <1>7, <2>1 DEF handle_DHCP_Inform_Reply, SendOrExit, Unsent
<1>8. CASE m.xid # 0 /\ send_DHCP_NACK(m)
  <2>1. Reply(DHCP_NAK, m, 0, 0, "none") \in Replies
    BY <1>8, LeaseEnd, ReplyType
  <2> QED
    BY <1>1, <1>8, <2>1 DEF send_DHCP_NACK, SendOrExit, Unsent
<1>9. CASE Ignore
  BY <1>1, <1>9 DEF Ignore, Unsent
<1> QED
  BY <1>3, <1>4, <1>5, <1>6, <1>7, <1>8, <1>9, Dispatch

\* Every step keeps the types.
LEMMA TypeStep == TypeOK /\ [Next]_vars => TypeOK'
<1> SUFFICES ASSUME TypeOK, [Next]_vars PROVE TypeOK'
  OBVIOUS
<1> USE BoundsAssumption
<1>1. CASE TakeRequest
  BY <1>1 DEF TakeRequest, TypeOK
<1>2. CASE HandleRequest
  <2>1. request \in Datagrams /\ handle_client(request) /\ UNCHANGED <<now, life>> /\ request' = None
    BY <1>2 DEF HandleRequest, TypeOK
  <2> QED
    BY <2>1, HandlerType DEF TypeOK, ABinding
<1>3. CASE ReceiveFails
  BY <1>3 DEF ReceiveFails, TypeOK
<1>4. CASE Tick
  BY <1>4 DEF Tick, TypeOK
<1>5. CASE Restart
  <2>1. life' \in 1 .. MaxLives
    BY <1>5 DEF Restart, TypeOK
  <2>3. bindings' \in Seq(ABinding)
    BY <1>5, EmptySeq DEF Restart
  <2> QED
    BY <1>5, <2>1, <2>3 DEF Restart, TypeOK, ABinding
<1>6. CASE UNCHANGED vars
  BY <1>6 DEF vars, TypeOK
<1> QED
  BY <1>1, <1>2, <1>3, <1>4, <1>5, <1>6 DEF Next, Rest

\* The variables keep their types: in particular the cursor stays in the
\* pool and every binding and reply carries an address of the pool.
THEOREM TypeCorrect == Spec => []TypeOK
BY InitType, TypeStep, PTL DEF Spec

-----------------------------------------------------------------------------
(* The binding list and the announced addresses *)

\* What is announced in this life lies behind the cursor, and while its
\* address is bound it is bound to the client it was announced to.
ToldOwned ==
  \A t \in told :
    /\ t.address \in ipFirst + 1 .. ip_current
    /\ \A i \in 1 .. Len(bindings) :
         bindings[i].address = t.address => Station(bindings[i].cident) = t.client

\* The inductive invariant.
IInv == /\ TypeOK
        /\ NewestFirst
        /\ ToldOwned
        /\ OneClientPerAddress

(* What a handler can do to the pool, the list and the announcements. *)
Nothing == UNCHANGED <<ip_current, bindings, told>>

Advanced(ip) == /\ ip \in ip_current + 1 .. ipLast
                /\ ip = ip_current + 1
                /\ ip_current' = ip

Wasted(ip) == Advanced(ip) /\ UNCHANGED <<bindings, told>>

BoundTo(m, ip) == /\ Advanced(ip)
                  /\ bindings' = LIST_INSERT_HEAD(bindings, NewBinding(m, ip))
                  /\ told' \in {told, Told(m.chaddr, ip)}

Confirmed(m, p) == /\ Station(bindings[p].cident) = Station(m.chaddr)
                   /\ bindings[p].status = ASSOCIATED
                   /\ UNCHANGED <<ip_current, bindings>>
                   /\ told' \in {told, Told(m.chaddr, bindings[p].address)}

Declined(m, p) == /\ Carries(bindings[p], m)
                  /\ bindings[p].status = ASSOCIATED
                  /\ bindings' = remove_binding(bindings, p)
                  /\ UNCHANGED <<ip_current, told>>

Released(m, p) == /\ Carries(bindings[p], m)
                  /\ bindings[p].status = ASSOCIATED
                  /\ bindings' = [bindings EXCEPT ![p].status = RELEASED,
                                                  ![p].lease_time = 0]
                  /\ UNCHANGED <<ip_current, told>>

Effect(m) == \/ Nothing
             \/ \E ip \in Addresses : Wasted(ip) \/ BoundTo(m, ip)
             \/ \E p \in 1 .. Len(bindings) : Confirmed(m, p) \/ Declined(m, p) \/ Released(m, p)

\* The length and the addresses of the list are numbers.
LEMMA ListFacts ==
  ASSUME TypeOK
  PROVE  /\ Len(bindings) \in Nat /\ bindings \in Seq(ABinding)
         /\ \A i \in 1 .. Len(bindings) : bindings[i] \in ABinding /\ bindings[i].address \in Int
         /\ ip_current \in Int /\ ipFirst \in Int /\ ipLast \in Int /\ ip_current >= ipFirst
<1>1. bindings \in Seq(ABinding)
  BY DEF TypeOK, ABinding
<1>2. Len(bindings) \in Nat /\ \A i \in 1 .. Len(bindings) : bindings[i] \in ABinding
  BY <1>1, ElementOfSeq, LenProperties
<1>3. \A i \in 1 .. Len(bindings) : bindings[i].address \in Int
  BY <1>2, PoolAssumption DEF ABinding, Binding, Addresses
<1>4. ip_current \in Int /\ ipFirst \in Int /\ ipLast \in Int /\ ip_current >= ipFirst
  BY PoolAssumption DEF TypeOK, Addresses
<1> QED
  BY <1>1, <1>2, <1>3, <1>4

\* The search for a free address ends at its first candidate.
LEMMA OfferIsNext ==
  ASSUME TypeOK, NewestFirst, NEW ip \in Addresses, offer_ip_available(ip)
  PROVE  ip \in ip_current + 1 .. ipLast /\ ip = ip_current + 1
<1>1. /\ ip_current \in Int /\ ipFirst \in Int /\ ipLast \in Int /\ ip_current >= ipFirst
      /\ \A i \in 1 .. Len(bindings) : bindings[i].address \in ipFirst + 1 .. ip_current
  BY ListFacts DEF NewestFirst
<1>2. ip \in ip_current + 1 .. ipLast
  BY DEF offer_ip_available
<1>3. is_ip_available(ip_current + 1)
  BY <1>1, <1>2 DEF is_ip_available, Addresses
<1>4. ip_current + 1 \notin ip_current + 1 .. ip - 1
  BY <1>3 DEF offer_ip_available
<1> QED
  BY <1>1, <1>2, <1>4

\* What search_binding returns is NULL or a place that holds an active binding
\* with the identifier it was asked for.
LEMMA SearchFinds ==
  ASSUME TypeOK, NEW m, NEW len, NEW is_static, NEW p \in 0 .. Len(bindings), p # 0,
         search_binding(bindings, m.chaddr, len, is_static, ASSOCIATED, p)
  PROVE  /\ p \in 1 .. Len(bindings)
         /\ bindings[p].status = ASSOCIATED
         /\ bindings[p].cident_len = len
         /\ SameBytes(bindings[p].cident, m.chaddr, len)
<1>1. p \in 1 .. Len(bindings)
  BY LenProperties DEF TypeOK
<1> QED
  BY <1>1 DEF search_binding, Matches

\* Every handler has one of these effects.
LEMMA HandlerEffect ==
  ASSUME TypeOK, NewestFirst, NEW m, handle_client(m)
  PROVE  Effect(m)
<1>1. CASE send_DHCP_Offer(m)
  <2>1. CASE UNCHANGED <<ip_current, bindings, told>>
    BY <2>1 DEF Effect, Nothing
  <2>2. ASSUME NEW ip \in Addresses, TakeAddress(m, ip) PROVE Effect(m)
    <3>1. Advanced(ip)
      BY <2>2, OfferIsNext DEF TakeAddress, Advanced
    <3> QED
      BY <2>2, <3>1 DEF TakeAddress, Effect, Wasted, BoundTo
  <2> QED
    BY <1>1, <2>1, <2>2 DEF send_DHCP_Offer
<1>2. CASE send_DHCP_Ack(m)
  <2>1. PICK p \in 0 .. Len(bindings) :
          /\ search_binding(bindings, m.chaddr, ETHERNET_LEN, STATIC_OR_DYNAMIC, ASSOCIATED, p)
          /\ \/ p = 0 /\ UNCHANGED told
             \/ p # 0 /\ told' \in {told, Told(m.chaddr, bindings[p].address)}
    BY <1>2 DEF send_DHCP_Ack
  <2>2. CASE p = 0
    BY <1>2, <2>1, <2>2 DEF send_DHCP_Ack, Effect, Nothing
  <2>3. CASE p # 0
    <3>1. /\ p \in 1 .. Len(bindings)
          /\ bindings[p].status = ASSOCIATED
          /\ SameBytes(bindings[p].cident, m.chaddr, ETHERNET_LEN)
      BY <2>1, <2>3, SearchFinds
    <3>2. Station(bindings[p].cident) = Station(m.chaddr)
      BY <3>1 DEF SameBytes, Station
    <3>3. Confirmed(m, p)
      BY <1>2, <2>1, <2>3, <3>1, <3>2 DEF send_DHCP_Ack, Confirmed
    <3> QED
      BY <3>1, <3>3 DEF Effect
  <2> QED
    BY <2>2, <2>3
<1>3. CASE handle_DHCP_Decline(m)
  <2>1. PICK p \in 0 .. Len(bindings) :
          /\ search_binding(bindings, m.chaddr, m.hlen, DYNAMIC, ASSOCIATED, p)
          /\ \/ UNCHANGED bindings
             \/ p # 0 /\ bindings' = remove_binding(bindings, p)
    BY <1>3 DEF handle_DHCP_Decline
  <2>2. CASE UNCHANGED bindings
    BY <1>3, <2>2 DEF handle_DHCP_Decline, Effect, Nothing
  <2>3. CASE p # 0 /\ bindings' = remove_binding(bindings, p)
    <3>1. /\ p \in 1 .. Len(bindings)
          /\ bindings[p].status = ASSOCIATED
          /\ Carries(bindings[p], m)
      BY <2>1, <2>3, SearchFinds DEF Carries
    <3>2. Declined(m, p)
      BY <1>3, <2>3, <3>1 DEF handle_DHCP_Decline, Declined
    <3> QED
      BY <3>1, <3>2 DEF Effect
  <2> QED
    BY <2>1, <2>2, <2>3
<1>4. CASE handle_DHCP_Release(m)
  <2>1. PICK p \in 0 .. Len(bindings) :
          /\ search_binding(bindings, m.chaddr, m.hlen, STATIC_OR_DYNAMIC, ASSOCIATED, p)
          /\ \/ UNCHANGED bindings
             \/ /\ p # 0
                /\ bindings' = [bindings EXCEPT ![p].status = RELEASED, ![p].lease_time = 0]
    BY <1>4 DEF handle_DHCP_Release
  <2>2. CASE UNCHANGED bindings
    BY <1>4, <2>2 DEF handle_DHCP_Release, Effect, Nothing
  <2>3. CASE p # 0 /\ bindings' = [bindings EXCEPT ![p].status = RELEASED, ![p].lease_time = 0]
    <3>1. /\ p \in 1 .. Len(bindings)
          /\ bindings[p].status = ASSOCIATED
          /\ Carries(bindings[p], m)
      BY <2>1, <2>3, SearchFinds DEF Carries
    <3>2. Released(m, p)
      BY <1>4, <2>3, <3>1 DEF handle_DHCP_Release, Released
    <3> QED
      BY <3>1, <3>2 DEF Effect
  <2> QED
    BY <2>1, <2>2, <2>3
<1>5. CASE handle_DHCP_Inform_Reply(m) \/ send_DHCP_NACK(m) \/ Ignore
  BY <1>5 DEF handle_DHCP_Inform_Reply, send_DHCP_NACK, Ignore, Effect, Nothing
<1> QED
  BY <1>1, <1>2, <1>3, <1>4, <1>5, Dispatch

\* What the list is after a binding was inserted.
LEMMA Inserted ==
  ASSUME TypeOK, NEW m \in Datagrams, NEW ip \in Addresses,
         bindings' = LIST_INSERT_HEAD(bindings, NewBinding(m, ip))
  PROVE  /\ Len(bindings') = Len(bindings) + 1
         /\ bindings'[1] = NewBinding(m, ip)
         /\ \A i \in 2 .. Len(bindings) + 1 : bindings'[i] = bindings[i - 1]
<1> DEFINE b == NewBinding(m, ip)
<1>1. b \in ABinding
  BY DatagramFields, LeaseEnd DEF NewBinding, ABinding, Binding
<1>2. bindings \in Seq(ABinding)
  BY DEF TypeOK, ABinding
<1>3. bindings' = LIST_INSERT_HEAD(bindings, b)
  OBVIOUS
<1> HIDE DEF b
<1> DEFINE longer == LIST_INSERT_HEAD(bindings, b)
<1>4. /\ Len(longer) = Len(bindings) + 1
      /\ longer[1] = b
      /\ \A i \in 2 .. Len(bindings) + 1 : longer[i] = bindings[i - 1]
  BY ONLY <1>1, <1>2, InsertHead
<1> QED
  BY <1>3, <1>4 DEF b

\* Each effect keeps the list sorted and behind the cursor, because a new
\* address lies above the cursor.
LEMMA EffectOrder ==
  ASSUME TypeOK, NewestFirst, NEW m \in Datagrams, Effect(m)
  PROVE  NewestFirst'
<1>0. /\ Len(bindings) \in Nat /\ bindings \in Seq(ABinding)
      /\ ip_current \in Int /\ ipFirst \in Int /\ ipLast \in Int /\ ip_current >= ipFirst
      /\ \A i \in 1 .. Len(bindings) :
           bindings[i].address \in Int /\ bindings[i].address > ipFirst
             /\ bindings[i].address <= ip_current
      /\ \A i, j \in 1 .. Len(bindings) : i < j => bindings[i].address > bindings[j].address
  BY ListFacts DEF NewestFirst
<1>1. CASE Nothing
  BY <1>1 DEF Nothing, NewestFirst
<1>2. ASSUME NEW ip \in Addresses, Wasted(ip) PROVE NewestFirst'
  BY <1>0, <1>2 DEF Wasted, Advanced, NewestFirst
<1>3. ASSUME NEW ip \in Addresses, BoundTo(m, ip) PROVE NewestFirst'
  <2>1. NewBinding(m, ip) \in ABinding
    BY DatagramFields, LeaseEnd DEF NewBinding, ABinding, Binding
  <2>2. /\ Len(bindings') = Len(bindings) + 1
        /\ bindings'[1] = NewBinding(m, ip)
        /\ \A i \in 2 .. Len(bindings) + 1 : bindings'[i] = bindings[i - 1]
    BY <1>3, Inserted DEF BoundTo
  <2>3. bindings'[1].address = ip /\ ip_current' = ip /\ ip > ip_current /\ ip \in Int
    BY <1>0, <1>3, <2>2 DEF BoundTo, Advanced, NewBinding
  <2>4. \A i \in 1 .. Len(bindings') :
          i = 1 \/ (i - 1 \in 1 .. Len(bindings) /\ bindings'[i] = bindings[i - 1])
    BY <1>0, <2>2
  <2>5. ASSUME NEW i \in 1 .. Len(bindings')
        PROVE  bindings'[i].address \in ipFirst + 1 .. ip_current'
    <3>1. CASE i = 1
      BY <1>0, <2>3, <3>1
    <3>2. CASE i # 1
      <4>1. i - 1 \in 1 .. Len(bindings) /\ bindings'[i] = bindings[i - 1]
        BY <1>0, <2>2, <2>4, <3>2
      <4> QED
        BY <1>0, <2>3, <4>1
    <3> QED
      BY <3>1, <3>2
  <2>6. ASSUME NEW i \in 1 .. Len(bindings'), NEW j \in 1 .. Len(bindings'), i < j
        PROVE  bindings'[i].address > bindings'[j].address
    <3>1. j - 1 \in 1 .. Len(bindings) /\ bindings'[j] = bindings[j - 1]
      BY <1>0, <2>2, <2>4, <2>6
    <3>2. CASE i = 1
      BY <1>0, <2>3, <3>1, <3>2
    <3>3. CASE i # 1
      <4>1. i - 1 \in 1 .. Len(bindings) /\ bindings'[i] = bindings[i - 1] /\ i - 1 < j - 1
        BY <1>0, <2>2, <2>4, <2>6, <3>3
      <4> QED
        BY <1>0, <3>1, <4>1
    <3> QED
      BY <3>2, <3>3
  <2> QED
    BY <2>5, <2>6 DEF NewestFirst
<1>4. ASSUME NEW p \in 1 .. Len(bindings), Confirmed(m, p) PROVE NewestFirst'
  BY <1>4 DEF Confirmed, NewestFirst
<1>5. ASSUME NEW p \in 1 .. Len(bindings), Declined(m, p) PROVE NewestFirst'
  <2>1. /\ Len(bindings') = Len(bindings) - 1
        /\ \A i \in 1 .. Len(bindings) - 1 :
             bindings'[i] = bindings[IF i < p THEN i ELSE i + 1]
    <3>1. bindings' = remove_binding(bindings, p)
      BY <1>5 DEF Declined
    <3>2. bindings \in Seq(ABinding)
      BY <1>0
    <3>3. /\ Len(remove_binding(bindings, p)) = Len(bindings) - 1
         /\ \A i \in 1 .. Len(bindings) - 1 :
              remove_binding(bindings, p)[i] = bindings[IF i < p THEN i ELSE i + 1]
      BY <3>2, RemoveAt, Zenon
    <3> QED
      BY <3>1, <3>3
  <2>2. ip_current' = ip_current
    BY <1>5 DEF Declined
  <2>3. ASSUME NEW i \in 1 .. Len(bindings')
        PROVE  bindings'[i].address \in ipFirst + 1 .. ip_current'
    <3> DEFINE k == IF i < p THEN i ELSE i + 1
    <3>1. k \in 1 .. Len(bindings) /\ i \in 1 .. Len(bindings) - 1
      BY <1>0, <2>1
    <3>2. bindings'[i] = bindings[k]
      BY <2>1, <3>1
    <3> HIDE DEF k
    <3> QED
      BY <1>0, <2>2, <3>1, <3>2
  <2>4. ASSUME NEW i \in 1 .. Len(bindings'), NEW j \in 1 .. Len(bindings'), i < j
        PROVE  bindings'[i].address > bindings'[j].address
    <3> DEFINE old(k) == IF k < p THEN k ELSE k + 1
    <3>1. /\ old(i) \in 1 .. Len(bindings) /\ old(j) \in 1 .. Len(bindings) /\ old(i) < old(j)
      BY <1>0, <2>1, <2>4
    <3>2. bindings'[i] = bindings[old(i)] /\ bindings'[j] = bindings[old(j)]
      BY <2>1
    <3> HIDE DEF old
    <3> QED
      BY <1>0, <3>1, <3>2
  <2> QED
    BY <2>3, <2>4 DEF NewestFirst
<1>6. ASSUME NEW p \in 1 .. Len(bindings), Released(m, p) PROVE NewestFirst'
  <2>1. /\ Len(bindings') = Len(bindings)
        /\ \A i \in 1 .. Len(bindings) : bindings'[i].address = bindings[i].address
    <3>1. bindings' = WithReleased(bindings, p)
      BY <1>6 DEF Released, WithReleased
    <3> QED
      BY <1>0, <3>1, ReleaseAt
  <2>2. ip_current' = ip_current
    BY <1>6 DEF Released
  <2> QED
    BY <1>0, <2>1, <2>2 DEF NewestFirst
<1> QED
  BY <1>1, <1>2, <1>3, <1>4, <1>5, <1>6 DEF Effect

\* A new announcement tells the client of the address.
LEMMA NewAnnouncement ==
  ASSUME NEW c, NEW a, NEW t \in Told(c, a), t \notin told
  PROVE  t.client = Station(c) /\ t.address = a
BY DEF Told

\* In a sorted list every address stands once.
LEMMA AddressOnce ==
  ASSUME TypeOK, NewestFirst, NEW i \in 1 .. Len(bindings), NEW j \in 1 .. Len(bindings),
         bindings[i].address = bindings[j].address
  PROVE  i = j
<1>1. bindings[i].address \in Int /\ Len(bindings) \in Nat
  BY ListFacts
<1>2. ~ (i < j) /\ ~ (j < i)
  BY <1>1 DEF NewestFirst
<1> QED
  BY <1>1, <1>2

\* Each effect announces an address only to the client it is bound to.
LEMMA EffectTold ==
  ASSUME IInv, NEW m \in Datagrams, Effect(m)
  PROVE  ToldOwned' /\ OneClientPerAddress'
<1> USE DEF IInv
<1>0. /\ Len(bindings) \in Nat /\ bindings \in Seq(ABinding)
      /\ ip_current \in Int /\ ipFirst \in Int /\ ipLast \in Int /\ ip_current >= ipFirst
      /\ \A i \in 1 .. Len(bindings) : bindings[i].address \in ipFirst + 1 .. ip_current
  BY ListFacts DEF NewestFirst
<1>1. CASE Nothing
  BY <1>1 DEF Nothing, ToldOwned, OneClientPerAddress
<1>2. ASSUME NEW ip \in Addresses, Wasted(ip) PROVE ToldOwned' /\ OneClientPerAddress'
  BY <1>0, <1>2 DEF Wasted, Advanced, ToldOwned, OneClientPerAddress
<1>3. ASSUME NEW ip \in Addresses, BoundTo(m, ip) PROVE ToldOwned' /\ OneClientPerAddress'
  <2>1. NewBinding(m, ip) \in ABinding
    BY DatagramFields, LeaseEnd DEF NewBinding, ABinding, Binding
  <2>2. /\ Len(bindings') = Len(bindings) + 1
        /\ bindings'[1] = NewBinding(m, ip)
        /\ \A i \in 2 .. Len(bindings) + 1 : bindings'[i] = bindings[i - 1]
    BY <1>3, Inserted DEF BoundTo
  <2>3. /\ bindings'[1].address = ip /\ bindings'[1].cident = m.chaddr
        /\ ip_current' = ip /\ ip > ip_current /\ ip \in Int
    BY <1>0, <1>3, <2>2 DEF BoundTo, Advanced, NewBinding
  <2>4. \A i \in 1 .. Len(bindings') :
          i = 1 \/ (i - 1 \in 1 .. Len(bindings) /\ bindings'[i] = bindings[i - 1])
    BY <1>0, <2>2
  <2>5. \A t \in told' : t \in told \/ (t.client = Station(m.chaddr) /\ t.address = ip)
    BY <1>3, NewAnnouncement DEF BoundTo
  <2>6. ASSUME NEW t \in told'
        PROVE  t.address \in ipFirst + 1 .. ip \/ t.address = ip
    BY <1>0, <2>3, <2>5, <2>6 DEF ToldOwned
  <2>7. ASSUME NEW t \in told', NEW i \in 1 .. Len(bindings'),
               bindings'[i].address = t.address
        PROVE  Station(bindings'[i].cident) = t.client
    <3>1. CASE t \in told
      <4>1. t.address \in ipFirst + 1 .. ip_current
        BY <2>7, <3>1 DEF ToldOwned
      <4>2. i # 1
        BY <1>0, <2>3, <2>7, <4>1
      <4>3. i - 1 \in 1 .. Len(bindings) /\ bindings'[i] = bindings[i - 1]
        BY <2>4, <4>2
      <4> QED
        BY <2>7, <3>1, <4>3 DEF ToldOwned
    <3>2. CASE t \notin told
      <4>1. t.client = Station(m.chaddr) /\ t.address = ip
        BY <2>5, <3>2
      <4>2. i = 1
        <5>1. CASE i # 1
          <6>1. i - 1 \in 1 .. Len(bindings) /\ bindings'[i] = bindings[i - 1]
            BY <2>4, <5>1
          <6> QED
            BY <1>0, <2>3, <2>7, <4>1, <6>1
        <5> QED
          BY <5>1
      <4> QED
        BY <2>3, <4>1, <4>2
    <3> QED
      BY <3>1, <3>2
  <2>8. ASSUME NEW s \in told', NEW t \in told', s.address = t.address
        PROVE  s.client = t.client
    <3>1. CASE s \in told /\ t \in told
      BY <2>8, <3>1 DEF OneClientPerAddress
    <3>2. CASE s \notin told /\ t \notin told
      BY <2>5, <3>2
    <3>3. \A u \in told : u.address # ip
      BY <1>0, <2>3 DEF ToldOwned
    <3> QED
      BY <2>5, <2>8, <3>1, <3>2, <3>3
  <2>9. ip \in ipFirst + 1 .. ip
    BY <1>0, <2>3
  <2> QED
    BY <2>3, <2>6, <2>7, <2>8, <2>9 DEF ToldOwned, OneClientPerAddress
<1>4. ASSUME NEW p \in 1 .. Len(bindings), Confirmed(m, p)
      PROVE  ToldOwned' /\ OneClientPerAddress'
  <2>1. /\ Station(bindings[p].cident) = Station(m.chaddr)
        /\ UNCHANGED <<ip_current, bindings>>
    BY <1>4 DEF Confirmed
  <2>2. \A t \in told' : \/ t \in told
                         \/ /\ t.client = Station(bindings[p].cident)
                            /\ t.address = bindings[p].address
    BY <1>4, <2>1, NewAnnouncement DEF Confirmed
  <2>3. ToldOwned'
    <3>1. ASSUME NEW t \in told'
          PROVE  t.address \in ipFirst + 1 .. ip_current
      BY <1>0, <2>2, <3>1 DEF ToldOwned
    <3>2. ASSUME NEW t \in told', NEW i \in 1 .. Len(bindings),
                 bindings[i].address = t.address
          PROVE  Station(bindings[i].cident) = t.client
      <4>1. CASE t \in told
        BY <3>2, <4>1 DEF ToldOwned
      <4>2. CASE t \notin told
        <5>1. t.client = Station(bindings[p].cident) /\ bindings[i].address = bindings[p].address
          BY <2>2, <3>2, <4>2
        <5>2. i = p
          BY <5>1, AddressOnce
        <5> QED
          BY <5>1, <5>2
      <4> QED
        BY <4>1, <4>2
    <3> QED
      BY <2>1, <3>1, <3>2 DEF ToldOwned
  <2>4. OneClientPerAddress'
    BY <2>2 DEF ToldOwned, OneClientPerAddress
  <2> QED
    BY <2>3, <2>4
<1>5. ASSUME NEW p \in 1 .. Len(bindings), Declined(m, p)
      PROVE  ToldOwned' /\ OneClientPerAddress'
  <2>1. \A i \in 1 .. Len(bindings') :
          \E k \in 1 .. Len(bindings) : bindings'[i] = bindings[k]
    <3>1. /\ Len(bindings') = Len(bindings) - 1
          /\ \A i \in 1 .. Len(bindings) - 1 :
               bindings'[i] = bindings[IF i < p THEN i ELSE i + 1]
      <4>1. bindings' = remove_binding(bindings, p)
        BY <1>5 DEF Declined
      <4>2. bindings \in Seq(ABinding)
        BY <1>0
      <4>3. /\ Len(remove_binding(bindings, p)) = Len(bindings) - 1
           /\ \A i \in 1 .. Len(bindings) - 1 :
                remove_binding(bindings, p)[i] = bindings[IF i < p THEN i ELSE i + 1]
        BY <4>2, RemoveAt, Zenon
      <4> QED
        BY <4>1, <4>3
    <3>2. ASSUME NEW i \in 1 .. Len(bindings')
          PROVE  \E k \in 1 .. Len(bindings) : bindings'[i] = bindings[k]
      <4> DEFINE k == IF i < p THEN i ELSE i + 1
      <4>1. k \in 1 .. Len(bindings) /\ i \in 1 .. Len(bindings) - 1
        BY <1>0, <3>1
      <4>2. bindings'[i] = bindings[k]
        BY <3>1, <4>1
      <4> QED
        BY <4>1, <4>2
    <3> QED
      BY <3>2
  <2>2. UNCHANGED <<ip_current, told>>
    BY <1>5 DEF Declined
  <2> QED
    BY <2>1, <2>2 DEF ToldOwned, OneClientPerAddress
<1>6. ASSUME NEW p \in 1 .. Len(bindings), Released(m, p)
      PROVE  ToldOwned' /\ OneClientPerAddress'
  <2>1. bindings' = WithReleased(bindings, p)
    BY <1>6 DEF Released, WithReleased
  <2>2. /\ Len(bindings') = Len(bindings)
        /\ \A i \in 1 .. Len(bindings) : /\ bindings'[i].address = bindings[i].address
                                         /\ bindings'[i].cident = bindings[i].cident
    BY <1>0, <2>1, ReleaseAt
  <2>3. UNCHANGED <<ip_current, told>>
    BY <1>6 DEF Released
  <2> QED
    BY <2>2, <2>3 DEF ToldOwned, OneClientPerAddress
<1> QED
  BY <1>1, <1>2, <1>3, <1>4, <1>5, <1>6 DEF Effect

\* Init establishes the invariant.
LEMMA InitIInv == Init => IInv
<1> SUFFICES ASSUME Init PROVE IInv
  OBVIOUS
<1>1. Len(bindings) = 0 /\ told = {}
  BY DEF Init
<1> QED
  BY <1>1, InitType DEF IInv, NewestFirst, ToldOwned, OneClientPerAddress

\* Every step keeps it.
LEMMA StepIInv == IInv /\ [Next]_vars => IInv'
<1> SUFFICES ASSUME IInv, [Next]_vars PROVE IInv'
  OBVIOUS
<1>1. TypeOK'
  BY TypeStep DEF IInv
<1>2. CASE HandleRequest
  <2>1. request \in Datagrams /\ handle_client(request)
    BY <1>2 DEF HandleRequest, IInv, TypeOK
  <2>2. Effect(request)
    BY <2>1, HandlerEffect DEF IInv
  <2> QED
    BY <1>1, <2>1, <2>2, EffectOrder, EffectTold DEF IInv
<1>3. CASE Restart
  <2>1. Len(bindings') = 0 /\ told' = {}
    BY <1>3 DEF Restart
  <2>3. NewestFirst'
    BY <2>1 DEF NewestFirst
  <2>4. ToldOwned' /\ OneClientPerAddress'
    BY <2>1 DEF ToldOwned, OneClientPerAddress
  <2> QED
    BY <1>1, <2>3, <2>4 DEF IInv
<1>4. CASE TakeRequest \/ ReceiveFails \/ Tick \/ UNCHANGED vars
  <2>1. UNCHANGED <<ip_current, bindings, told>>
    BY <1>4 DEF TakeRequest, ReceiveFails, Tick, vars
  <2> QED
    BY <1>1, <2>1 DEF IInv, NewestFirst, ToldOwned, OneClientPerAddress
<1> QED
  BY <1>2, <1>3, <1>4 DEF Next, Rest

\* The invariant holds in every reachable state.
LEMMA Inductive == Spec => []IInv
BY InitIInv, StepIInv, PTL DEF Spec

\* The list is sorted by address, newest first, behind the cursor, for every
\* pool and whatever the clients send.
THEOREM ListSorted == Spec => []NewestFirst
<1>1. IInv => NewestFirst
  BY DEF IInv
<1> QED
  BY Inductive, <1>1, PTL

\* The address after the cursor is free, so the search for a free address
\* never has to go past its first candidate.
THEOREM SearchIsImmediate == Spec => []NextIsFree
<1>1. IInv => NextIsFree
  <2> SUFFICES ASSUME IInv, ip_current < ipLast PROVE is_ip_available(ip_current + 1)
    BY DEF NextIsFree
  <2>1. /\ ip_current \in Int /\ ipFirst \in Int /\ ipLast \in Int /\ ip_current >= ipFirst
        /\ \A i \in 1 .. Len(bindings) : bindings[i].address \in ipFirst + 1 .. ip_current
    BY ListFacts DEF IInv, NewestFirst
  <2> QED
    BY <2>1 DEF is_ip_available, Addresses
<1> QED
  BY Inductive, <1>1, PTL

\* Within a life of the process no address is announced to two clients.
THEOREM NoAddressGivenTwice == Spec => []OneClientPerAddress
<1>1. IInv => OneClientPerAddress
  BY DEF IInv
<1> QED
  BY Inductive, <1>1, PTL

-----------------------------------------------------------------------------
(* The age of the bindings *)

\* Place k of the list is where the binding now at place i was; 0 for a new
\* one, which stands first, was made now and has an address not used before.
Origin(i, k) ==
  \/ /\ k = 0 /\ i = 1
     /\ bindings'[i].binding_time = now
     /\ bindings'[i].address > ip_current
  \/ /\ k \in 1 .. Len(bindings)
     /\ bindings'[i].address = bindings[k].address
     /\ bindings'[i].binding_time = bindings[k].binding_time

\* Every binding of the next list comes from somewhere, in the same order.
Origins(from) == /\ \A i \in 1 .. Len(bindings') : from[i] \in Nat /\ Origin(i, from[i])
                 /\ \A i, j \in 1 .. Len(bindings') : i < j => from[i] < from[j]

\* The numbers of a binding.
LEMMA Stamps ==
  ASSUME TypeOK, NEW i \in 1 .. Len(bindings)
  PROVE  bindings[i].binding_time \in Int /\ bindings[i].address \in Int
<1>1. bindings[i] \in ABinding
  BY ElementOfSeq DEF TypeOK, ABinding
<1> QED
  BY <1>1, PoolAssumption DEF ABinding, Binding, Times, Addresses

\* An unchanged list is its own origin.
LEMMA SameOrigins ==
  ASSUME TypeOK, UNCHANGED bindings
  PROVE  Origins([i \in 1 .. Len(bindings) |-> i])
<1>1. Len(bindings) \in Nat
  BY ListFacts
<1> QED
  BY <1>1, Stamps DEF Origins, Origin

\* Whatever the effect of a handler is, the bindings it leaves have origins.
LEMMA EffectOrigins ==
  ASSUME TypeOK, NewestFirst, NEW m \in Datagrams, Effect(m)
  PROVE  \E from : Origins(from)
<1>0. Len(bindings) \in Nat /\ bindings \in Seq(ABinding) /\ ip_current \in Int
  BY ListFacts
<1>1. CASE Nothing
  BY <1>1, SameOrigins DEF Nothing
<1>2. ASSUME NEW ip \in Addresses, Wasted(ip) PROVE \E from : Origins(from)
  BY <1>2, SameOrigins DEF Wasted
<1>3. ASSUME NEW ip \in Addresses, BoundTo(m, ip) PROVE \E from : Origins(from)
  <2> DEFINE from == [i \in 1 .. Len(bindings) + 1 |-> i - 1]
  <2>1. /\ Len(bindings') = Len(bindings) + 1
        /\ bindings'[1] = NewBinding(m, ip)
        /\ \A i \in 2 .. Len(bindings) + 1 : bindings'[i] = bindings[i - 1]
    BY <1>3, Inserted DEF BoundTo
  <2>2. Origin(1, 0)
    <3>1. ip \in ip_current + 1 .. ipLast
      BY <1>3 DEF BoundTo, Advanced
    <3>2. ip > ip_current
      BY <1>0, <3>1, PoolAssumption
    <3> QED
      BY <2>1, <3>2 DEF Origin, NewBinding
  <2>3. ASSUME NEW i \in 2 .. Len(bindings) + 1 PROVE Origin(i, i - 1)
    <3>1. i - 1 \in 1 .. Len(bindings)
      BY <1>0
    <3> QED
      BY <2>1, <3>1, Stamps DEF Origin
  <2>4. ASSUME NEW i \in 1 .. Len(bindings') PROVE from[i] \in Nat /\ Origin(i, from[i])
    BY <1>0, <2>1, <2>2, <2>3
  <2>5. \A i, j \in 1 .. Len(bindings') : i < j => from[i] < from[j]
    BY <1>0, <2>1
  <2> QED
    BY <2>4, <2>5 DEF Origins
<1>4. ASSUME NEW p \in 1 .. Len(bindings), Confirmed(m, p) PROVE \E from : Origins(from)
  BY <1>4, SameOrigins DEF Confirmed
<1>5. ASSUME NEW p \in 1 .. Len(bindings), Declined(m, p) PROVE \E from : Origins(from)
  <2> DEFINE from == [i \in 1 .. Len(bindings) - 1 |-> IF i < p THEN i ELSE i + 1]
  <2>1. /\ Len(bindings') = Len(bindings) - 1
        /\ \A i \in 1 .. Len(bindings) - 1 :
             bindings'[i] = bindings[IF i < p THEN i ELSE i + 1]
    <3>1. bindings' = remove_binding(bindings, p)
      BY <1>5 DEF Declined
    <3>2. /\ Len(remove_binding(bindings, p)) = Len(bindings) - 1
          /\ \A i \in 1 .. Len(bindings) - 1 :
               remove_binding(bindings, p)[i] = bindings[IF i < p THEN i ELSE i + 1]
      BY <1>0, RemoveAt, Zenon
    <3> QED
      BY <3>1, <3>2
  <2>2. ASSUME NEW i \in 1 .. Len(bindings') PROVE from[i] \in Nat /\ Origin(i, from[i])
    <3>1. from[i] \in 1 .. Len(bindings) /\ from[i] \in Nat
      BY <1>0, <2>1
    <3>2. bindings'[i] = bindings[from[i]]
      BY <2>1
    <3> HIDE DEF from
    <3> QED
      BY <3>1, <3>2, Stamps DEF Origin
  <2>3. \A i, j \in 1 .. Len(bindings') : i < j => from[i] < from[j]
    BY <1>0, <2>1
  <2> QED
    BY <2>2, <2>3 DEF Origins
<1>6. ASSUME NEW p \in 1 .. Len(bindings), Released(m, p) PROVE \E from : Origins(from)
  <2> DEFINE from == [i \in 1 .. Len(bindings) |-> i]
  <2>1. bindings' = WithReleased(bindings, p)
    BY <1>6 DEF Released, WithReleased
  <2>2. /\ Len(bindings') = Len(bindings)
        /\ \A i \in 1 .. Len(bindings) :
             /\ bindings'[i].address = bindings[i].address
             /\ bindings'[i].binding_time = bindings[i].binding_time
    BY <1>0, <2>1, ReleaseAt
  <2>3. ASSUME NEW i \in 1 .. Len(bindings') PROVE from[i] \in Nat /\ Origin(i, from[i])
    <3>1. from[i] = i /\ i \in 1 .. Len(bindings) /\ i \in Nat
      BY <1>0, <2>2
    <3> HIDE DEF from
    <3> QED
      BY <2>2, <3>1 DEF Origin
  <2>4. \A i, j \in 1 .. Len(bindings') : i < j => from[i] < from[j]
    BY <1>0, <2>2
  <2> QED
    BY <2>3, <2>4 DEF Origins
<1> QED
  BY <1>1, <1>2, <1>3, <1>4, <1>5, <1>6 DEF Effect

\* Besides the handlers only a new life touches the list.
LEMMA StepOrigins ==
  ASSUME IInv, [Next]_vars
  PROVE  \/ Restart
         \/ /\ now' >= now
            /\ \E from : Origins(from)
<1>0. now \in Int
  BY DEF IInv, TypeOK
<1>1. CASE HandleRequest
  <2>1. request \in Datagrams /\ handle_client(request) /\ now' = now
    BY <1>1 DEF HandleRequest, IInv, TypeOK
  <2> QED
    BY <1>0, <2>1, HandlerEffect, EffectOrigins DEF IInv
<1>2. CASE TakeRequest \/ ReceiveFails \/ Tick \/ UNCHANGED vars
  <2>1. UNCHANGED bindings /\ now' >= now
    BY <1>0, <1>2 DEF TakeRequest, ReceiveFails, Tick, vars
  <2> QED
    BY <2>1, SameOrigins DEF IInv
<1> QED
  BY <1>1, <1>2 DEF Next, Rest

\* No binding is from the future, and the list is sorted by age.
ByAge ==
  /\ \A i \in 1 .. Len(bindings) : bindings[i].binding_time <= now
  /\ \A i, j \in 1 .. Len(bindings) :
       i < j => bindings[i].binding_time >= bindings[j].binding_time

LEMMA StepByAge == IInv /\ ByAge /\ [Next]_vars => ByAge'
<1> SUFFICES ASSUME IInv, ByAge, [Next]_vars PROVE ByAge'
  OBVIOUS
<1>1. CASE Restart
  <2>1. Len(bindings') = 0
    BY <1>1 DEF Restart
  <2> QED
    BY <2>1 DEF ByAge
<1>2. CASE now' >= now /\ \E from : Origins(from)
  <2>1. PICK from : Origins(from)
    BY <1>2
  <2>2. now \in Int /\ now' \in Int
    BY TypeStep DEF IInv, TypeOK
  <2>3. \A k \in 1 .. Len(bindings) : bindings[k].binding_time \in Int
    BY Stamps DEF IInv
  <2>4. ASSUME NEW i \in 1 .. Len(bindings')
        PROVE  bindings'[i].binding_time <= now /\ bindings'[i].binding_time \in Int
    BY <2>1, <2>2, <2>3 DEF Origins, Origin, ByAge
  <2>5. ASSUME NEW i \in 1 .. Len(bindings'), NEW j \in 1 .. Len(bindings'), i < j
        PROVE  bindings'[i].binding_time >= bindings'[j].binding_time
    <3>1. /\ from[i] < from[j] /\ from[i] \in Nat /\ from[j] \in Nat
          /\ Origin(i, from[i]) /\ Origin(j, from[j])
      BY <2>1, <2>5 DEF Origins
    <3>2. from[j] \in 1 .. Len(bindings) /\ bindings'[j].binding_time = bindings[from[j]].binding_time
      BY <3>1 DEF Origin
    <3>3. CASE from[i] = 0
      BY <2>2, <2>3, <3>1, <3>2, <3>3 DEF Origin, ByAge
    <3>4. CASE from[i] # 0
      BY <3>1, <3>2, <3>4 DEF Origin, ByAge
    <3> QED
      BY <3>3, <3>4
  <2>6. \A i \in 1 .. Len(bindings') : bindings'[i].binding_time <= now'
    BY <1>2, <2>2, <2>4
  <2> QED
    BY <2>5, <2>6 DEF ByAge
<1> QED
  BY <1>1, <1>2, StepOrigins

\* Of two bindings the one with the higher address is no older, whatever was
\* released or declined between them and however the clock runs.
THEOREM ListByAge == Spec => []NewestIsYoungest
<1>1. Init => ByAge
  BY DEF Init, ByAge
<1>2. IInv /\ ByAge => NewestIsYoungest
  <2> SUFFICES ASSUME IInv, ByAge,
                      NEW i \in 1 .. Len(bindings), NEW j \in 1 .. Len(bindings),
                      bindings[i].address > bindings[j].address
               PROVE  bindings[i].binding_time >= bindings[j].binding_time
    BY DEF NewestIsYoungest
  <2>1. bindings[i].address \in Int /\ bindings[j].address \in Int /\ Len(bindings) \in Nat
    BY ListFacts DEF IInv
  <2>2. i < j
    BY <2>1 DEF IInv, NewestFirst
  <2> QED
    BY <2>2 DEF ByAge
<1> QED
  BY Inductive, <1>1, <1>2, StepByAge, PTL DEF Spec

-----------------------------------------------------------------------------
(* The ACK *)

\* Only send_DHCP_Ack sends an ACK, with the address search_binding found.
LEMMA AckFrom ==
  ASSUME NEW m, handle_client(m), reply' # None, reply'.type = DHCP_ACK
  PROVE  \E p \in 0 .. Len(bindings) :
           /\ p # 0
           /\ search_binding(bindings, m.chaddr, ETHERNET_LEN, STATIC_OR_DYNAMIC, ASSOCIATED, p)
           /\ reply'.chaddr = m.chaddr
           /\ reply'.yiaddr = bindings[p].address
<1>1. CASE Ignore
  BY <1>1 DEF Ignore, Unsent
<1>2. CASE send_DHCP_Offer(m)
  BY <1>2 DEF send_DHCP_Offer, TakeAddress, Unsent, Reply
<1>3. CASE send_DHCP_Ack(m)
  BY <1>3 DEF send_DHCP_Ack, SendOrExit, Unsent, Reply
<1>4. CASE handle_DHCP_Decline(m)
  BY <1>4 DEF handle_DHCP_Decline, Unsent
<1>5. CASE handle_DHCP_Release(m)
  BY <1>5 DEF handle_DHCP_Release, Unsent
<1>6. CASE handle_DHCP_Inform_Reply(m)
  BY <1>6 DEF handle_DHCP_Inform_Reply, SendOrExit, Unsent, Reply
<1>7. CASE send_DHCP_NACK(m)
  BY <1>7 DEF send_DHCP_NACK, SendOrExit, Unsent, Reply
<1> QED
  BY <1>1, <1>2, <1>3, <1>4, <1>5, <1>6, <1>7, Dispatch

\* The first match in a list sorted by address has the client's latest one.
LEMMA FirstIsNewest ==
  ASSUME IInv, NEW c, NEW p \in 0 .. Len(bindings), p # 0,
         search_binding(bindings, c, ETHERNET_LEN, STATIC_OR_DYNAMIC, ASSOCIATED, p)
  PROVE  /\ p \in Active(c)
         /\ \A i \in Active(c) : bindings[i].address <= bindings[p].address
<1>0. Len(bindings) \in Nat /\ \A i \in 1 .. Len(bindings) : bindings[i].address \in Int
  BY ListFacts DEF IInv
<1>1. /\ p \in 1 .. Len(bindings)
      /\ Matches(bindings[p], c, ETHERNET_LEN, STATIC_OR_DYNAMIC, ASSOCIATED)
      /\ \A q \in 1 .. p - 1 :
           ~ Matches(bindings[q], c, ETHERNET_LEN, STATIC_OR_DYNAMIC, ASSOCIATED)
  BY <1>0 DEF search_binding
<1>2. p \in Active(c)
  BY <1>1 DEF Matches, Active, SameBytes, Station
<1>3. ASSUME NEW i \in Active(c) PROVE bindings[i].address <= bindings[p].address
  <2>1. /\ i \in 1 .. Len(bindings)
        /\ Matches(bindings[i], c, ETHERNET_LEN, STATIC_OR_DYNAMIC, ASSOCIATED)
    BY DEF Matches, Active, SameBytes, Station
  <2>2. ~ (i < p)
    BY <1>0, <1>1, <2>1
  <2>3. CASE i = p
    BY <1>0, <2>1, <2>3
  <2>4. CASE p < i
    BY <1>0, <1>1, <2>1, <2>4 DEF IInv, NewestFirst
  <2> QED
    BY <1>0, <1>1, <2>1, <2>2, <2>3, <2>4
<1> QED
  BY <1>2, <1>3

\* An ACK confirms the newest address its client holds, for any list and
\* whatever the client was offered, released or declined before.
THEOREM AckIsNewest == Spec => AckServesNewest
<1> DEFINE Served ==
      reply' # reply /\ reply' # None /\ reply'.type = DHCP_ACK
        => /\ \E i \in Active(reply'.chaddr) : bindings[i].address = reply'.yiaddr
           /\ \A i \in Active(reply'.chaddr) : bindings[i].address <= reply'.yiaddr
<1>1. IInv /\ [Next]_vars => Served
  <2> SUFFICES ASSUME IInv, [Next]_vars,
                      reply' # reply, reply' # None, reply'.type = DHCP_ACK
               PROVE  /\ \E i \in Active(reply'.chaddr) : bindings[i].address = reply'.yiaddr
                      /\ \A i \in Active(reply'.chaddr) : bindings[i].address <= reply'.yiaddr
    OBVIOUS
  <2>1. handle_client(request)
    BY DEF Next, TakeRequest, HandleRequest, ReceiveFails, Tick, Restart, Rest, vars
  <2>2. PICK p \in 0 .. Len(bindings) :
          /\ p # 0
          /\ search_binding(bindings, request.chaddr, ETHERNET_LEN, STATIC_OR_DYNAMIC,
                            ASSOCIATED, p)
          /\ reply'.chaddr = request.chaddr
          /\ reply'.yiaddr = bindings[p].address
    BY <2>1, AckFrom
  <2>3. /\ p \in Active(request.chaddr)
        /\ \A i \in Active(request.chaddr) : bindings[i].address <= bindings[p].address
    BY <2>2, FirstIsNewest
  <2> QED
    BY <2>2, <2>3
<1> QED
  BY Inductive, <1>1, PTL DEF Spec, AckServesNewest

-----------------------------------------------------------------------------
(* The bindings with another identifier *)

\* Two lists hold the same bindings that do not carry the identifier of m when
\* each has the other's bindings of this kind.
SharesOthers(old, new, m) ==
  \A i \in 1 .. Len(old) :
    ~ Carries(old[i], m) => \E j \in 1 .. Len(new) : new[j] = old[i]

LEMMA SameBindings ==
  ASSUME NEW old, NEW new, NEW m,
         SharesOthers(old, new, m), SharesOthers(new, old, m)
  PROVE  OtherBindings(new, m) = OtherBindings(old, m)
<1>1. ASSUME NEW b \in OtherBindings(old, m) PROVE b \in OtherBindings(new, m)
  <2>1. PICK i \in 1 .. Len(old) : b = old[i] /\ ~ Carries(old[i], m)
    BY <1>1 DEF OtherBindings
  <2>2. PICK j \in 1 .. Len(new) : new[j] = old[i]
    BY <2>1 DEF SharesOthers
  <2> QED
    BY <2>1, <2>2 DEF OtherBindings
<1>2. ASSUME NEW b \in OtherBindings(new, m) PROVE b \in OtherBindings(old, m)
  <2>1. PICK i \in 1 .. Len(new) : b = new[i] /\ ~ Carries(new[i], m)
    BY <1>2 DEF OtherBindings
  <2>2. PICK j \in 1 .. Len(old) : old[j] = new[i]
    BY <2>1 DEF SharesOthers
  <2> QED
    BY <2>1, <2>2 DEF OtherBindings
<1> QED
  BY <1>1, <1>2

\* Whatever a handler does, it shares the bindings of the others.
LEMMA EffectOnOthers ==
  ASSUME TypeOK, NEW m \in Datagrams, Effect(m)
  PROVE  /\ SharesOthers(bindings, bindings', m)
         /\ SharesOthers(bindings', bindings, m)
<1>0. Len(bindings) \in Nat /\ bindings \in Seq(ABinding)
  BY ListFacts
<1>1. CASE UNCHANGED bindings
  BY <1>1 DEF SharesOthers
<1>2. ASSUME NEW ip \in Addresses, BoundTo(m, ip)
      PROVE  /\ SharesOthers(bindings, bindings', m)
             /\ SharesOthers(bindings', bindings, m)
  <2>1. /\ Len(bindings') = Len(bindings) + 1
        /\ bindings'[1] = NewBinding(m, ip)
        /\ \A i \in 2 .. Len(bindings) + 1 : bindings'[i] = bindings[i - 1]
    BY <1>2, Inserted DEF BoundTo
  <2>2. Carries(bindings'[1], m)
    BY <2>1 DEF NewBinding, Carries, SameBytes
  <2>3. ASSUME NEW i \in 1 .. Len(bindings)
        PROVE  \E j \in 1 .. Len(bindings') : bindings'[j] = bindings[i]
    <3>1. i + 1 \in 2 .. Len(bindings) + 1 /\ i + 1 \in 1 .. Len(bindings') /\ (i + 1) - 1 = i
      BY <1>0, <2>1
    <3>2. bindings'[i + 1] = bindings[i]
      BY <2>1, <3>1
    <3> QED
      BY <3>1, <3>2
  <2>4. ASSUME NEW j \in 1 .. Len(bindings'), ~ Carries(bindings'[j], m)
        PROVE  \E i \in 1 .. Len(bindings) : bindings[i] = bindings'[j]
    <3>1. j # 1
      BY <2>2, <2>4
    <3>2. j - 1 \in 1 .. Len(bindings) /\ bindings'[j] = bindings[j - 1]
      BY <1>0, <2>1, <3>1
    <3> QED
      BY <3>2
  <2> QED
    BY <2>3, <2>4 DEF SharesOthers
<1>3. ASSUME NEW p \in 1 .. Len(bindings), Declined(m, p)
      PROVE  /\ SharesOthers(bindings, bindings', m)
             /\ SharesOthers(bindings', bindings, m)
  <2>1. bindings' = remove_binding(bindings, p) /\ Carries(bindings[p], m)
    BY <1>3 DEF Declined
  <2>2. /\ Len(remove_binding(bindings, p)) = Len(bindings) - 1
        /\ \A i \in 1 .. Len(bindings) - 1 :
             remove_binding(bindings, p)[i] = bindings[IF i < p THEN i ELSE i + 1]
    BY <1>0, RemoveAt, Zenon
  <2>3. ASSUME NEW i \in 1 .. Len(bindings), i # p
        PROVE  \E j \in 1 .. Len(bindings') : bindings'[j] = bindings[i]
    <3> DEFINE j == IF i < p THEN i ELSE i - 1
    <3>1. j \in 1 .. Len(bindings') /\ (IF j < p THEN j ELSE j + 1) = i
      BY <1>0, <2>1, <2>2, <2>3
    <3>2. bindings'[j] = bindings[i]
      BY <2>1, <2>2, <3>1
    <3> HIDE DEF j
    <3> QED
      BY <3>1, <3>2
  <2>4. ASSUME NEW j \in 1 .. Len(bindings')
        PROVE  \E i \in 1 .. Len(bindings) : bindings[i] = bindings'[j]
    <3>1. (IF j < p THEN j ELSE j + 1) \in 1 .. Len(bindings)
      BY <1>0, <2>1, <2>2
    <3> QED
      BY <2>1, <2>2, <3>1
  <2> QED
    BY <2>1, <2>3, <2>4 DEF SharesOthers
<1>4. ASSUME NEW p \in 1 .. Len(bindings), Released(m, p)
      PROVE  /\ SharesOthers(bindings, bindings', m)
             /\ SharesOthers(bindings', bindings, m)
  <2>1. bindings' = WithReleased(bindings, p) /\ Carries(bindings[p], m)
    BY <1>4 DEF Released, WithReleased
  <2>2. /\ Len(bindings') = Len(bindings)
        /\ \A i \in 1 .. Len(bindings) : /\ i # p => bindings'[i] = bindings[i]
                                         /\ bindings'[i].cident = bindings[i].cident
                                         /\ bindings'[i].cident_len = bindings[i].cident_len
    BY <1>0, <2>1, ReleaseAt
  <2>3. Carries(bindings'[p], m)
    BY <2>1, <2>2 DEF Carries
  <2> QED
    BY <2>1, <2>2, <2>3 DEF SharesOthers
<1> QED
  BY <1>1, <1>2, <1>3, <1>4 DEF Effect, Nothing, Wasted, Confirmed

\* Whatever datagrams come, with whatever hlen, each changes only bindings that
\* carry the identifier it bears itself.
THEOREM OthersUntouched == Spec => OthersKeepBindings
<1> DEFINE Kept == request # None /\ life' = life
                     => OtherBindings(bindings', request) = OtherBindings(bindings, request)
<1>1. IInv /\ [Next]_vars => Kept
  <2> SUFFICES ASSUME IInv, [Next]_vars, request # None, life' = life
               PROVE  OtherBindings(bindings', request) = OtherBindings(bindings, request)
    OBVIOUS
  <2>1. ~ Restart
    BY DEF Restart, IInv, TypeOK
  <2>2. CASE HandleRequest
    <3>1. request \in Datagrams /\ Effect(request)
      BY <2>2, HandlerEffect DEF HandleRequest, IInv, TypeOK
    <3>2. /\ SharesOthers(bindings, bindings', request)
          /\ SharesOthers(bindings', bindings, request)
      BY <3>1, EffectOnOthers DEF IInv
    <3> QED
      BY <3>2, SameBindings
  <2>3. CASE UNCHANGED bindings
    BY <2>3
  <2> QED
    BY <2>1, <2>2, <2>3 DEF Next, TakeRequest, ReceiveFails, Tick, Rest, vars
<1> QED
  BY Inductive, <1>1, PTL DEF Spec, OthersKeepBindings

-----------------------------------------------------------------------------
(* The ledger *)

EntryFor(b) == [status |-> IF b.status = ASSOCIATED THEN "leased" ELSE "released",
                client |-> Station(b.cident)]

\* No address stands in the list twice.
Once(list) == \A i, j \in 1 .. Len(list) : list[i].address = list[j].address => i = j

\* The entry of an address in the list is that of its binding.
LEMMA EntryBound ==
  ASSUME NEW list, Once(list), NEW cursor, NEW i \in 1 .. Len(list)
  PROVE  EntryOf(list, cursor, list[i].address) = EntryFor(list[i])
<1> DEFINE bound == {j \in 1 .. Len(list) : list[j].address = list[i].address}
<1>1. bound = {i}
  BY DEF Once
<1>2. (CHOOSE j \in bound : TRUE) = i
  BY <1>1
<1> QED
  BY <1>1, <1>2 DEF EntryOf, EntryFor

\* The entry of any other address depends on the cursor alone.
LEMMA EntryUnbound ==
  ASSUME NEW list, NEW cursor, NEW a, \A i \in 1 .. Len(list) : list[i].address # a
  PROVE  EntryOf(list, cursor, a) =
           [status |-> IF a \in ipFirst + 1 .. cursor THEN "gone" ELSE "free",
            client |-> None]
<1>1. {i \in 1 .. Len(list) : list[i].address = a} = {}
  OBVIOUS
<1> QED
  BY <1>1 DEF EntryOf

\* Two lists have a binding of a with the same entry, or none has one.
SameFor(old, new, a) ==
  /\ \A i \in 1 .. Len(old) : old[i].address = a
       => \E j \in 1 .. Len(new) : /\ new[j].address = a
                                   /\ EntryFor(new[j]) = EntryFor(old[i])
  /\ \A j \in 1 .. Len(new) : new[j].address = a
       => \E i \in 1 .. Len(old) : old[i].address = a

\* The cursor has passed address a.
Behind(a, cursor) == a \in ipFirst + 1 .. cursor

\* Two such lists have the same entry for a.
LEMMA EntrySame ==
  ASSUME NEW old, NEW new, Once(old), Once(new), NEW before, NEW after, NEW a,
         SameFor(old, new, a), Behind(a, before) = Behind(a, after)
  PROVE  EntryOf(new, after, a) = EntryOf(old, before, a)
<1>1. CASE \E i \in 1 .. Len(old) : old[i].address = a
  <2>1. PICK i \in 1 .. Len(old) : old[i].address = a
    BY <1>1
  <2>2. PICK j \in 1 .. Len(new) : new[j].address = a /\ EntryFor(new[j]) = EntryFor(old[i])
    BY <2>1 DEF SameFor
  <2>3. EntryOf(old, before, a) = EntryFor(old[i])
    BY <2>1, EntryBound
  <2>4. EntryOf(new, after, a) = EntryFor(new[j])
    BY <2>2, EntryBound
  <2> QED
    BY <2>2, <2>3, <2>4
<1>2. CASE \A i \in 1 .. Len(old) : old[i].address # a
  <2>1. \A j \in 1 .. Len(new) : new[j].address # a
    BY <1>2 DEF SameFor
  <2> QED
    BY <1>2, <2>1, EntryUnbound DEF Behind
<1> QED
  BY <1>1, <1>2

\* The invariant leaves no address in the list twice.
LEMMA ListOnce == IInv => Once(bindings)
BY AddressOnce DEF IInv, Once

\* Nor does it in the next state.
LEMMA NextOnce ==
  ASSUME TypeOK', NewestFirst'
  PROVE  Once(bindings')
<1>1. bindings' \in Seq(ABinding)
  BY DEF TypeOK, ABinding
<1>2. Len(bindings') \in Nat /\ \A i \in 1 .. Len(bindings') : bindings'[i] \in ABinding
  BY <1>1, ElementOfSeq, LenProperties
<1>3. \A i \in 1 .. Len(bindings') : bindings'[i].address \in Int
  BY <1>2, PoolAssumption DEF ABinding, Binding, Addresses
<1> QED
  BY <1>2, <1>3 DEF NewestFirst, Once

\* The refinement mapping.
ledgerBar == [a \in Addresses |-> LedgerEntry(a)]

\* A step that changes neither list nor cursor nor told moves nothing.
LEMMA LedgerStutters ==
  ASSUME UNCHANGED <<ip_current, bindings, told>>
  PROVE  UNCHANGED Ledger!vars
BY DEF Ledger!vars, LedgerEntry

\* A handler that takes no address, binds none and tells of none, or tells of
\* one that is leased already.
LEMMA ConfirmRefines ==
  ASSUME IInv, NEW m \in Datagrams, NEW p \in 1 .. Len(bindings), Confirmed(m, p)
  PROVE  [Ledger!Next]_(Ledger!vars)
<1>1. /\ UNCHANGED <<ip_current, bindings>>
      /\ bindings[p].status = ASSOCIATED /\ Station(bindings[p].cident) = Station(m.chaddr)
  BY DEF Confirmed
<1>2. ledgerBar' = ledgerBar
  BY <1>1 DEF ledgerBar, LedgerEntry
<1>3. CASE told' = told
  BY <1>1, <1>3, LedgerStutters
<1>4. CASE told' = Told(m.chaddr, bindings[p].address)
  <2> DEFINE a == bindings[p].address
  <2>1. a \in Addresses
    BY ListFacts DEF IInv, ABinding, Binding
  <2>2. ledgerBar[a] = EntryFor(bindings[p])
    BY <2>1, ListOnce, EntryBound DEF ledgerBar, LedgerEntry
  <2>3. ledgerBar[a].status = "leased" /\ ledgerBar[a].client = Station(m.chaddr)
    BY <1>1, <2>2 DEF EntryFor
  <2>4. Ledger!Confirm(a)
    BY <1>2, <1>4, <2>3 DEF Ledger!Confirm, Ledger!Leased, Ledger!Holder, Ledger!Telling,
                            Told, ledgerBar
  <2> QED
    BY <2>1, <2>4 DEF Ledger!Next
<1> QED
  BY <1>3, <1>4 DEF Confirmed

\* An address is free as long as the cursor has not reached it.
LEMMA FreeAbove ==
  ASSUME IInv, NEW ip \in Addresses, ip = ip_current + 1
  PROVE  ledgerBar[ip] = Ledger!Free /\ \A i \in 1 .. Len(bindings) : bindings[i].address # ip
<1>1. /\ ip_current \in Int /\ ipFirst \in Int /\ ip_current >= ipFirst
      /\ \A i \in 1 .. Len(bindings) : bindings[i].address \in ipFirst + 1 .. ip_current
  BY ListFacts DEF IInv, NewestFirst
<1>2. \A i \in 1 .. Len(bindings) : bindings[i].address # ip
  BY <1>1
<1>3. ip \notin ipFirst + 1 .. ip_current
  BY <1>1
<1> QED
  BY <1>2, <1>3, EntryUnbound DEF ledgerBar, LedgerEntry, Ledger!Free, Ledger!Entry

\* The cursor passes one address, and those it passed before stay passed.
LEMMA CursorMoves ==
  ASSUME TypeOK, NEW ip \in Addresses, Advanced(ip)
  PROVE  /\ ip \in ipFirst + 1 .. ip_current'
         /\ \A a \in Addresses :
              a # ip => (a \in ipFirst + 1 .. ip_current <=> a \in ipFirst + 1 .. ip_current')
<1>1. ip_current \in Int /\ ipFirst \in Int /\ ipLast \in Int /\ ip_current >= ipFirst
  BY ListFacts
<1> QED
  BY <1>1 DEF Advanced, Addresses

\* An address that is lost for want of memory is given to nobody.
LEMMA WasteRefines ==
  ASSUME IInv, NEW ip \in Addresses, Wasted(ip)
  PROVE  Ledger!Next
<1>1. Advanced(ip) /\ UNCHANGED <<bindings, told>> /\ ip = ip_current + 1
  BY DEF Wasted, Advanced
<1>2. ledgerBar[ip] = Ledger!Free /\ \A i \in 1 .. Len(bindings) : bindings[i].address # ip
  BY <1>1, FreeAbove
<1>3. /\ ip \in ipFirst + 1 .. ip_current'
      /\ \A a \in Addresses :
           a # ip => (a \in ipFirst + 1 .. ip_current <=> a \in ipFirst + 1 .. ip_current')
  BY <1>1, CursorMoves DEF IInv
<1>4. ledgerBar'[ip] = Ledger!Gone
  BY <1>1, <1>2, <1>3, EntryUnbound DEF ledgerBar, LedgerEntry, Ledger!Gone, Ledger!Entry
<1>5. ASSUME NEW a \in Addresses, a # ip PROVE ledgerBar'[a] = ledgerBar[a]
  <2>1. SameFor(bindings, bindings, a)
    BY DEF SameFor
  <2>2. Behind(a, ip_current) = Behind(a, ip_current')
    BY <1>3, <1>5 DEF Behind
  <2>3. EntryOf(bindings, ip_current', a) = EntryOf(bindings, ip_current, a)
    BY <2>1, <2>2, ListOnce, EntrySame
  <2> QED
    BY <1>1, <2>3 DEF ledgerBar, LedgerEntry
<1>6. ledgerBar' = [ledgerBar EXCEPT ![ip] = Ledger!Gone]
  BY <1>4, <1>5 DEF ledgerBar
<1>7. Ledger!Give(ip)
  BY <1>1, <1>2, <1>6 DEF Ledger!Give, Ledger!Becomes, ledgerBar
<1> QED
  BY <1>7 DEF Ledger!Next

\* An address that is bound is given, and its client told of it or not.
LEMMA BindRefines ==
  ASSUME IInv, IInv', NEW m \in Datagrams, NEW ip \in Addresses, BoundTo(m, ip)
  PROVE  Ledger!Next
<1>0. /\ Len(bindings) \in Nat /\ Station(m.chaddr) \in Stations
      /\ Once(bindings) /\ Once(bindings')
  BY ListFacts, DatagramFields, ListOnce, NextOnce DEF IInv, Stations
<1>1. Advanced(ip) /\ ip = ip_current + 1 /\ told' \in {told, Told(m.chaddr, ip)}
  BY DEF BoundTo, Advanced
<1>2. ledgerBar[ip] = Ledger!Free /\ \A i \in 1 .. Len(bindings) : bindings[i].address # ip
  BY <1>1, FreeAbove
<1>3. \A a \in Addresses :
        a # ip => (a \in ipFirst + 1 .. ip_current <=> a \in ipFirst + 1 .. ip_current')
  BY <1>1, CursorMoves DEF IInv
<1>4. /\ Len(bindings') = Len(bindings) + 1
      /\ bindings'[1] = NewBinding(m, ip)
      /\ \A i \in 2 .. Len(bindings) + 1 : bindings'[i] = bindings[i - 1]
  BY Inserted DEF BoundTo, IInv
<1>5. 1 \in 1 .. Len(bindings') /\ bindings'[1].address = ip
  BY <1>0, <1>4 DEF NewBinding
<1>6. EntryFor(bindings'[1]) = Ledger!Entry("leased", Station(m.chaddr))
  BY <1>4 DEF EntryFor, NewBinding, Ledger!Entry
<1>7. ledgerBar'[ip] = Ledger!Entry("leased", Station(m.chaddr))
  <2>1. EntryOf(bindings', ip_current', bindings'[1].address) = EntryFor(bindings'[1])
    BY <1>0, <1>5, EntryBound
  <2> QED
    BY <1>5, <1>6, <2>1 DEF ledgerBar, LedgerEntry
<1>8. ASSUME NEW a \in Addresses, a # ip PROVE ledgerBar'[a] = ledgerBar[a]
  <2>1. ASSUME NEW i \in 1 .. Len(bindings), bindings[i].address = a
        PROVE  \E j \in 1 .. Len(bindings') : /\ bindings'[j].address = a
                                              /\ EntryFor(bindings'[j]) = EntryFor(bindings[i])
    <3>1. i + 1 \in 2 .. Len(bindings) + 1 /\ i + 1 \in 1 .. Len(bindings') /\ (i + 1) - 1 = i
      BY <1>0, <1>4
    <3>2. bindings'[i + 1] = bindings[i]
      BY <1>4, <3>1
    <3> QED
      BY <2>1, <3>1, <3>2
  <2>2. ASSUME NEW j \in 1 .. Len(bindings'), bindings'[j].address = a
        PROVE  \E i \in 1 .. Len(bindings) : bindings[i].address = a
    <3>1. j # 1
      BY <1>5, <1>8, <2>2
    <3>2. j - 1 \in 1 .. Len(bindings) /\ bindings'[j] = bindings[j - 1]
      BY <1>0, <1>4, <3>1
    <3> QED
      BY <2>2, <3>2
  <2>3. SameFor(bindings, bindings', a)
    BY <2>1, <2>2 DEF SameFor
  <2>4. Behind(a, ip_current) = Behind(a, ip_current')
    BY <1>3, <1>8 DEF Behind
  <2>5. EntryOf(bindings', ip_current', a) = EntryOf(bindings, ip_current, a)
    BY <1>0, <2>3, <2>4, EntrySame
  <2> QED
    BY <2>5 DEF ledgerBar, LedgerEntry
<1>9. ledgerBar' = [ledgerBar EXCEPT ![ip] = Ledger!Entry("leased", Station(m.chaddr))]
  BY <1>7, <1>8 DEF ledgerBar
<1>10. told' \in {told, told \union {Ledger!Telling(Station(m.chaddr), ip)}}
  BY <1>1 DEF Told, Ledger!Telling
<1>11. Ledger!Give(ip)
  BY <1>0, <1>2, <1>9, <1>10 DEF Ledger!Give, Ledger!Becomes, ledgerBar
<1> QED
  BY <1>11 DEF Ledger!Next

\* The holder's address goes out of the list, and is behind the cursor.
LEMMA DeclineRefines ==
  ASSUME IInv, IInv', NEW m \in Datagrams, NEW p \in 1 .. Len(bindings), Declined(m, p)
  PROVE  Ledger!Next
<1> DEFINE ip == bindings[p].address
<1>0. /\ Len(bindings) \in Nat /\ Once(bindings) /\ Once(bindings')
      /\ ip \in Addresses /\ ip \in ipFirst + 1 .. ip_current
  BY ListFacts, ListOnce, NextOnce DEF IInv, NewestFirst, ABinding, Binding
<1>1. UNCHANGED <<ip_current, told>> /\ bindings[p].status = ASSOCIATED
  BY DEF Declined
<1>2. /\ Len(bindings') = Len(bindings) - 1
      /\ \A i \in 1 .. Len(bindings) - 1 :
           bindings'[i] = bindings[IF i < p THEN i ELSE i + 1]
  <2>1. bindings' = remove_binding(bindings, p)
    BY DEF Declined
  <2>2. bindings \in Seq(ABinding)
    BY ListFacts DEF IInv
  <2>3. /\ Len(remove_binding(bindings, p)) = Len(bindings) - 1
        /\ \A i \in 1 .. Len(bindings) - 1 :
             remove_binding(bindings, p)[i] = bindings[IF i < p THEN i ELSE i + 1]
    BY <2>2, RemoveAt, Zenon
  <2> QED
    BY <2>1, <2>3
<1>3. ledgerBar[ip] = EntryFor(bindings[p])
  BY <1>0, EntryBound DEF ledgerBar, LedgerEntry
<1>4. ASSUME NEW j \in 1 .. Len(bindings')
      PROVE  \E i \in 1 .. Len(bindings) : i # p /\ bindings'[j] = bindings[i]
  <2>1. (IF j < p THEN j ELSE j + 1) \in 1 .. Len(bindings) \ {p}
    BY <1>0, <1>2
  <2> QED
    BY <1>2, <2>1
<1>5. ledgerBar'[ip] = Ledger!Gone
  <2>1. \A j \in 1 .. Len(bindings') : bindings'[j].address # ip
    BY <1>0, <1>4 DEF Once
  <2> QED
    BY <1>0, <1>1, <2>1, EntryUnbound DEF ledgerBar, LedgerEntry, Ledger!Gone, Ledger!Entry
<1>6. ASSUME NEW a \in Addresses, a # ip PROVE ledgerBar'[a] = ledgerBar[a]
  <2>1. ASSUME NEW i \in 1 .. Len(bindings), bindings[i].address = a
        PROVE  \E j \in 1 .. Len(bindings') : /\ bindings'[j].address = a
                                              /\ EntryFor(bindings'[j]) = EntryFor(bindings[i])
    <3> DEFINE j == IF i < p THEN i ELSE i - 1
    <3>1. i # p
      BY <1>6, <2>1
    <3>2. j \in 1 .. Len(bindings') /\ (IF j < p THEN j ELSE j + 1) = i
      BY <1>0, <1>2, <3>1
    <3>3. bindings'[j] = bindings[i]
      BY <1>2, <3>2
    <3> HIDE DEF j
    <3> QED
      BY <2>1, <3>2, <3>3
  <2>2. \A j \in 1 .. Len(bindings') : bindings'[j].address = a
          => \E i \in 1 .. Len(bindings) : bindings[i].address = a
    BY <1>4
  <2>3. SameFor(bindings, bindings', a)
    BY <2>1, <2>2 DEF SameFor
  <2>4. EntryOf(bindings', ip_current, a) = EntryOf(bindings, ip_current, a)
    BY <1>0, <2>3, EntrySame
  <2> QED
    BY <1>1, <2>4 DEF ledgerBar, LedgerEntry
<1>7. ledgerBar' = [ledgerBar EXCEPT ![ip] = Ledger!Gone]
  BY <1>5, <1>6 DEF ledgerBar
<1>8. Ledger!GiveBack(ip)
  BY <1>0, <1>1, <1>3, <1>7 DEF Ledger!GiveBack, Ledger!Becomes, Ledger!Leased, EntryFor, ledgerBar
<1> QED
  BY <1>0, <1>8 DEF Ledger!Next

\* The holder's address stays in the list, and is leased no longer.
LEMMA ReleaseRefines ==
  ASSUME IInv, IInv', NEW m \in Datagrams, NEW p \in 1 .. Len(bindings), Released(m, p)
  PROVE  Ledger!Next
<1> DEFINE ip == bindings[p].address
<1>0. Len(bindings) \in Nat /\ Once(bindings) /\ Once(bindings') /\ ip \in Addresses
  BY ListFacts, ListOnce, NextOnce DEF IInv, ABinding, Binding
<1>1. UNCHANGED <<ip_current, told>> /\ bindings[p].status = ASSOCIATED
  BY DEF Released
<1>2. /\ Len(bindings') = Len(bindings)
      /\ \A i \in 1 .. Len(bindings) : /\ i # p => bindings'[i] = bindings[i]
                                       /\ bindings'[i].address = bindings[i].address
                                       /\ bindings'[i].cident = bindings[i].cident
      /\ bindings'[p].status = RELEASED
  <2>1. bindings' = WithReleased(bindings, p) /\ bindings \in Seq(ABinding)
    BY ListFacts DEF Released, WithReleased, IInv
  <2> QED
    BY <2>1, ReleaseAt
<1>3. ledgerBar[ip] = EntryFor(bindings[p])
  BY <1>0, EntryBound DEF ledgerBar, LedgerEntry
<1>4. ledgerBar'[ip] = Ledger!Entry("released", Station(bindings[p].cident))
  <2>1. EntryOf(bindings', ip_current', bindings'[p].address) = EntryFor(bindings'[p])
    <3>1. p \in 1 .. Len(bindings')
      BY <1>2
    <3> QED
      BY <1>0, <3>1, EntryBound
  <2>2. EntryFor(bindings'[p]) = Ledger!Entry("released", Station(bindings[p].cident))
    BY <1>2 DEF EntryFor, Ledger!Entry
  <2> QED
    BY <1>0, <1>2, <2>1, <2>2 DEF ledgerBar, LedgerEntry
<1>5. ASSUME NEW a \in Addresses, a # ip PROVE ledgerBar'[a] = ledgerBar[a]
  <2>1. \A i \in 1 .. Len(bindings) : bindings[i].address = a
          => \E j \in 1 .. Len(bindings') : /\ bindings'[j].address = a
                                            /\ EntryFor(bindings'[j]) = EntryFor(bindings[i])
    BY <1>2, <1>5
  <2>2. \A j \in 1 .. Len(bindings') : bindings'[j].address = a
          => \E i \in 1 .. Len(bindings) : bindings[i].address = a
    BY <1>2
  <2>3. SameFor(bindings, bindings', a)
    BY <2>1, <2>2 DEF SameFor
  <2>4. EntryOf(bindings', ip_current, a) = EntryOf(bindings, ip_current, a)
    BY <1>0, <2>3, EntrySame
  <2> QED
    BY <1>1, <2>4 DEF ledgerBar, LedgerEntry
<1>6. ledgerBar' = [ledgerBar EXCEPT ![ip] = Ledger!Entry("released", Station(bindings[p].cident))]
  BY <1>4, <1>5 DEF ledgerBar
<1>7. Ledger!Leased(ip) /\ Ledger!Holder(ip) = Station(bindings[p].cident)
  BY <1>1, <1>3 DEF Ledger!Leased, Ledger!Holder, EntryFor, ledgerBar
<1>8. Ledger!GiveBack(ip)
  BY <1>0, <1>1, <1>6, <1>7 DEF Ledger!GiveBack, Ledger!Becomes, ledgerBar
<1> QED
  BY <1>0, <1>8 DEF Ledger!Next

\* A new life begins with a new ledger.
LEMMA RestartRefines ==
  ASSUME Restart
  PROVE  Ledger!Next
<1>1. bindings' = <<>> /\ ip_current' = ipFirst /\ told' = {}
  BY DEF Restart
<1>2. ASSUME NEW a \in Addresses PROVE LedgerEntry(a)' = Ledger!Free
  <2>1. a \notin ipFirst + 1 .. ipFirst
    BY PoolAssumption
  <2>2. EntryOf(<<>>, ipFirst, a) = Ledger!Free
    BY <2>1, EntryUnbound DEF Ledger!Free, Ledger!Entry
  <2> QED
    BY <1>1, <2>2 DEF LedgerEntry
<1> QED
  BY <1>1, <1>2 DEF Ledger!Next, Ledger!Restart

\* Each step of the server is a step of the ledger or leaves it as it is.
LEMMA LedgerStep == IInv /\ IInv' /\ [Next]_vars => [Ledger!Next]_(Ledger!vars)
<1> SUFFICES ASSUME IInv, IInv', [Next]_vars PROVE [Ledger!Next]_(Ledger!vars)
  OBVIOUS
<1>1. CASE HandleRequest
  <2>1. request \in Datagrams /\ Effect(request)
    BY <1>1, HandlerEffect DEF HandleRequest, IInv, TypeOK
  <2>2. CASE Nothing
    BY <2>2, LedgerStutters DEF Nothing
  <2>3. ASSUME NEW ip \in Addresses, Wasted(ip) PROVE Ledger!Next
    BY <2>3, WasteRefines
  <2>4. ASSUME NEW ip \in Addresses, BoundTo(request, ip) PROVE Ledger!Next
    BY <2>1, <2>4, BindRefines
  <2>5. ASSUME NEW p \in 1 .. Len(bindings), Confirmed(request, p)
        PROVE  [Ledger!Next]_(Ledger!vars)
    BY <2>1, <2>5, ConfirmRefines
  <2>6. ASSUME NEW p \in 1 .. Len(bindings), Declined(request, p) PROVE Ledger!Next
    BY <2>1, <2>6, DeclineRefines
  <2>7. ASSUME NEW p \in 1 .. Len(bindings), Released(request, p) PROVE Ledger!Next
    BY <2>1, <2>7, ReleaseRefines
  <2> QED
    BY <2>1, <2>2, <2>3, <2>4, <2>5, <2>6, <2>7 DEF Effect
<1>2. CASE Restart
  BY <1>2, RestartRefines
<1>3. CASE TakeRequest \/ ReceiveFails \/ Tick \/ UNCHANGED vars
  <2>1. UNCHANGED <<ip_current, bindings, told>>
    BY <1>3 DEF TakeRequest, ReceiveFails, Tick, vars
  <2> QED
    BY <2>1, LedgerStutters
<1> QED
  BY <1>1, <1>2, <1>3 DEF Next, Rest

\* The handlers together implement the ledger of addresses, for any pool, any
\* clients, any datagrams and any number of restarts.
THEOREM LedgerImplemented == Spec => ImplementsLedger
<1>1. Init => Ledger!Init
  <2> SUFFICES ASSUME Init PROVE Ledger!Init
    OBVIOUS
  <2>1. bindings = <<>> /\ ip_current = ipFirst /\ told = {}
    BY DEF Init
  <2>2. ASSUME NEW a \in Addresses PROVE LedgerEntry(a) = Ledger!Free
    <3>1. a \notin ipFirst + 1 .. ipFirst
      BY PoolAssumption
    <3> QED
      BY <2>1, <3>1, EntryUnbound DEF LedgerEntry, Ledger!Free, Ledger!Entry
  <2> QED
    BY <2>1, <2>2 DEF Ledger!Init
<1> QED
  BY Inductive, <1>1, LedgerStep, PTL DEF Spec, ImplementsLedger, Ledger!Spec
==============================================================================
