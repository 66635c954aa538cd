---------------------------- MODULE DhcpExchange -----------------------------
(***************************************************************************)
(* The server with clients and a network around it.  DhcpServer answers    *)
(* whatever arrives; here arrive the datagrams that DHCP clients send in   *)
(* the phases of an exchange (DISCOVER, OFFER, REQUEST, ACK, renewal,      *)
(* RELEASE), over a network that loses, repeats, delays and reorders them. *)
(* The clients are not part of the program: they are modelled from what    *)
(* its handlers read and answer.  They tell the replies that are meant for *)
(* them by chaddr and xid, since the server broadcasts every reply.        *)
(***************************************************************************)
EXTENDS DhcpServer, FiniteSets

CONSTANT
  MaxTransactions   \* bound of the model: how many the clients begin together

ASSUME TransactionsAssumption == MaxTransactions \in Nat /\ IsFiniteSet(Clients)
\* No two clients have the same Ethernet address.
ASSUME StationAssumption ==
  \A c, d \in Clients : Station(c) = Station(d) => c = d
\* What the clients send is among the datagrams DhcpServer takes.
ASSUME ChannelAssumption == 1 .. MaxTransactions \subseteq Xids /\ ETHERNET_LEN \in Hlens

VARIABLES
  client,     \* client[c]: its phase, its transaction and its address
  datagrams,  \* datagrams on the way to the server
  replies     \* replies on the way to the clients

everything == <<vars, client, datagrams, replies>>

NoAddress == 0

InPhase(c, phases) == client[c].phase \in phases

\* The client has sent a datagram and got no reply to it.
Waits(c) == InPhase(c, {"selecting", "requesting", "renewing"})

\* Both know the lease: the client has an address it may use.
Holds(c) == InPhase(c, {"bound", "renewing"})

\* The datagram a client sends, and sends again, while it waits for a reply.
Message(c) ==
  LET plain(type) == Plain(type, c, ETHERNET_LEN, client[c].xid) IN
  CASE client[c].phase = "selecting"  -> plain(DHCP_DISCOVER)
    [] client[c].phase = "requesting" -> plain(DHCP_REQUEST)
    [] client[c].phase = "renewing"   ->
         [plain(DHCP_REQUEST) EXCEPT !.ciaddr = client[c].address]

\* Client c, in its present phase and transaction, takes reply r. It never
\* will take one it does not take now: transactions are numbered upwards, and
\* none has the same phase twice.
Takes(c, r) == /\ r.chaddr = c
               /\ r.xid = client[c].xid
               /\ \/ InPhase(c, {"selecting"}) /\ r.type = DHCP_OFFER
                  \/ InPhase(c, {"requesting", "renewing"}) /\ r.type = DHCP_ACK

\* After the step the network holds the replies rs, without those nobody takes.
Carry(rs) == replies' = {r \in rs : \E c \in Clients : Takes(c, r)'}

\* No reply carries a DNS server to a client of this model.
ExchangeInit ==
  /\ Init
  /\ dns = Unset
  /\ client = [c \in Clients |-> [phase |-> "idle", xid |-> 0, address |-> NoAddress]]
  /\ datagrams = {}
  /\ replies = {}

-----------------------------------------------------------------------------
(* The clients *)

Become(c, phase, xid, address) ==
  client' = [client EXCEPT ![c] = [phase |-> phase, xid |-> xid, address |-> address]]

\* The network takes datagram m, or loses it.
Send(m) == datagrams' \in {datagrams, datagrams \union {m}}

\* The transactions begun so far; a client numbers its own from 1 on.
Begun == {t \in Clients \X (1 .. MaxTransactions) : t[2] <= client[t[1]].xid}

MayBegin == Cardinality(Begun) < MaxTransactions

\* A client asks for an address, in a transaction of its own.
Discover(c) == /\ InPhase(c, {"idle"})
               /\ MayBegin
               /\ Become(c, "selecting", client[c].xid + 1, NoAddress)
               /\ Send(Message(c)')
               /\ Carry(replies)
               /\ UNCHANGED vars

\* A client that holds an address asks to keep it.
Renew(c) == /\ InPhase(c, {"bound"})
            /\ MayBegin
            /\ Become(c, "renewing", client[c].xid + 1, client[c].address)
            /\ Send(Message(c)')
            /\ Carry(replies)
            /\ UNCHANGED vars

\* A client that got no reply in time sends again.
Repeat(c) == /\ Waits(c)
             /\ datagrams' = datagrams \union {Message(c)}
             /\ UNCHANGED <<vars, client, replies>>

\* A reply reaches client c, which goes on to a phase with the address in it.
Receive(c, phase) == \E r \in replies : /\ Takes(c, r)
                                       /\ Become(c, phase, r.xid, r.yiaddr)
                                       /\ Carry(replies)

\* The client asks for the address it was offered.
GetOffer(c) == /\ InPhase(c, {"selecting"})
               /\ Receive(c, "requesting")
               /\ Send(Message(c)')
               /\ UNCHANGED vars

\* The client uses the address that was confirmed.
GetAck(c) == /\ InPhase(c, {"requesting", "renewing"})
             /\ Receive(c, "bound")
             /\ UNCHANGED <<vars, datagrams>>

\* The client gives its address back.
Release(c) ==
  /\ InPhase(c, {"bound"})
  /\ Become(c, "idle", client[c].xid, NoAddress)
  /\ Send([Plain(DHCP_RELEASE, c, ETHERNET_LEN, client[c].xid)
             EXCEPT !.ciaddr = client[c].address])
  /\ Carry(replies)
  /\ UNCHANGED vars

\* The client is switched off, or gives up, and says nothing of it.
Forget(c) == /\ ~ InPhase(c, {"idle"})
             /\ Become(c, "idle", client[c].xid, NoAddress)
             /\ Carry(replies)
             /\ UNCHANGED <<vars, datagrams>>

-----------------------------------------------------------------------------
(* The network and the server *)

\* The server takes datagram m; the network may deliver it once more later.
Take(m) == /\ m \in datagrams
           /\ request' = m
           /\ TakeRequest
           /\ datagrams' \in {datagrams, datagrams \ {m}}
           /\ UNCHANGED <<client, replies>>

\* The server handles it; an accepted reply is broadcast.
Handle == /\ HandleRequest
          /\ UNCHANGED <<client, datagrams>>
          /\ Carry(replies \union ({reply'} \ {None}))

\* A reply is lost.
Lose == /\ \E r \in replies : replies' = replies \ {r}
        /\ UNCHANGED <<vars, client, datagrams>>

\* The process is gone (a handler called exit), or the clients have used up
\* their transactions and nothing is under way.
Over == /\ \/ process = "exited"
           \/ /\ \A c \in Clients : InPhase(c, {"idle"}) /\ ~ MayBegin
              /\ datagrams = {} /\ request = None
        /\ UNCHANGED everything

ClientStep(c) == \/ Discover(c) \/ Renew(c) \/ Repeat(c) \/ GetOffer(c)
                 \/ GetAck(c) \/ Release(c) \/ Forget(c)

ExchangeNext == \/ \E c \in Clients : ClientStep(c)
                \/ \E m \in datagrams : Take(m)
                \/ Handle
                \/ Lose
                \/ Over

Exchange == ExchangeInit /\ [][ExchangeNext]_everything

\* A waiting client sends again, a handler returns, and of the copies of a
\* message that is sent again and again, or answered again and again, not all
\* are lost.
FairExchange ==
  /\ Exchange
  /\ WF_everything(Handle)
  /\ \A c \in Clients : /\ WF_everything(Repeat(c))
                        /\ SF_everything(Waits(c) /\ Take(Message(c)))
                        /\ SF_everything(GetOffer(c) \/ GetAck(c))

-----------------------------------------------------------------------------
(* Properties *)

ClientType == [phase : {"idle", "selecting", "requesting", "bound", "renewing"},
               xid : 0 .. MaxTransactions,
               address : Addresses \union {NoAddress}]

ExchangeTypeOK == /\ client \in [Clients -> ClientType]
                  /\ datagrams \subseteq Datagrams
                  /\ replies \subseteq Replies

\* The address a client uses is bound to it in the server's list, with the
\* status ASSOCIATED: no lost, late or repeated datagram, such as the RELEASE of
\* an address it had before, takes it away, and no reply gives it another's.
HeldIsBound ==
  \A c \in Clients : Holds(c) =>
    \E i \in 1 .. Len(bindings) : /\ bindings[i].address = client[c].address
                                 /\ bindings[i].cident = c
                                 /\ bindings[i].status = ASSOCIATED

\* No two clients use one address.
NoTwoHolders ==
  \A c, d \in Clients :
    Holds(c) /\ Holds(d) /\ client[c].address = client[d].address => c = d

GaveUp(c) == InPhase(c, {"idle"}) \/ process = "exited"

\* A client that has an offer, or renews, and sends its REQUEST again until it
\* is answered holds an address in the end, whatever the network loses.
RequestIsConfirmed ==
  \A c \in Clients :
    InPhase(c, {"requesting", "renewing"}) ~> InPhase(c, {"bound"}) \/ GaveUp(c)

\* A client that sends its DISCOVER again until it gets an offer gets one, or
\* the pool is used up: what the repetitions cost is addresses.
DiscoverIsServed ==
  \A c \in Clients :
    InPhase(c, {"selecting"})
      ~> ~ InPhase(c, {"selecting"}) \/ ip_current = ipLast \/ process = "exited"
==============================================================================
