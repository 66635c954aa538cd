------------------------------ MODULE DhcpClaims -----------------------------
(***************************************************************************)
(* What the documentation (Server DHCP documentatie.docx) and the headers  *)
(* say of the server and its code does not do.  TLC refutes each of these. *)
(***************************************************************************)
EXTENDS DhcpServer

\* The worker handles datagram m in this step and the process survives it.
Handles(m) == /\ request = m
              /\ request' = None
              /\ process' = "running"
              /\ life' = life

Bound(list, c, a) == \E i \in 1 .. Len(list) : /\ Station(list[i].cident) = Station(c)
                                               /\ list[i].address = a
                                               /\ list[i].status = ASSOCIATED

\* options.h:14 and print_dhcp_message's case 4 give a DECLINE the value 4: a
\* client that declines the only address it holds no longer has it after that.
DeclineTakesEffect ==
  [][\A m \in Datagrams :
       /\ Handles(m) /\ m.type = DHCP_DECLINE
       /\ m.op = BOOTREQUEST /\ m.xid # 0 /\ m.hlen = ETHERNET_LEN
       /\ Active(m.chaddr) # {}
       /\ \A i \in Active(m.chaddr) : bindings[i].address = m.yiaddr
       => ~ Bound(bindings', m.chaddr, m.yiaddr)]_vars

NothingToOffer == ip_current >= ipLast \/ PoolEmpty

\* The binding still stands, and the time its lease ends has passed.
RanOut(binding) == /\ binding.status = ASSOCIATED
                   /\ binding.lease_time < now

SomeLeaseRanOut == \E i \in 1 .. Len(bindings) : RanOut(bindings[i])

\* A DISCOVER of client c arrives.
Asks(c) == /\ TakeRequest
           /\ \E x \in Xids : request' = Plain(DHCP_DISCOVER, c, ETHERNET_LEN, x)

\* The clients do nothing but ask for addresses, so that no lease is renewed or
\* given back.
AskedNext == \/ \E c \in Clients : Asks(c)
             \/ HandleRequest \/ ReceiveFails \/ Tick \/ Restart \/ Rest

\* Each client asks again and again while the server lives; a handler that was
\* started returns, and time passes.
AskedSpec == /\ Init /\ [][AskedNext]_vars
             /\ WF_vars(HandleRequest) /\ WF_vars(Tick)
             /\ \A c \in Clients : SF_vars(Asks(c))

\* Section 6.3: when a lease has ended, the server frees its address for other
\* clients. A server that is asked for addresses again and again does not go on
\* for ever with none to offer and a lease that ran out.
EndedLeasesAreReused ==
  (process = "running" /\ NothingToOffer /\ SomeLeaseRanOut)
    ~> (process # "running" \/ ~ NothingToOffer \/ ~ SomeLeaseRanOut)
==============================================================================
