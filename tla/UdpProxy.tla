------------------------------ MODULE UdpProxy ------------------------------
(***************************************************************************)
(* udp_proxy (src/tools/udp_proxy.cpp): relays datagrams between the board *)
(* and the client that sent last.                                          *)
(***************************************************************************)
EXTENDS Sequences

VARIABLES
    client_sock,    \* clients whose datagrams wait for the relay
    fpga_sock,      \* datagrams of the board that wait for it
    last_client

proxy == <<client_sock, fpga_sock, last_client>>

NoClient == "none"

ProxyInit == client_sock = <<>> /\ fpga_sock = <<>> /\ last_client = NoClient

\* select() finds the client side ready, which is served first.
RelayToBoard ==
    /\ client_sock # <<>>
    /\ last_client' = Head(client_sock)
    /\ client_sock' = Tail(client_sock)
    /\ UNCHANGED fpga_sock

\* A datagram of the board; without a client it is dropped.
TakesFromBoard ==
    /\ client_sock = <<>> /\ fpga_sock # <<>>
    /\ fpga_sock' = Tail(fpga_sock)
    /\ UNCHANGED <<client_sock, last_client>>

=============================================================================
