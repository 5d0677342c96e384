------------------------------ MODULE AddressPlan ------------------------------
(***************************************************************************)
(* The addresses of a network's nodes, as the code computes them from a    *)
(* node's index: of processes on this machine (src/builder.rs), and of     *)
(* containers and routers (src/docker.rs).  An address is its four octets. *)
(***************************************************************************)
EXTENDS Integers

\* x as u8, and wrapping_add
U8(x) == x % 256

\* Mutant: one address for all, as one machine may do with.
LocalAddress_Same(index) == <<127, 1, 0, 1>>

\* start_peer_with_gateways: one of 127.0.0.0/8, 127.0.0.1 not among them.
LocalAddress(index) == <<127, ((index \div 256) % 254) + 1, index % 256, 1>>

Localhost == <<127, 0, 0, 1>>
Wildcard == <<0, 0, 0, 0>>

\* 10 + index as u8: panics where overflow is checked (a debug build), wraps where it is not.
GatewayOverflows(index) == 10 + U8(index) > 255
GatewayAddress(octet, index) == <<172, octet, 0, U8(10 + U8(index))>>

\* Mutant: the routers are not in a /24 of their own.
RouterAddress_Host(octet, index) == <<172, octet, 0, U8(100 + U8(index))>>

\* The router of a peer, on the public network.
RouterAddress(octet, index) == <<172, octet, U8(index), 100>>

\* The /24 of a peer's private network, by its first three octets.
PrivateNet(base, index) == <<10, U8(base + U8(index)), 0>>

\* Docker keeps the first addresses of the public network: its own and that of the bridge.
Reserved(octet) == {<<172, octet, 0, 0>>, <<172, octet, 0, 1>>}
=============================================================================
