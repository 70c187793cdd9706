----------------------------- MODULE UdpSocket -----------------------------
(***************************************************************************)
(* The data layer of src/udpev/udp_socket.c: addresses, ports, and what    *)
(* the socket calls hand back to the code that makes them.  Operators      *)
(* only; the state machines that call them are in other modules.           *)
(*                                                                         *)
(* An address is an opaque value and a port is an int of the caller; the   *)
(* conversions that lose information (htons, the receive buffer, the       *)
(* control buffer) are modelled by what they lose.                         *)
(***************************************************************************)
EXTENDS Integers

INADDR_ANY       == "0.0.0.0"
INADDR_LOOPBACK  == "127.0.0.1"
INADDR_BROADCAST == "255.255.255.255"

UDP_BUFFER_LEN     == 5000    \* the receive buffer of every watcher
CONTROL_BUFFER_LEN == 256     \* the control buffer of every msg_header

\* sizeof(struct cmsghdr) and CMSG_SPACE(sizeof(struct in_pktinfo)) on LP64.
CMSGHDR_LEN   == 16
PKTINFO_SPACE == 32

LesserOf(a, b) == IF a < b THEN a ELSE b

----------------------------------------------------------------------------
(* Addresses *)

UINT16_MAX == 65535

\* The type of sin_port, an unsigned integer of 16 bits.
in_port_t == 0 .. UINT16_MAX

\* Mutant: the port keeps all of its bits.
htons_unreduced(port) == port

\* htons takes a uint16_t: the int that the command line gave is reduced.
htons(port) == port % (UINT16_MAX + 1)

sockaddr_in(addr, port) == [sin_addr |-> addr, sin_port |-> htons(port)]

init_any_sockaddr_in(port)       == sockaddr_in(INADDR_ANY, port)
init_broadcast_sockaddr_in(port) == sockaddr_in(INADDR_BROADCAST, port)

\* The call of inet_addr is commented out: the address stays as new_sockaddr_in
\* left it, all zero, whatever "address" says.
init_sockaddr_in(address, port) == sockaddr_in(INADDR_ANY, port)

----------------------------------------------------------------------------
(* recvmsg on a msghdr that is filled once and reused for every message *)

\* Mutant: msg_controllen is left as memset left it.
new_msg_header_zeroed == 0

new_msg_header == CONTROL_BUFFER_LEN      \* its msg_controllen

\* msg_controllen is value-result: the kernel stores one IP_PKTINFO header, if
\* the option is on and a header fits, and overwrites the length given to it
\* with the length it used.
recvmsg_controllen(pktinfo, controllen) ==
    IF pktinfo /\ controllen >= CMSGHDR_LEN
    THEN LesserOf(PKTINFO_SPACE, controllen)
    ELSE 0

\* Mutant: the iovec does not bound what is received.
recvmsg_bytes_unbounded(size) == size

\* The bytes of a datagram that fit the iovec; the rest is lost (MSG_TRUNC).
recvmsg_bytes(size) == LesserOf(size, UDP_BUFFER_LEN)

\* get_source_address returns msg_name only after it met the IP_PKTINFO header;
\* with no such header it dereferences the NULL that "src" started from.
get_source_address(controllen, msg_name) ==
    IF controllen >= CMSGHDR_LEN THEN [null |-> FALSE, s_addr |-> msg_name]
                                 ELSE [null |-> TRUE,  s_addr |-> INADDR_ANY]

\* set_msghdrs_socket passes the address of a pointer where the kernel expects
\* an int: the option becomes the truth value of the pointer's low word.
set_msghdrs_socket(lowWord) == lowWord # 0
============================================================================
