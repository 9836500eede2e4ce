------------------------------ MODULE InetSocket ------------------------------
(***************************************************************************)
(* inetConnect, inetListen and inetBind of src/inet_socket.c: the walk     *)
(* over the addresses of getaddrinfo, with a socket made, used and perhaps *)
(* closed for each, and the connect with a time-out that makes the socket  *)
(* non-blocking and selects on it.  The kernel and the resolver answer as  *)
(* they like; an address is a number counted down as the walk goes on.     *)
(***************************************************************************)
EXTENDS Naturals

CONSTANTS Fd,        \* socket descriptors
          None,      \* -1
          MaxAddr,   \* the most addresses that getaddrinfo returns
          MaxCalls   \* bound on the calls

ASSUME NoneAssumption == None \notin Fd
ASSUME BoundAssumption == MaxAddr \in Nat /\ MaxCalls \in Nat

VARIABLES pc, fn,     \* where the call is, and which function it is of
          left,       \* addresses still to try: rp is NULL at 0
          sfd,        \* the socket of the current address
          result,     \* what the call returns
          addrinfo,   \* the list of getaddrinfo is allocated
          open,       \* kernel: the open sockets
          nonblock,   \* kernel: those in non-blocking mode
          peer,       \* kernel: what each socket has come to
          held,       \* the sockets the caller was given and has not closed
          dropped,    \* auxiliary: sockets whose listen failed
          stuck,      \* auxiliary: connected sockets whose clr_fd_flag failed
          calls

sockets == <<open, nonblock, stuck, peer>>
books == <<held, dropped, calls>>
vars == <<pc, fn, left, sfd, result, addrinfo, sockets, books>>

Function == {"inetConnect", "inetListen", "inetBind"}

TypeOK ==
    /\ pc \in {"idle", "resolve", "next", "connect", "select", "option", "bind",
               "listen", "close", "free", "return"}
    /\ fn \in Function
    /\ left \in 0 .. MaxAddr
    /\ sfd \in Fd \cup {None} /\ result \in Fd \cup {None}
    /\ addrinfo \in BOOLEAN
    /\ open \subseteq Fd /\ nonblock \subseteq open /\ stuck \subseteq nonblock
    /\ peer \in [Fd -> {"none", "connected", "bound", "listening"}]
    /\ held \subseteq open /\ dropped \subseteq open
    /\ calls \in 0 .. MaxCalls

Init ==
    /\ pc = "idle" /\ fn = "inetConnect" /\ left = 0
    /\ sfd = None /\ result = None
    /\ addrinfo = FALSE
    /\ open = {} /\ nonblock = {} /\ stuck = {} /\ peer = [d \in Fd |-> "none"]
    /\ held = {} /\ dropped = {} /\ calls = 0

\* the kernel forgets a socket that is closed
Closed(d) ==
    /\ open' = open \ {d} /\ nonblock' = nonblock \ {d} /\ stuck' = stuck \ {d}

Call(f) ==
    /\ pc = "idle" /\ calls < MaxCalls
    /\ fn' = f /\ pc' = "resolve" /\ calls' = calls + 1
    /\ UNCHANGED <<left, sfd, result, addrinfo, sockets, held, dropped>>

Resolve ==
    /\ pc = "resolve"
    /\ \E n \in 1 .. MaxAddr : left' = n
    /\ addrinfo' = TRUE /\ sfd' = None /\ pc' = "next"
    /\ UNCHANGED <<fn, result, sockets, books>>

ResolveFails ==
    /\ pc = "resolve"
    /\ result' = None /\ pc' = "return"
    /\ UNCHANGED <<fn, left, sfd, addrinfo, sockets, books>>

Socket ==
    /\ pc = "next" /\ left > 0
    /\ \E d \in Fd \ open :
          /\ sfd' = d /\ open' = open \cup {d}
          /\ peer' = [peer EXCEPT ![d] = "none"]
    /\ pc' = IF fn = "inetConnect" THEN "connect" ELSE "option"
    /\ UNCHANGED <<fn, left, result, addrinfo, nonblock, stuck, books>>

SocketFails ==
    /\ pc = "next" /\ left > 0
    /\ left' = left - 1 /\ sfd' = None
    /\ UNCHANGED <<pc, fn, result, addrinfo, sockets, books>>

AddressesExhausted ==
    /\ pc = "next" /\ left = 0
    /\ pc' = "free"
    /\ UNCHANGED <<fn, left, sfd, result, addrinfo, sockets, books>>

(* connect_with_time_out *)

\* O_NONBLOCK, connect, and EINPROGRESS
ConnectPending ==
    /\ pc = "connect"
    /\ nonblock' = nonblock \cup {sfd}
    /\ pc' = "select"
    /\ UNCHANGED <<fn, left, sfd, result, addrinfo, open, stuck, peer, books>>

\* set_fd_flag, whose failure is ignored: connect waits for its result then
SetOrNot == nonblock' \in {nonblock, nonblock \cup {sfd}}

\* connect returns 0, and ret is left at -1
ConnectAtOnce ==
    /\ pc = "connect"
    /\ SetOrNot
    /\ peer' = [peer EXCEPT ![sfd] = "connected"]
    /\ pc' = "close"
    /\ UNCHANGED <<fn, left, sfd, result, addrinfo, open, stuck, books>>

ConnectFails ==
    /\ pc = "connect"
    /\ SetOrNot
    /\ pc' = "close"
    /\ UNCHANGED <<fn, left, sfd, result, addrinfo, open, stuck, peer, books>>

\* clr_fd_flag, whose failure is ignored too
ClearOrNot ==
    \/ nonblock' = nonblock \ {sfd} /\ UNCHANGED stuck
    \/ stuck' = stuck \cup {sfd} /\ UNCHANGED nonblock

\* only writable: connected
SelectWritable ==
    /\ pc = "select"
    /\ peer' = [peer EXCEPT ![sfd] = "connected"]
    /\ ClearOrNot
    /\ pc' = "free"
    /\ UNCHANGED <<fn, left, sfd, result, addrinfo, open, books>>

\* readable and writable: refused, or connected to a peer that spoke first
SelectBoth ==
    /\ pc = "select"
    /\ \/ UNCHANGED peer
       \/ peer' = [peer EXCEPT ![sfd] = "connected"]
    /\ pc' = "close"
    /\ UNCHANGED <<fn, left, sfd, result, addrinfo, open, nonblock, stuck, books>>

\* mutant: on to the next address with the socket open
SelectFails_NoClose ==
    /\ pc = "select"
    /\ pc' = "next" /\ left' = left - 1
    /\ UNCHANGED <<fn, sfd, result, addrinfo, sockets, books>>

\* time-out or error
SelectFails ==
    /\ pc = "select"
    /\ pc' = "close"
    /\ UNCHANGED <<fn, left, sfd, result, addrinfo, sockets, books>>

(* inetPassiveSocket *)

\* SO_REUSEADDR; for inetBind IP_TOS, whose failure is only logged
Option ==
    /\ pc = "option"
    /\ pc' = "bind"
    /\ UNCHANGED <<fn, left, sfd, result, addrinfo, sockets, books>>

OptionFails ==
    /\ pc = "option" /\ fn = "inetListen"
    /\ Closed(sfd)
    /\ addrinfo' = FALSE
    /\ result' = None /\ pc' = "return"
    /\ UNCHANGED <<fn, left, sfd, peer, books>>

Bind ==
    /\ pc = "bind"
    /\ peer' = [peer EXCEPT ![sfd] = "bound"]
    /\ pc' = IF fn = "inetListen" THEN "listen" ELSE "free"
    /\ UNCHANGED <<fn, left, sfd, result, addrinfo, open, nonblock, stuck, books>>

BindFails ==
    /\ pc = "bind"
    /\ pc' = "close"
    /\ UNCHANGED <<fn, left, sfd, result, addrinfo, sockets, books>>

Listen ==
    /\ pc = "listen"
    /\ peer' = [peer EXCEPT ![sfd] = "listening"]
    /\ pc' = "free"
    /\ UNCHANGED <<fn, left, sfd, result, addrinfo, open, nonblock, stuck, books>>

\* the list is freed, the socket is not closed
ListenFails ==
    /\ pc = "listen"
    /\ addrinfo' = FALSE
    /\ dropped' = dropped \cup {sfd}
    /\ result' = None /\ pc' = "return"
    /\ UNCHANGED <<fn, left, sfd, sockets, held, calls>>

(* the end of either walk *)

Close ==
    /\ pc = "close"
    /\ Closed(sfd)
    /\ left' = left - 1 /\ pc' = "next"
    /\ UNCHANGED <<fn, sfd, result, addrinfo, peer, books>>

\* freeaddrinfo; rp is NULL when the addresses are used up
Free ==
    /\ pc = "free"
    /\ addrinfo' = FALSE
    /\ result' = IF left = 0 THEN None ELSE sfd
    /\ pc' = "return"
    /\ UNCHANGED <<fn, left, sfd, sockets, books>>

Return ==
    /\ pc = "return"
    /\ held' = IF result = None THEN held ELSE held \cup {result}
    /\ pc' = "idle"
    /\ UNCHANGED <<fn, left, sfd, result, addrinfo, sockets, dropped, calls>>

CallerCloses(d) ==
    /\ pc = "idle" /\ d \in held
    /\ held' = held \ {d}
    /\ Closed(d)
    /\ UNCHANGED <<pc, fn, left, sfd, result, addrinfo, peer, dropped, calls>>

Next ==
    \/ \E f \in Function : Call(f)
    \/ Resolve \/ ResolveFails \/ Socket \/ SocketFails \/ AddressesExhausted
    \/ ConnectPending \/ ConnectAtOnce \/ ConnectFails
    \/ SelectWritable \/ SelectBoth \/ SelectFails
    \/ Option \/ OptionFails \/ Bind \/ BindFails \/ Listen \/ ListenFails
    \/ Close \/ Free \/ Return
    \/ \E d \in Fd : CallerCloses(d)

Spec == Init /\ [][Next]_vars

-----------------------------------------------------------------------------
(***************************************************************************)
(* Between calls every open socket is one the caller holds, or one whose   *)
(* listen failed (inetPassiveSocket returns there without closing it):     *)
(* no other failure, in whatever order failures come, loses a descriptor.  *)
(***************************************************************************)
SocketsAccounted == pc = "idle" => open = held \cup dropped

(***************************************************************************)
(* A socket that is returned is open, not one the caller had already, has  *)
(* become what the function is for, and is in blocking mode.  The one      *)
(* exception to the mode is a connected socket whose clr_fd_flag failed:   *)
(* connect_with_time_out does not look at its result.                      *)
(***************************************************************************)
ReturnedIsReady ==
    pc = "return" /\ result # None =>
        /\ result \in open \ held
        /\ result \in nonblock <=> fn = "inetConnect" /\ result \in stuck
        /\ peer[result] = IF fn = "inetConnect" THEN "connected"
                          ELSE IF fn = "inetListen" THEN "listening" ELSE "bound"

(***************************************************************************)
(* Every path out of the functions has freed the list of getaddrinfo.      *)
(***************************************************************************)
AddrinfoFreed == pc = "return" => ~addrinfo

(***************************************************************************)
(* Whatever fails, in whatever order, a call loses nothing and returns     *)
(* what it promises or -1, with the exceptions of the parts.               *)
(***************************************************************************)
CallsSound == SocketsAccounted /\ ReturnedIsReady /\ AddrinfoFreed
=============================================================================
