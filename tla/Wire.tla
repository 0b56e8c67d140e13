-------------------------------- MODULE Wire --------------------------------
(***************************************************************************)
(* The connections between one daemon and its clients (block devices).     *)
(* One reliable-connected queue pair per client.  Each end owns ONE send   *)
(* buffer and ONE receive buffer per connection, and ibv_post_send hands   *)
(* the NIC the address of the send buffer, not a copy: the bytes leave     *)
(* when the NIC reads them.  So a posted send is only counted here, and    *)
(* Transmit copies what the buffer holds at that moment.  Delivery is in   *)
(* order and waits for a posted receive at the other end.                  *)
(***************************************************************************)
EXTENDS Integers, FiniteSets, FiniteSetsExt

CONSTANTS
    Client,     \* the block devices that use the daemon
    NumChunks,  \* MAX_FREE_MEM_GB = MAX_MR_SIZE_GB
    NumSess,    \* STACKBD_SIZE_G, chunks of a block device
    NumSlots,   \* MAX_CLIENT
    None        \* no client (NULL)

ASSUME SizeAssumption ==
    /\ NumChunks \in Nat \ {0}
    /\ NumSess \in Nat \ {0}
    /\ NumSlots \in Nat \ {0}
    /\ None \notin Client

Chunks == 0 .. NumChunks - 1
Sess   == 0 .. NumSess - 1
Slots  == 0 .. NumSlots - 1

VARIABLES
    link,        \* link[c]: the connection's life as the CM sees it
    send_msg,    \* send_msg[c]: the daemon's conn->send_msg
    msg_posted,  \* msg_posted[c]: daemon sends posted, not yet read by the NIC
    recv_buf,    \* recv_buf[c]: the client's cb->recv_buf
    recv_state,  \* recv_state[c]: "posted", "arrived", or "lost" (not reposted)
    send_buf,    \* send_buf[c]: the client's cb->send_buf
    buf_posted,  \* buf_posted[c]: client sends posted, not yet read by the NIC
    recv_msg,    \* recv_msg[c]: the daemon's conn->recv_msg
    rmsg_state   \* rmsg_state[c]: "posted", "arrived", or "held" (not reposted)

toClient == <<send_msg, msg_posted, recv_buf, recv_state>>
toDaemon == <<send_buf, buf_posted, recv_msg, rmsg_state>>
wireVars == <<link, toClient, toDaemon>>

(* struct message.  rkey is the set of indices whose entry is not 0, buf    *)
(* likewise; addresses and key values are not modelled.  A daemon's buf     *)
(* holds addresses only, so messages to clients do without it.              *)
DaemonMsg == [type : {"NONE", "FREE_SIZE", "INFO_SINGLE", "EVICT", "STOP"},
              size : Int, rkey : SUBSET Chunks]
ClientMsg == [type : {"NONE", "QUERY", "BIND_SINGLE", "ACTIVITY", "DONE"},
              size : Int, rkey : SUBSET Chunks, buf : SUBSET Chunks]

NoDaemonMsg == [type |-> "NONE", size |-> 0, rkey |-> {}]
NoClientMsg == [type |-> "NONE", size |-> 0, rkey |-> {}, buf |-> {}]

Links == {"none", "requested", "accepted", "up", "closed", "freed"}

WireTypeOK ==
    /\ link \in [Client -> Links]
    /\ send_msg \in [Client -> DaemonMsg]
    /\ msg_posted \in [Client -> Nat]
    /\ recv_buf \in [Client -> DaemonMsg]
    /\ recv_state \in [Client -> {"posted", "arrived", "lost"}]
    /\ send_buf \in [Client -> ClientMsg]
    /\ buf_posted \in [Client -> Nat]
    /\ recv_msg \in [Client -> ClientMsg]
    /\ rmsg_state \in [Client -> {"posted", "arrived", "held"}]

WireInit ==
    /\ link = [c \in Client |-> "none"]
    /\ send_msg = [c \in Client |-> NoDaemonMsg]
    /\ msg_posted = [c \in Client |-> 0]
    /\ recv_buf = [c \in Client |-> NoDaemonMsg]
    /\ recv_state = [c \in Client |-> "posted"]
    /\ send_buf = [c \in Client |-> NoClientMsg]
    /\ buf_posted = [c \in Client |-> 0]
    /\ recv_msg = [c \in Client |-> NoClientMsg]
    /\ rmsg_state = [c \in Client |-> "held"]

(* The daemon's NIC reads send_msg and the client's NIC fills recv_buf. *)
TransmitToClient(c) ==
    /\ link[c] = "up" /\ msg_posted[c] > 0 /\ recv_state[c] = "posted"
    /\ recv_buf' = [recv_buf EXCEPT ![c] = send_msg[c]]
    /\ recv_state' = [recv_state EXCEPT ![c] = "arrived"]
    /\ msg_posted' = [msg_posted EXCEPT ![c] = @ - 1]
    /\ UNCHANGED <<link, send_msg, toDaemon>>

(* The client's NIC reads send_buf and the daemon's NIC fills recv_msg. *)
TransmitToDaemon(c) ==
    /\ link[c] = "up" /\ buf_posted[c] > 0 /\ rmsg_state[c] = "posted"
    /\ recv_msg' = [recv_msg EXCEPT ![c] = send_buf[c]]
    /\ rmsg_state' = [rmsg_state EXCEPT ![c] = "arrived"]
    /\ buf_posted' = [buf_posted EXCEPT ![c] = @ - 1]
    /\ UNCHANGED <<link, send_buf, toClient>>
=============================================================================
