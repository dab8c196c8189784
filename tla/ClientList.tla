----------------------------- MODULE ClientList -----------------------------
(***************************************************************************)
(* The list of clients that receive detection results by UDP: the linked   *)
(* list of fvd-new/common.c and its use in fvd-new/client_net.c.           *)
(*                                                                         *)
(* Two kinds of threads share it.  The TCP server thread (tcp_server.c)    *)
(* accepts one visit at a time and handles it in handle_buffer: it seeks   *)
(* the visitor in the list, follows it to another camera, adds it or       *)
(* deletes it.  The stream thread of every camera walks the list after     *)
(* each frame (client_output) and sends the results of its camera to the   *)
(* clients that watch it.  list_lock protects the links; the fields of a   *)
(* record are written by the server without it.                            *)
(***************************************************************************)
EXTENDS Integers, Sequences, FiniteSets

CONSTANTS
    Node,      (* what malloc can return for a list node                   *)
    Addr,      (* the 16 bytes client_info_match compares: the dotted      *)
               (* address and whatever follows its NUL in recv_buf's ip    *)
    Camera,    (* camera indexes                                           *)
    Camera0,   (* camera index 0, what a zeroed record says                *)
    Port,      (* UDP ports get_random_port picks from (7001..8000); also  *)
               (* the positive descriptor of the socket bound to the port  *)
    MaxFd,     (* descriptors the process may hold                         *)
    Server,    (* the TCP server thread, as an owner of list_lock          *)
    NULL       (* null pointer, zeroed address, lock that nobody owns      *)

ASSUME ConstantAssumption ==
    /\ Camera0 \in Camera
    /\ Port \intersect {0, -1} = {}
    /\ MaxFd \in Nat
    /\ NULL \notin Node \union Addr \union Camera \union {Server}
    /\ Server \notin Camera

VARIABLES
    head, tail, cur, number,  \* m_list_info
    next, pre, data,          \* m_node: its links and its m_client_ip_data
    allocated,                \* nodes malloc handed out and free did not take back
    list_lock,                \* owner of the pthread mutex, or NULL
    pc, req, tmp,             \* the server: where it is, the visit, p_tmp
    walk,                     \* list_operate_node_all of each stream thread
    bound, nfd,               \* ports in use and descriptors held
    chain                     \* history: the nodes in list order; guards nothing

listVars == <<head, tail, cur, number, next, pre, allocated, chain>>
vars == <<head, tail, cur, number, next, pre, data, allocated, list_lock,
          pc, req, tmp, walk, bound, nfd, chain>>

Pointer == Node \union {NULL}
Record == [ip : Addr \union {NULL}, camera_index : Camera, fd : Port \union {0, -1}]
Visit == [type : {"GETCAMPARAM", "HEART", "SHUTDOWN"}, ip : Addr, index : Camera]

\* The null pointer is told apart from every visit.
ASSUME VisitAssumption == NULL \notin Visit

\* memset(tmp->data,0,...): no address, camera 0, descriptor 0.
ZeroRecord == [ip |-> NULL, camera_index |-> Camera0, fd |-> 0]

\* The positions of a sequence without position i, in order.
Without(s, i) == [j \in 1 .. Len(s) - 1 |-> IF j < i THEN s[j] ELSE s[j + 1]]

Nodes(s) == {s[i] : i \in 1 .. Len(s)}

-----------------------------------------------------------------------------
(* The list of common.c.                                                   *)

\* new_list, called once by init_config before any thread uses the list.
new_list ==
    /\ head = NULL /\ tail = NULL /\ cur = NULL /\ number = 0
    /\ next = [n \in Node |-> NULL]
    /\ pre = [n \in Node |-> NULL]
    /\ data = [n \in Node |-> ZeroRecord]
    /\ allocated = {}
    /\ list_lock = NULL
    /\ chain = <<>>

\* The new node goes behind the tail; it is visible as soon as the lock is
\* released, with a zeroed record.
list_node_alloc_tail(n) ==
    /\ list_lock = NULL
    /\ n \in Node \ allocated
    /\ allocated' = allocated \union {n}
    /\ data' = [data EXCEPT ![n] = ZeroRecord]
    /\ IF head # NULL
       THEN /\ pre' = [pre EXCEPT ![n] = tail]
            /\ next' = [next EXCEPT ![n] = NULL, ![tail] = n]
            /\ UNCHANGED head
       ELSE /\ pre' = [pre EXCEPT ![n] = NULL]
            /\ next' = [next EXCEPT ![n] = NULL]
            /\ head' = n
    /\ tail' = n
    /\ number' = number + 1
    /\ chain' = Append(chain, n)
    /\ UNCHANGED <<cur, list_lock>>

\* Mutant: a client that names another camera is taken for another client.
client_info_match_IndexToo(r, v) ==
    IF r.ip = v.ip /\ r.camera_index = v.index THEN "same_index" ELSE "none"

\* client_info_match: CLIENT_CAM_INDEX_SAME, CLIENT_IP_SAME or no match.
client_info_match(r, v) ==
    IF r.ip # v.ip THEN "none"
    ELSE IF r.camera_index = v.index THEN "same_index" ELSE "same_ip"

\* Mutant: the node is counted out twice.
Free_CountTwice(n, nx, px) ==
    /\ allocated' = allocated \ {n}
    /\ next' = [nx EXCEPT ![n] = NULL]
    /\ pre' = [px EXCEPT ![n] = NULL]
    /\ data' = [data EXCEPT ![n] = ZeroRecord]
    /\ number' = number - 2
    /\ chain' = Without(chain, CHOOSE i \in 1 .. Len(chain) : chain[i] = n)

\* free(tmp->data); free(tmp); number--, with the links nx and px the rest of
\* the list has then.  What freed memory holds is not known; no thread reads it
\* (NoUseAfterFree), and the model clears it.
Free(n, nx, px) ==
    /\ allocated' = allocated \ {n}
    /\ next' = [nx EXCEPT ![n] = NULL]
    /\ pre' = [px EXCEPT ![n] = NULL]
    /\ data' = [data EXCEPT ![n] = ZeroRecord]
    /\ number' = number - 1
    /\ chain' = Without(chain, CHOOSE i \in 1 .. Len(chain) : chain[i] = n)

\* The node is the tail: the one before it becomes the tail, or the list is
\* empty.  cur keeps its value.
DelTail ==
    /\ cur = tail
    /\ IF pre[tail] # NULL
       THEN /\ tail' = pre[tail]
            /\ Free(tail, [next EXCEPT ![pre[tail]] = NULL], pre)
            /\ UNCHANGED head
       ELSE /\ head' = NULL
            /\ tail' = NULL
            /\ Free(tail, next, pre)
    /\ UNCHANGED cur

\* Mutant: the new head keeps its pre pointer.
DelHead_KeepPre ==
    /\ cur # tail /\ cur = head
    /\ head' = next[head]
    /\ Free(head, next, pre)
    /\ UNCHANGED <<cur, tail>>

\* The node is the head and not the tail.  cur keeps its value.
DelHead ==
    /\ cur # tail /\ cur = head
    /\ IF next[head] # NULL
       THEN /\ head' = next[head]
            /\ Free(head, next, [pre EXCEPT ![next[head]] = NULL])
            /\ UNCHANGED tail
       ELSE /\ head' = NULL
            /\ tail' = NULL
            /\ Free(head, next, pre)
    /\ UNCHANGED cur

\* The node is neither.
DelMiddle ==
    /\ cur # tail /\ cur # head
    /\ Free(cur, [next EXCEPT ![pre[cur]] = next[cur]],
                 [pre EXCEPT ![next[cur]] = pre[cur]])
    /\ cur' = NULL
    /\ UNCHANGED <<head, tail>>

\* Mutant: the deletion does not take list_lock.
list_node_del_cur_Unlocked ==
    /\ IF number <= 0 \/ cur = NULL
       THEN UNCHANGED <<listVars, data>>
       ELSE DelTail \/ DelHead \/ DelMiddle
    /\ UNCHANGED list_lock

\* The node at cur leaves the list, if there is one.
list_node_del_cur ==
    /\ list_lock = NULL
    /\ IF number <= 0 \/ cur = NULL
       THEN UNCHANGED <<listVars, data>>
       ELSE DelTail \/ DelHead \/ DelMiddle
    /\ UNCHANGED list_lock

-----------------------------------------------------------------------------
(* The TCP server thread: recv_buf and the client part of handle_buffer.   *)

serverVars == <<pc, req, tmp>>
socketVars == <<bound, nfd>>

\* WaitTcpConnect accepts a connection, which takes a descriptor; without a free
\* one accept fails and the server waits again.
WaitTcpConnect ==
    /\ pc = "accept"
    /\ nfd < MaxFd
    /\ nfd' = nfd + 1
    /\ pc' = "recv"
    /\ UNCHANGED <<listVars, data, list_lock, req, tmp, walk, bound>>

\* The command arrives and handle_buffer copies what it says.  recv has no
\* timeout: it waits for as long as the client sends nothing and stays connected.
recv_buf(v) ==
    /\ pc = "recv"
    /\ req' = v
    /\ pc' = "seek"
    /\ UNCHANGED <<listVars, data, list_lock, tmp, walk, socketVars>>

\* A command of another type, or a connection that ends without one (the buffer
\* is zeroed before recv), does not touch the list; the connection is closed.
NoVisit ==
    /\ pc = "recv"
    /\ nfd' = nfd - 1
    /\ pc' = "accept"
    /\ UNCHANGED <<listVars, data, list_lock, req, tmp, walk, bound>>

\* list_node_seek takes the lock and starts at the head.
SeekBegin ==
    /\ pc = "seek"
    /\ list_lock = NULL
    /\ list_lock' = Server
    /\ cur' = head
    /\ pc' = "match"
    /\ UNCHANGED <<head, tail, number, next, pre, allocated, chain, data,
                   req, tmp, walk, socketVars>>

\* One turn of the loop of list_node_seek.
SeekStep ==
    /\ pc = "match"
    /\ cur # NULL
    /\ LET match == client_info_match(data[cur], req)
       IN  IF match = "none"
           THEN /\ cur' = next[cur]
                /\ UNCHANGED <<pc, list_lock>>
           ELSE /\ list_lock' = NULL
                /\ pc' = IF match = "same_ip" THEN "instead" ELSE "switch"
                /\ UNCHANGED cur
    /\ UNCHANGED <<head, tail, number, next, pre, allocated, chain, data,
                   req, tmp, walk, socketVars>>

\* Mutant: a failed seek leaves cur at the tail (the statement the code has
\* commented out).
SeekFail_CurTail ==
    /\ pc = "match"
    /\ cur = NULL
    /\ cur' = tail
    /\ list_lock' = NULL
    /\ pc' = "add"
    /\ UNCHANGED <<head, tail, number, next, pre, allocated, chain, data,
                   req, tmp, walk, socketVars>>

\* Mutant: the failed seek returns without releasing the lock.
SeekFail_NoUnlock ==
    /\ pc = "match"
    /\ cur = NULL
    /\ pc' = "add"
    /\ UNCHANGED <<listVars, list_lock, data, req, tmp, walk, socketVars>>

\* The loop ran off the end: cur is NULL and the client is unknown.
SeekFail ==
    /\ pc = "match"
    /\ cur = NULL
    /\ list_lock' = NULL
    /\ pc' = "add"
    /\ UNCHANGED <<listVars, data, req, tmp, walk, socketVars>>

\* Mutant: the newest record follows instead of the visitor's.
InsteadIndex_Tail ==
    /\ pc = "instead"
    /\ data' = [data EXCEPT ![tail].camera_index = req.index]
    /\ pc' = "switch"
    /\ UNCHANGED <<listVars, list_lock, req, tmp, walk, socketVars>>

\* handle_buffer follows a known client to another camera, without the lock.
InsteadIndex ==
    /\ pc = "instead"
    /\ data' = [data EXCEPT ![cur].camera_index = req.index]
    /\ pc' = "switch"
    /\ UNCHANGED <<listVars, list_lock, req, tmp, walk, socketVars>>

\* add_client, first statement; p_tmp is then the record behind list->tail.
AddAlloc ==
    /\ pc = "add"
    /\ \E n \in Node : list_node_alloc_tail(n) /\ tmp' = n
    /\ pc' = "set_index"
    /\ UNCHANGED <<req, walk, socketVars>>

\* add_client fills the published record field by field, without the lock.
AddIndex ==
    /\ pc = "set_index"
    /\ data' = [data EXCEPT ![tmp].camera_index = req.index]
    /\ pc' = "set_ip"
    /\ UNCHANGED <<listVars, list_lock, req, tmp, walk, socketVars>>

AddIp ==
    /\ pc = "set_ip"
    /\ data' = [data EXCEPT ![tmp].ip = req.ip]
    /\ pc' = "set_fd"
    /\ UNCHANGED <<listVars, list_lock, req, tmp, walk, socketVars>>

AddFd ==
    /\ pc = "set_fd"
    /\ data' = [data EXCEPT ![tmp].fd = -1]
    /\ pc' = "socket"
    /\ UNCHANGED <<listVars, list_lock, req, tmp, walk, socketVars>>

\* UdpCreateSocket(port): the result, the ports in use and the descriptors
\* held afterwards.  A socket that cannot be bound is not closed.
UdpCreateSocket(port) ==
    CASE nfd >= MaxFd -> [fd |-> -1, bound |-> bound, nfd |-> nfd]
      [] nfd < MaxFd /\ port \in bound -> [fd |-> -1, bound |-> bound, nfd |-> nfd + 1]
      [] OTHER -> [fd |-> port, bound |-> bound \union {port}, nfd |-> nfd + 1]

\* One turn of the loop of add_client, with a random port.
AddSocket(port) ==
    /\ pc = "socket"
    /\ LET s == UdpCreateSocket(port)
       IN  /\ data' = [data EXCEPT ![tmp].fd = s.fd]
           /\ bound' = s.bound
           /\ nfd' = s.nfd
           /\ pc' = IF s.fd \in Port THEN "switch" ELSE "socket"
    /\ UNCHANGED <<listVars, list_lock, req, tmp, walk>>

\* The switch of handle_buffer: SHUTDOWN calls del_client, whose record's
\* socket stays open.  recv_buf then closes the connection.
HandleType ==
    /\ pc = "switch"
    /\ IF req.type = "SHUTDOWN"
       THEN list_node_del_cur
       ELSE UNCHANGED <<listVars, data, list_lock>>
    /\ nfd' = nfd - 1
    /\ tmp' = NULL
    /\ req' = NULL
    /\ pc' = "accept"
    /\ UNCHANGED <<walk, bound>>

-----------------------------------------------------------------------------
(* A stream thread: client_output, list_operate_node_all, client_send_udp. *)

WalkBegin(c) ==
    /\ walk[c].pc = "idle"
    /\ list_lock = NULL
    /\ list_lock' = c
    /\ walk' = [walk EXCEPT ![c] = [pc |-> "test", tmp |-> head]]
    /\ UNCHANGED <<listVars, data, serverVars, socketVars>>

\* client_send_udp compares the record's camera with the thread's ...
WalkTest(c) ==
    /\ walk[c].pc = "test"
    /\ walk[c].tmp # NULL
    /\ walk' = [walk EXCEPT ![c] =
                  IF data[@.tmp].camera_index = c
                  THEN [pc |-> "send", tmp |-> @.tmp]
                  ELSE [pc |-> "test", tmp |-> next[@.tmp]]]
    /\ UNCHANGED <<listVars, data, list_lock, serverVars, socketVars>>

\* ... and then reads fd and ip and sends.
WalkSend(c) ==
    /\ walk[c].pc = "send"
    /\ walk' = [walk EXCEPT ![c] = [pc |-> "test", tmp |-> next[@.tmp]]]
    /\ UNCHANGED <<listVars, data, list_lock, serverVars, socketVars>>

\* Mutant: list_operate_node_all returns without releasing the lock.
WalkEnd_NoUnlock(c) ==
    /\ walk[c].pc = "test"
    /\ walk[c].tmp = NULL
    /\ walk' = [walk EXCEPT ![c].pc = "idle"]
    /\ UNCHANGED <<listVars, data, list_lock, serverVars, socketVars>>

WalkEnd(c) ==
    /\ walk[c].pc = "test"
    /\ walk[c].tmp = NULL
    /\ walk' = [walk EXCEPT ![c].pc = "idle"]
    /\ list_lock' = NULL
    /\ UNCHANGED <<listVars, data, serverVars, socketVars>>

-----------------------------------------------------------------------------
Init ==
    /\ new_list
    /\ pc = "accept" /\ req = NULL /\ tmp = NULL
    /\ walk = [c \in Camera |-> [pc |-> "idle", tmp |-> NULL]]
    /\ bound = {} /\ nfd = 0

\* The steps of the server thread once a command has arrived.
ServerStep ==
    \/ SeekBegin \/ SeekStep \/ SeekFail
    \/ InsteadIndex
    \/ AddAlloc \/ AddIndex \/ AddIp \/ AddFd
    \/ \E p \in Port : AddSocket(p)
    \/ HandleType

WalkStep(c) == WalkTest(c) \/ WalkSend(c) \/ WalkEnd(c)

Next ==
    \/ WaitTcpConnect
    \/ \E v \in Visit : recv_buf(v)
    \/ NoVisit
    \/ ServerStep
    \/ \E c \in Camera : WalkBegin(c) \/ WalkStep(c)

Spec == Init /\ [][Next]_vars

\* A thread inside a walk goes on; the server goes on and, as the holders of
\* list_lock always release it, gets the mutex it waits for.  Nothing makes a
\* client connect or send.
Fairness ==
    /\ SF_vars(ServerStep)
    /\ \A c \in Camera : WF_vars(WalkStep(c))

FairSpec == Spec /\ Fairness
-----------------------------------------------------------------------------
(* Properties.                                                             *)

Pc == {"accept", "recv", "seek", "match", "instead", "add", "set_index", "set_ip",
       "set_fd", "socket", "switch"}

\* The variables keep the types of the C structures they stand for.
TypeOK ==
    /\ head \in Pointer /\ tail \in Pointer /\ cur \in Pointer
    /\ number \in Nat
    /\ next \in [Node -> Pointer] /\ pre \in [Node -> Pointer]
    /\ data \in [Node -> Record]
    /\ allocated \subseteq Node
    /\ list_lock \in Camera \union {Server, NULL}
    /\ pc \in Pc
    /\ req \in Visit \union {NULL}
    /\ tmp \in Pointer
    /\ walk \in [Camera -> [pc : {"idle", "test", "send"}, tmp : Pointer]]
    /\ bound \subseteq Port
    /\ nfd \in Nat
    /\ chain \in Seq(Node)

\* Between critical sections the links of common.c form one doubly linked
\* list: head and tail are its ends, next and pre are inverse, every node
\* that was not freed is on it exactly once and number counts them.
ListWellFormed ==
    /\ \A i, j \in 1 .. Len(chain) : chain[i] = chain[j] => i = j
    /\ allocated = Nodes(chain)
    /\ number = Len(chain)
    /\ head = IF chain = <<>> THEN NULL ELSE chain[1]
    /\ tail = IF chain = <<>> THEN NULL ELSE chain[Len(chain)]
    /\ \A i \in 1 .. Len(chain) :
         /\ next[chain[i]] = IF i = Len(chain) THEN NULL ELSE chain[i + 1]
         /\ pre[chain[i]] = IF i = 1 THEN NULL ELSE chain[i - 1]

\* No thread follows a pointer to a freed node: neither the walk of a stream
\* thread, nor cur where handle_buffer or del_client use it, nor p_tmp in
\* add_client.
NoUseAfterFree ==
    /\ \A c \in Camera :
         /\ walk[c].pc = "send" => walk[c].tmp \in allocated
         /\ walk[c].pc = "test" => walk[c].tmp \in allocated \union {NULL}
    /\ pc = "match" => cur \in allocated \union {NULL}
    /\ pc = "instead" => cur \in allocated
    /\ pc = "switch" => cur \in allocated \union {NULL}
    /\ pc \in {"set_index", "set_ip", "set_fd", "socket"} => tmp \in allocated

\* The server is inside add_client, between list_node_alloc_tail and the end
\* of the socket loop, and n is the record it fills.
Filling(n) == pc \in {"set_index", "set_ip", "set_fd", "socket"} /\ n = tmp

Registered == {n \in allocated : ~Filling(n)}

\* Two records never carry the same address, nor the same socket: add_client
\* runs only for an address the seek did not find.
RecordsDistinct ==
    \A m, n \in Registered :
        m # n => data[m].ip # data[n].ip /\ data[m].fd # data[n].fd

\* A record leaves the list only in answer to SHUTDOWN, and it is the record
\* of the client that sent it, although del_client deletes "the current node".
OnlyVisitorLeaves ==
    [][\A n \in allocated \ allocated' :
          req.type = "SHUTDOWN" /\ data[n].ip = req.ip]_vars

\* The list as the map ClientRegistry speaks of.
RegistryMap ==
    [a \in {data[n].ip : n \in Registered} |->
        data[CHOOSE n \in Registered : data[n].ip = a].camera_index]

\* Between add_client and the switch cur is NULL: the seek ran off the end.
Joined == pc = "switch" /\ cur = NULL

Registry == INSTANCE ClientRegistry
                WITH clients <- RegistryMap, visit <- req, joined <- Joined

\* The list implements the registry: a visit changes the entry of the visitor
\* only and ends with the promised entry, and no stream thread changes any.
RegistrySpec == Registry!Spec

\* Every walk of client_output reaches the end of the list and releases
\* list_lock, whatever the server writes meanwhile.
WalkEnds == \A c \in Camera : list_lock = c ~> list_lock # c

\* Once a command has arrived the only server thread comes back to accept,
\* whatever the stream threads do with list_lock, unless the loop of add_client
\* has used up the descriptors: it closes no socket it cannot bind and then never
\* ends.  Before that recv may wait for ever, and with it every other client.
VisitEnds ==
    pc \notin {"accept", "recv"} ~>
        (pc = "accept" \/ (pc = "socket" /\ nfd = MaxFd))
=============================================================================
