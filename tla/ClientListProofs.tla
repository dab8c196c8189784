-------------------------- MODULE ClientListProofs --------------------------
(***************************************************************************)
(* Safety of ClientList, and that it implements ClientRegistry, for any    *)
(* number of nodes, clients, cameras, ports and descriptors.               *)
(***************************************************************************)
EXTENDS ClientList, TLAPS

\* Beside the types: a visit that is being handled is a visit and holds its
\* connection, and a thread about to send has a node.
Handling ==
    /\ pc \notin {"accept", "recv"} => req \in Visit
    /\ pc # "accept" => nfd >= 1
Sending == \A c \in Camera : walk[c].pc = "send" => walk[c].tmp \in Node

TypeInv == TypeOK /\ Handling /\ Sending

\* list_lock belongs to the thread that is between lock and unlock.
LockOwner ==
    /\ pc = "match" <=> list_lock = Server
    /\ \A c \in Camera : walk[c].pc # "idle" <=> list_lock = c

\* The server is inside add_client, after list_node_alloc_tail.
Adding == {"set_index", "set_ip", "set_fd", "socket"}

\* What the seek has found out: no record up to cur has the visitor's address,
\* so that none has when it ends, nor while the visitor's record is filled ...
SeekPast ==
    /\ pc = "match" /\ cur # NULL =>
         \E k \in 1 .. Len(chain) :
            chain[k] = cur /\ \A i \in 1 .. k - 1 : data[chain[i]].ip # req.ip
    /\ pc = "add" \/ (pc = "match" /\ cur = NULL) =>
         \A n \in allocated : data[n].ip # req.ip
    /\ pc \in Adding => \A n \in allocated \ {tmp} : data[n].ip # req.ip

\* ... and where it leaves cur and p_tmp: cur is the visitor's record, or NULL
\* if the record is new.
Found ==
    /\ pc = "instead" => cur # NULL
    /\ pc \in {"instead", "switch"} /\ cur # NULL => cur \in allocated /\ data[cur].ip = req.ip
    /\ pc \in Adding \union {"add"} => cur = NULL
    /\ pc \in Adding => tmp \in allocated
    /\ pc \in {"set_fd", "socket"} => data[tmp].ip = req.ip

\* The walk of a stream thread stays on the list.
Walking ==
    \A c \in Camera :
        /\ walk[c].pc = "send" => walk[c].tmp \in allocated
        /\ walk[c].pc = "test" => walk[c].tmp \in allocated \union {NULL}

\* The socket of a registered client is bound to a port.
SocketsBound == \A n \in Registered : data[n].fd \in bound

ListInv == ListWellFormed /\ LockOwner /\ SeekPast /\ Found /\ Walking

-----------------------------------------------------------------------------
\* Taking a position out of a sequence of nodes leaves a sequence of nodes.
LEMMA WithoutType ==
    ASSUME NEW S, NEW s \in Seq(S), NEW i
    PROVE  Without(s, i) \in Seq(S)
<1>1. Len(s) \in Nat
  OBVIOUS
<1>2. CASE Len(s) = 0
  <2>1. 1 .. Len(s) - 1 = {} /\ 1 .. 0 = {}
    BY <1>2
  <2>2. Without(s, i) \in [1 .. 0 -> S]
    BY <2>1 DEF Without
  <2> QED
    BY <2>2
<1>3. CASE Len(s) # 0
  <2>1. Len(s) - 1 \in Nat
    BY <1>1, <1>3
  <2>2. \A j \in 1 .. Len(s) - 1 : s[j] \in S /\ s[j + 1] \in S
    BY <1>1
  <2>3. Without(s, i) \in [1 .. Len(s) - 1 -> S]
    BY <2>2 DEF Without
  <2> QED
    BY <2>1, <2>3
<1> QED
  BY <1>2, <1>3

\* Storing a field of a record keeps the type of the records.
LEMMA FieldType ==
    ASSUME data \in [Node -> Record], NEW n
    PROVE  /\ \A i \in Camera : [data EXCEPT ![n].camera_index = i] \in [Node -> Record]
           /\ \A a \in Addr : [data EXCEPT ![n].ip = a] \in [Node -> Record]
           /\ \A f \in Port \union {0, -1} : [data EXCEPT ![n].fd = f] \in [Node -> Record]
<1>1. \A r \in Record :
        /\ \A i \in Camera : [r EXCEPT !.camera_index = i] \in Record
        /\ \A a \in Addr : [r EXCEPT !.ip = a] \in Record
        /\ \A f \in Port \union {0, -1} : [r EXCEPT !.fd = f] \in Record
  BY DEF Record
<1>2. CASE n \in Node
  <2>1. data[n] \in Record
    BY <1>2
  <2> QED
    BY <1>1, <1>2, <2>1
<1>3. CASE n \notin Node
  BY <1>3
<1> QED
  BY <1>2, <1>3

\* The types are kept by freeing a node ...
LEMMA FreeType ==
    ASSUME TypeOK, number > 0, NEW n,
           NEW nx \in [Node -> Pointer], NEW px \in [Node -> Pointer],
           Free(n, nx, px)
    PROVE  /\ number' \in Nat
           /\ next' \in [Node -> Pointer] /\ pre' \in [Node -> Pointer]
           /\ data' \in [Node -> Record]
           /\ allocated' \subseteq Node
           /\ chain' \in Seq(Node)
<1>1. ZeroRecord \in Record
  BY ConstantAssumption DEF ZeroRecord, Record
<1>2. chain' \in Seq(Node)
  BY WithoutType DEF Free, TypeOK
<1>3. next' \in [Node -> Pointer] /\ pre' \in [Node -> Pointer]
  BY DEF Free, Pointer
<1> QED
  BY <1>1, <1>2, <1>3 DEF Free, TypeOK

\* ... and so by a deletion.
LEMMA DeletionType ==
    ASSUME TypeOK, list_node_del_cur
    PROVE  /\ head' \in Pointer /\ tail' \in Pointer /\ cur' \in Pointer
           /\ number' \in Nat
           /\ next' \in [Node -> Pointer] /\ pre' \in [Node -> Pointer]
           /\ data' \in [Node -> Record]
           /\ allocated' \subseteq Node
           /\ chain' \in Seq(Node)
           /\ list_lock' = NULL
<1> USE DEF TypeOK
<1>1. CASE number <= 0 \/ cur = NULL
  BY <1>1 DEF list_node_del_cur, listVars
<1>2. CASE ~(number <= 0 \/ cur = NULL)
  <2>0. number > 0 /\ cur \in Node /\ list_lock' = NULL
    BY <1>2 DEF Pointer, list_node_del_cur
  <2>1. \A n \in Node, q \in Pointer :
           /\ [next EXCEPT ![n] = q] \in [Node -> Pointer]
           /\ [pre EXCEPT ![n] = q] \in [Node -> Pointer]
           /\ next[n] \in Pointer
           /\ pre[n] \in Pointer
    OBVIOUS
  <2>2. NULL \in Pointer /\ \A q \in Pointer : q # NULL => q \in Node
    BY DEF Pointer
  <2>3. CASE DelTail
    <3>1. CASE pre[tail] # NULL
      <4>1. Free(tail, [next EXCEPT ![pre[tail]] = NULL], pre)
        BY <2>3, <3>1 DEF DelTail
      <4>2. tail \in Node /\ pre[tail] \in Node
        BY <2>0, <2>1, <2>2, <2>3, <3>1 DEF DelTail
      <4>3. [next EXCEPT ![pre[tail]] = NULL] \in [Node -> Pointer]
        BY <2>1, <2>2, <4>2
      <4> QED
        BY <2>0, <2>3, <3>1, <4>1, <4>2, <4>3, FreeType DEF DelTail, Pointer
    <3>2. CASE pre[tail] = NULL
      BY <2>0, <2>3, <3>2, FreeType DEF DelTail, Pointer
    <3> QED
      BY <3>1, <3>2
  <2>4. CASE DelHead
    <3>1. CASE next[head] # NULL
      <4>1. Free(head, next, [pre EXCEPT ![next[head]] = NULL])
        BY <2>4, <3>1 DEF DelHead
      <4>2. head \in Node /\ next[head] \in Node
        BY <2>0, <2>1, <2>2, <2>4, <3>1 DEF DelHead
      <4>3. [pre EXCEPT ![next[head]] = NULL] \in [Node -> Pointer]
        BY <2>1, <2>2, <4>2
      <4> QED
        BY <2>0, <2>4, <3>1, <4>1, <4>2, <4>3, FreeType DEF DelHead, Pointer
    <3>2. CASE next[head] = NULL
      BY <2>0, <2>4, <3>2, FreeType DEF DelHead, Pointer
    <3> QED
      BY <3>1, <3>2
  <2>5. CASE DelMiddle
    <3>1. /\ [next EXCEPT ![pre[cur]] = next[cur]] \in [Node -> Pointer]
          /\ [pre EXCEPT ![next[cur]] = pre[cur]] \in [Node -> Pointer]
      BY <2>0
    <3> QED
      BY <2>0, <2>5, <3>1, FreeType DEF DelMiddle, Pointer
  <2> QED
    BY <1>2, <2>3, <2>4, <2>5 DEF list_node_del_cur
<1> QED
  BY <1>1, <1>2

\* The list, the server and the stream threads keep their types; a visit under
\* way holds its descriptor, so that closing it never counts below zero.
LEMMA TypeInvariant == Spec => []TypeInv
<1>0. ZeroRecord \in Record /\ -1 \in Port \union {0, -1}
  BY ConstantAssumption DEF ZeroRecord, Record
<1>1. Init => TypeInv
  BY <1>0, ConstantAssumption
     DEF Init, new_list, TypeInv, TypeOK, Handling, Sending, Pointer, Pc
<1>2. TypeInv /\ [Next]_vars => TypeInv'
  <2> SUFFICES ASSUME TypeInv, [Next]_vars PROVE TypeInv'
    OBVIOUS
  <2> USE ConstantAssumption
      DEF TypeInv, TypeOK, Handling, Sending, Pointer, Pc
  <2>1. ASSUME NEW v \in Visit, recv_buf(v) PROVE TypeInv'
    BY <2>1 DEF recv_buf, listVars, socketVars
  <2>2. CASE SeekBegin
    BY <2>2 DEF SeekBegin, socketVars
  <2>3. CASE SeekStep
    BY <2>3 DEF SeekStep, socketVars
  <2>4. CASE SeekFail
    BY <2>4 DEF SeekFail, listVars, socketVars
  <2>5. CASE InsteadIndex
    <3>1. data' \in [Node -> Record]
      BY <2>5, FieldType DEF InsteadIndex, Visit
    <3> QED
      BY <2>5, <3>1 DEF InsteadIndex, listVars, socketVars
  <2>6. CASE AddAlloc
    <3>1. PICK n \in Node : list_node_alloc_tail(n) /\ tmp' = n
      BY <2>6 DEF AddAlloc
    <3>2. chain' \in Seq(Node)
      BY <3>1 DEF list_node_alloc_tail
    <3>3. data' \in [Node -> Record]
      BY <1>0, <3>1 DEF list_node_alloc_tail
    <3>4. next' \in [Node -> Pointer] /\ pre' \in [Node -> Pointer]
      <4>1. CASE head # NULL
        <5>1. [next EXCEPT ![n] = NULL, ![tail] = n] \in [Node -> Pointer]
          <6> DEFINE nx == [next EXCEPT ![n] = NULL]
          <6>1. nx \in [Node -> Pointer]
            OBVIOUS
          <6> HIDE DEF nx
          <6>2. [nx EXCEPT ![tail] = n] \in [Node -> Pointer]
            BY <6>1
          <6> QED
            BY <6>2 DEF nx
        <5>2. /\ next' = [next EXCEPT ![n] = NULL, ![tail] = n]
              /\ pre' = [pre EXCEPT ![n] = tail]
          BY <3>1, <4>1, Zenon DEF list_node_alloc_tail
        <5>3. pre' \in [Node -> Pointer]
          BY <5>2
        <5> QED
          BY <5>1, <5>2, <5>3, Zenon
      <4>2. CASE head = NULL
        BY <3>1, <4>2 DEF list_node_alloc_tail
      <4> QED
        BY <4>1, <4>2
    <3> QED
      BY <2>6, <3>1, <3>2, <3>3, <3>4 DEF AddAlloc, list_node_alloc_tail, socketVars
  <2>7. CASE AddIndex
    <3>1. data' \in [Node -> Record]
      BY <2>7, FieldType DEF AddIndex, Visit
    <3> QED
      BY <2>7, <3>1 DEF AddIndex, listVars, socketVars
  <2>8. CASE AddIp
    <3>1. data' \in [Node -> Record]
      BY <2>8, FieldType DEF AddIp, Visit
    <3> QED
      BY <2>8, <3>1 DEF AddIp, listVars, socketVars
  <2>9. CASE AddFd
    <3>1. data' \in [Node -> Record]
      BY <1>0, <2>9, FieldType DEF AddFd
    <3> QED
      BY <2>9, <3>1 DEF AddFd, listVars, socketVars
  <2>10. ASSUME NEW p \in Port, AddSocket(p) PROVE TypeInv'
    <3>1. /\ UdpCreateSocket(p).fd \in Port \union {0, -1}
          /\ UdpCreateSocket(p).bound \subseteq Port
          /\ UdpCreateSocket(p).nfd \in Nat \ {0}
      BY <2>10 DEF UdpCreateSocket, AddSocket
    <3>2. data' \in [Node -> Record]
      BY <2>10, <3>1, FieldType DEF AddSocket
    <3> QED
      BY <2>10, <3>1, <3>2 DEF AddSocket, listVars
  <2>11. CASE HandleType
    <3>1. CASE req.type = "SHUTDOWN"
      BY <2>11, <3>1, DeletionType DEF HandleType
    <3>2. CASE req.type # "SHUTDOWN"
      BY <2>11, <3>2 DEF HandleType, listVars
    <3> QED
      BY <3>1, <3>2
  <2>12. ASSUME NEW c \in Camera, WalkBegin(c) PROVE TypeInv'
    BY <2>12 DEF WalkBegin, listVars, serverVars, socketVars
  <2>13. ASSUME NEW c \in Camera, WalkStep(c) PROVE TypeInv'
    <3>1. CASE WalkTest(c)
      BY <3>1 DEF WalkTest, listVars, serverVars, socketVars
    <3>2. CASE WalkSend(c)
      BY <3>2 DEF WalkSend, listVars, serverVars, socketVars
    <3>3. CASE WalkEnd(c)
      BY <3>3 DEF WalkEnd, listVars, serverVars, socketVars
    <3> QED
      BY <2>13, <3>1, <3>2, <3>3 DEF WalkStep
  <2>14. CASE WaitTcpConnect \/ NoVisit
    BY <2>14 DEF WaitTcpConnect, NoVisit, listVars
  <2>15. CASE UNCHANGED vars
    BY <2>15 DEF vars
  <2> QED
    BY <2>1, <2>2, <2>3, <2>4, <2>5, <2>6, <2>7, <2>8, <2>9, <2>10, <2>11, <2>12,
       <2>13, <2>14, <2>15 DEF Next, ServerStep
<1> QED
  BY <1>1, <1>2, PTL DEF Spec

\* Every reachable state of the client list is well typed.
THEOREM TypeCorrect == Spec => []TypeOK
BY TypeInvariant, PTL DEF TypeInv
-----------------------------------------------------------------------------
(* The shape of the list.                                                  *)

\* What is left of a sequence without repetitions when position k goes.
LEMMA WithoutFacts ==
    ASSUME NEW S, NEW s \in Seq(S), NEW k \in 1 .. Len(s),
           \A i, j \in 1 .. Len(s) : s[i] = s[j] => i = j
    PROVE  /\ Len(Without(s, k)) = Len(s) - 1
           /\ \A j \in 1 .. Len(s) - 1 :
                Without(s, k)[j] = IF j < k THEN s[j] ELSE s[j + 1]
           /\ \A i, j \in 1 .. Len(s) - 1 : Without(s, k)[i] = Without(s, k)[j] => i = j
           /\ Nodes(Without(s, k)) = Nodes(s) \ {s[k]}
<1>1. Len(s) \in Nat /\ Len(s) - 1 \in Nat
  OBVIOUS
<1> DEFINE w == Without(s, k)
<1>2. w \in Seq(S)
  BY WithoutType
<1>3. DOMAIN w = 1 .. Len(s) - 1
  BY DEF Without
<1>4. Len(w) = Len(s) - 1
  BY <1>1, <1>2, <1>3
<1>5. \A j \in 1 .. Len(s) - 1 : w[j] = IF j < k THEN s[j] ELSE s[j + 1]
  BY DEF Without
<1> HIDE DEF w
<1>6. \A i, j \in 1 .. Len(s) - 1 : w[i] = w[j] => i = j
  <2> SUFFICES ASSUME NEW i \in 1 .. Len(s) - 1, NEW j \in 1 .. Len(s) - 1, w[i] = w[j]
               PROVE  i = j
    OBVIOUS
  <2>1. i \in 1 .. Len(s) /\ i + 1 \in 1 .. Len(s) /\ j \in 1 .. Len(s) /\ j + 1 \in 1 .. Len(s)
    BY <1>1
  <2> QED
    BY <1>5, <2>1
<1>7. Nodes(w) = Nodes(s) \ {s[k]}
  <2>1. ASSUME NEW x \in Nodes(w) PROVE x \in Nodes(s) \ {s[k]}
    <3>1. PICK j \in 1 .. Len(s) - 1 : x = w[j]
      BY <1>4 DEF Nodes
    <3>2. j \in 1 .. Len(s) /\ j + 1 \in 1 .. Len(s)
      BY <1>1
    <3> QED
      BY <1>5, <3>1, <3>2 DEF Nodes
  <2>2. ASSUME NEW x \in Nodes(s) \ {s[k]} PROVE x \in Nodes(w)
    <3>1. PICK j \in 1 .. Len(s) : x = s[j]
      BY DEF Nodes
    <3>2. j # k
      BY <3>1
    <3>3. CASE j < k
      <4>1. j \in 1 .. Len(s) - 1
        BY <3>3
      <4> QED
        BY <1>4, <1>5, <3>1, <3>3, <4>1 DEF Nodes
    <3>4. CASE j > k
      <4>1. j - 1 \in 1 .. Len(s) - 1 /\ ~(j - 1 < k) /\ (j - 1) + 1 = j
        BY <3>4
      <4>2. w[j - 1] = s[j]
        BY <1>5, <4>1
      <4> QED
        BY <1>4, <3>1, <4>1, <4>2 DEF Nodes
    <3> QED
      BY <3>2, <3>3, <3>4
  <2> QED
    BY <2>1, <2>2
<1> QED
  BY <1>4, <1>5, <1>6, <1>7 DEF w

\* list_node_alloc_tail keeps the list well formed.
LEMMA AllocationShape ==
    ASSUME TypeOK, ListWellFormed, NEW n \in Node, list_node_alloc_tail(n)
    PROVE  ListWellFormed'
<1> DEFINE L == Len(chain)
<1>1. /\ chain \in Seq(Node) /\ L \in Nat /\ n \notin allocated
      /\ chain' = Append(chain, n) /\ allocated' = allocated \union {n}
      /\ number' = number + 1 /\ tail' = n
  BY DEF list_node_alloc_tail, TypeOK
<1>2. /\ Len(chain') = L + 1 /\ chain'[L + 1] = n
      /\ \A i \in 1 .. L : chain'[i] = chain[i]
      /\ chain' # <<>>
  BY <1>1
<1>3. \A i \in 1 .. L : chain[i] \in allocated /\ chain[i] \in Node
  BY <1>1 DEF ListWellFormed, Nodes
<1> HIDE DEF L
<1>4. \A i, j \in 1 .. L + 1 : chain'[i] = chain'[j] => i = j
  BY <1>1, <1>2, <1>3 DEF ListWellFormed, L
<1>5. allocated' = Nodes(chain')
  <2>1. ASSUME NEW x \in allocated' PROVE x \in Nodes(chain')
    <3>1. CASE x = n
      BY <1>1, <1>2, <3>1 DEF Nodes
    <3>2. CASE x # n
      <4>1. PICK i \in 1 .. L : x = chain[i]
        BY <1>1, <3>2 DEF ListWellFormed, Nodes, L
      <4>2. i \in 1 .. L + 1
        BY <1>1
      <4> QED
        BY <1>2, <4>1, <4>2 DEF Nodes
    <3> QED
      BY <3>1, <3>2
  <2>2. ASSUME NEW x \in Nodes(chain') PROVE x \in allocated'
    <3>1. PICK i \in 1 .. L + 1 : x = chain'[i]
      BY <1>2 DEF Nodes
    <3>2. i \in 1 .. L \/ i = L + 1
      BY <1>1
    <3> QED
      BY <1>1, <1>2, <1>3, <3>1, <3>2
  <2> QED
    BY <2>1, <2>2
<1>6. CASE head # NULL
  <2>1. /\ pre' = [pre EXCEPT ![n] = tail]
        /\ next' = [next EXCEPT ![n] = NULL, ![tail] = n]
        /\ head' = head
    BY <1>6, Zenon DEF list_node_alloc_tail
  <2>2. L >= 1 /\ tail = chain[L] /\ head = chain[1] /\ tail \in Node /\ tail # n
    BY <1>1, <1>3, <1>6 DEF ListWellFormed, L
  <2>3. \A m \in Node : /\ next'[m] = IF m = tail THEN n ELSE IF m = n THEN NULL ELSE next[m]
                        /\ pre'[m] = IF m = n THEN tail ELSE pre[m]
    BY <2>1 DEF TypeOK
  <2>4. ASSUME NEW i \in 1 .. L + 1
        PROVE  /\ next'[chain'[i]] = IF i = L + 1 THEN NULL ELSE chain'[i + 1]
               /\ pre'[chain'[i]] = IF i = 1 THEN NULL ELSE chain'[i - 1]
    <3>0. i = L + 1 \/ i = L \/ i < L
      BY <1>1
    <3>1. CASE i = L + 1
      <4>1. i - 1 = L /\ i # 1 /\ L \in 1 .. L
        BY <1>1, <2>2, <3>1
      <4> QED
        BY <1>1, <1>2, <2>2, <2>3, <3>1, <4>1
    <3>2. CASE i = L
      BY <1>1, <1>2, <1>3, <2>2, <2>3, <3>2 DEF ListWellFormed, L
    <3>3. CASE i < L
      <4>1. i \in 1 .. L /\ i + 1 \in 1 .. L /\ chain[i] # tail /\ chain[i] # n
        BY <1>1, <1>3, <2>2, <3>3 DEF ListWellFormed, L
      <4>2. /\ next[chain[i]] = chain[i + 1]
            /\ pre[chain[i]] = IF i = 1 THEN NULL ELSE chain[i - 1]
        BY <3>3, <4>1 DEF ListWellFormed, L
      <4>3. i # 1 => i - 1 \in 1 .. L
        BY <1>1, <4>1
      <4> QED
        BY <1>1, <1>2, <1>3, <2>3, <3>3, <4>1, <4>2, <4>3
    <3> QED
      BY <3>0, <3>1, <3>2, <3>3
  <2>5. /\ head' = chain'[1] /\ tail' = chain'[Len(chain')]
        /\ number' = Len(chain')
    BY <1>1, <1>2, <2>1, <2>2 DEF ListWellFormed, L
  <2> QED
    BY <1>2, <1>4, <1>5, <2>4, <2>5 DEF ListWellFormed
<1>7. CASE head = NULL
  <2>1. L = 0
    BY <1>1, <1>3, <1>7, ConstantAssumption DEF ListWellFormed, L
  <2>2. /\ pre' = [pre EXCEPT ![n] = NULL]
        /\ next' = [next EXCEPT ![n] = NULL]
        /\ head' = n
    BY <1>7, Zenon DEF list_node_alloc_tail
  <2>3. next'[n] = NULL /\ pre'[n] = NULL
    BY <2>2 DEF TypeOK
  <2> QED
    BY <1>1, <1>2, <1>4, <1>5, <2>1, <2>2, <2>3 DEF ListWellFormed, L
<1> QED
  BY <1>6, <1>7

\* In each of its cases list_node_del_cur unlinks cur: its neighbours, or the
\* ends of the list, now point past it.
LEMMA DeletionUnlinks ==
    ASSUME TypeOK, ListWellFormed, NEW k \in 1 .. Len(chain), cur = chain[k],
           list_node_del_cur
    PROVE  /\ allocated' = allocated \ {cur}
           /\ data' = [data EXCEPT ![cur] = ZeroRecord]
           /\ number' = number - 1
           /\ chain' = Without(chain, k)
           /\ head' = IF k = 1 THEN next[cur] ELSE head
           /\ tail' = IF k = Len(chain) THEN pre[cur] ELSE tail
           /\ \A m \in Node \ {cur} :
                /\ next'[m] = IF k > 1 /\ m = chain[k - 1] THEN next[cur] ELSE next[m]
                /\ pre'[m] = IF k < Len(chain) /\ m = chain[k + 1] THEN pre[cur] ELSE pre[m]
<1> DEFINE L == Len(chain)
<1>1. L \in Nat /\ L >= 1 /\ number = L /\ chain # <<>>
  BY DEF TypeOK, ListWellFormed
<1>2. \A i \in 1 .. L : chain[i] \in Node /\ chain[i] # NULL
  BY ConstantAssumption DEF TypeOK
<1>3. \A i, j \in 1 .. L : chain[i] = chain[j] => i = j
  BY DEF ListWellFormed
<1>4. (CHOOSE i \in 1 .. Len(chain) : chain[i] = cur) = k
  BY <1>3
<1>5. DelTail \/ DelHead \/ DelMiddle
  BY <1>1, <1>2 DEF list_node_del_cur
<1>6. head = chain[1] /\ tail = chain[L]
  BY <1>1 DEF ListWellFormed
<1>7. /\ next[cur] = IF k = L THEN NULL ELSE chain[k + 1]
      /\ pre[cur] = IF k = 1 THEN NULL ELSE chain[k - 1]
  BY DEF ListWellFormed
<1>8. k = 1 <=> cur = head
  BY <1>1, <1>3, <1>6
<1>9. k = L <=> cur = tail
  BY <1>1, <1>3, <1>6
<1>10. /\ k > 1 => chain[k - 1] \in Node /\ chain[k - 1] # NULL /\ chain[k - 1] # cur
       /\ k < L => chain[k + 1] \in Node /\ chain[k + 1] # NULL /\ chain[k + 1] # cur
  <2>1. k > 1 => k - 1 \in 1 .. L /\ k - 1 # k
    BY <1>1
  <2>2. k < L => k + 1 \in 1 .. L /\ k + 1 # k
    BY <1>1
  <2> QED
    BY <1>2, <1>3, <2>1, <2>2
<1> HIDE DEF L
<1>11. cur \in Node
  BY <1>2 DEF L
<1>12. ASSUME NEW nx \in [Node -> Pointer], NEW px \in [Node -> Pointer], Free(cur, nx, px)
       PROVE  /\ allocated' = allocated \ {cur}
              /\ data' = [data EXCEPT ![cur] = ZeroRecord]
              /\ number' = number - 1
              /\ chain' = Without(chain, k)
              /\ \A m \in Node \ {cur} : next'[m] = nx[m] /\ pre'[m] = px[m]
  BY <1>4, <1>12 DEF Free
<1>13. next \in [Node -> Pointer] /\ pre \in [Node -> Pointer] /\ NULL \in Pointer
  BY DEF TypeOK, Pointer
<1>14. CASE DelTail
  <2>1. cur = tail /\ k = L
    BY <1>9, <1>14 DEF DelTail
  <2>2. CASE pre[tail] # NULL
    <3>1. k > 1 /\ pre[tail] = chain[k - 1]
      BY <1>7, <2>1, <2>2
    <3> DEFINE nx == [next EXCEPT ![pre[tail]] = NULL]
    <3>2. Free(cur, nx, pre) /\ tail' = pre[cur] /\ head' = head
      BY <1>14, <2>1, <2>2, Zenon DEF DelTail
    <3>3. /\ nx \in [Node -> Pointer]
          /\ \A m \in Node : nx[m] = IF m = chain[k - 1] THEN NULL ELSE next[m]
      BY <1>13, <3>1
    <3> HIDE DEF nx
    <3> QED
      BY <1>7, <1>12, <1>13, <2>1, <3>1, <3>2, <3>3 DEF L
  <2>3. CASE pre[tail] = NULL
    <3>1. k = 1
      BY <1>7, <1>10, <2>1, <2>3
    <3>2. Free(cur, next, pre) /\ tail' = NULL /\ head' = NULL
      BY <1>14, <2>1, <2>3, Zenon DEF DelTail
    <3> QED
      BY <1>7, <1>12, <1>13, <2>1, <3>1, <3>2 DEF L
  <2> QED
    BY <2>2, <2>3
<1>15. CASE DelHead
  <2>1. cur = head /\ k = 1 /\ k # L
    BY <1>8, <1>9, <1>15 DEF DelHead
  <2>2. k < L /\ next[head] = chain[k + 1] /\ next[head] # NULL
    BY <1>1, <1>7, <1>10, <2>1
  <2> DEFINE px == [pre EXCEPT ![next[head]] = NULL]
  <2>3. Free(cur, next, px) /\ head' = next[cur] /\ tail' = tail
    BY <1>15, <2>1, <2>2, Zenon DEF DelHead
  <2>4. /\ px \in [Node -> Pointer]
        /\ \A m \in Node : px[m] = IF m = chain[k + 1] THEN NULL ELSE pre[m]
    BY <1>13, <2>2
  <2> HIDE DEF px
  <2> QED
    BY <1>7, <1>12, <1>13, <2>1, <2>2, <2>3, <2>4 DEF L
<1>16. CASE DelMiddle
  <2>1. cur # head /\ cur # tail /\ k > 1 /\ k < L
    BY <1>1, <1>8, <1>9, <1>16 DEF DelMiddle, L
  <2>2. pre[cur] = chain[k - 1] /\ next[cur] = chain[k + 1]
    BY <1>7, <2>1
  <2> DEFINE nx == [next EXCEPT ![pre[cur]] = next[cur]]
             px == [pre EXCEPT ![next[cur]] = pre[cur]]
  <2>3. Free(cur, nx, px) /\ head' = head /\ tail' = tail
    BY <1>16, Zenon DEF DelMiddle
  <2>4. next[cur] \in Pointer /\ pre[cur] \in Pointer
    BY <1>11, <1>13
  <2>5. /\ nx \in [Node -> Pointer] /\ px \in [Node -> Pointer]
        /\ \A m \in Node : /\ nx[m] = IF m = chain[k - 1] THEN next[cur] ELSE next[m]
                           /\ px[m] = IF m = chain[k + 1] THEN pre[cur] ELSE pre[m]
    BY <1>13, <2>2, <2>4
  <2> HIDE DEF nx, px
  <2> QED
    BY <1>12, <2>1, <2>3, <2>5 DEF L
<1> QED
  BY <1>5, <1>14, <1>15, <1>16

\* A deletion keeps the list well formed.
LEMMA DeletionShape ==
    ASSUME TypeOK, ListWellFormed, NEW k \in 1 .. Len(chain), cur = chain[k],
           list_node_del_cur
    PROVE  ListWellFormed'
<1> DEFINE L == Len(chain)
           w == Without(chain, k)
<1>1. L \in Nat /\ L >= 1 /\ number = L /\ chain # <<>> /\ chain \in Seq(Node)
  BY DEF TypeOK, ListWellFormed
<1>2. \A i, j \in 1 .. L : chain[i] = chain[j] => i = j
  BY DEF ListWellFormed
<1>3. /\ Len(w) = L - 1
      /\ \A j \in 1 .. L - 1 : w[j] = IF j < k THEN chain[j] ELSE chain[j + 1]
      /\ \A i, j \in 1 .. L - 1 : w[i] = w[j] => i = j
      /\ Nodes(w) = allocated \ {cur}
  BY <1>1, <1>2, WithoutFacts DEF ListWellFormed
<1>4. /\ allocated' = allocated \ {cur} /\ number' = number - 1 /\ chain' = w
      /\ head' = IF k = 1 THEN next[cur] ELSE head
      /\ tail' = IF k = L THEN pre[cur] ELSE tail
      /\ \A m \in Node \ {cur} :
           /\ next'[m] = IF k > 1 /\ m = chain[k - 1] THEN next[cur] ELSE next[m]
           /\ pre'[m] = IF k < L /\ m = chain[k + 1] THEN pre[cur] ELSE pre[m]
  BY DeletionUnlinks
<1>5. head = chain[1] /\ tail = chain[L]
  BY <1>1 DEF ListWellFormed
<1>6. \A i \in 1 .. L : /\ next[chain[i]] = IF i = L THEN NULL ELSE chain[i + 1]
                        /\ pre[chain[i]] = IF i = 1 THEN NULL ELSE chain[i - 1]
                        /\ chain[i] \in Node
  BY <1>1 DEF ListWellFormed
<1>7. w = <<>> <=> L = 1
  <2>1. w \in Seq(Node)
    BY <1>1, WithoutType
  <2> QED
    BY <1>1, <1>3, <2>1
<1>8. k \in Nat /\ 1 <= k /\ k <= L
  BY <1>1
<1> HIDE DEF L, w
<1>9. head' = IF w = <<>> THEN NULL ELSE w[1]
  <2>1. CASE L = 1
    BY <1>4, <1>6, <1>7, <1>8, <2>1
  <2>2. CASE L > 1
    <3>1. 1 \in 1 .. L - 1 /\ 1 \in 1 .. L
      BY <1>1, <2>2
    <3> QED
      BY <1>3, <1>4, <1>5, <1>6, <1>7, <1>8, <2>2, <3>1
  <2> QED
    BY <1>1, <2>1, <2>2
<1>10. tail' = IF w = <<>> THEN NULL ELSE w[Len(w)]
  <2>1. CASE L = 1
    BY <1>4, <1>6, <1>7, <1>8, <2>1
  <2>2. CASE L > 1
    <3>1. L - 1 \in 1 .. L - 1 /\ L \in 1 .. L /\ (L - 1) + 1 = L
      BY <1>1, <2>2
    <3>2. w[L - 1] = IF L - 1 < k THEN chain[L - 1] ELSE chain[L]
      BY <1>3, <3>1
    <3>3. L - 1 < k <=> k = L
      BY <1>1, <1>8
    <3> QED
      BY <1>3, <1>4, <1>5, <1>6, <1>7, <1>8, <2>2, <3>1, <3>2, <3>3
  <2> QED
    BY <1>1, <2>1, <2>2
<1>11. ASSUME NEW i \in 1 .. L - 1
       PROVE  /\ next'[w[i]] = IF i = L - 1 THEN NULL ELSE w[i + 1]
              /\ pre'[w[i]] = IF i = 1 THEN NULL ELSE w[i - 1]
  <2>1. /\ i \in 1 .. L /\ i + 1 \in 1 .. L /\ k \in 1 .. L
        /\ i # L - 1 => i + 1 \in 1 .. L - 1
        /\ i # L - 1 => (i + 1) + 1 \in 1 .. L
        /\ i # 1 => i - 1 \in 1 .. L - 1
        /\ i # 1 => i - 1 \in 1 .. L
        /\ (i - 1) + 1 = i /\ (i + 1) - 1 = i
    BY <1>1, <1>8
  <2>2. CASE i < k
    <3>1. w[i] = chain[i] /\ chain[i] # cur /\ chain[i] \in Node
      BY <1>2, <1>3, <1>6, <2>1, <2>2
    <3>2. next'[chain[i]] = IF i = L - 1 THEN NULL ELSE w[i + 1]
      <4>1. CASE i = k - 1
        <5>1. k > 1 /\ i + 1 = k /\ ~(i + 1 < k) /\ (i = L - 1 <=> k = L)
          BY <1>1, <1>8, <2>1, <4>1
        <5>2. next'[chain[i]] = IF k = L THEN NULL ELSE chain[k + 1]
          BY <1>4, <1>6, <2>1, <3>1, <4>1, <5>1
        <5>3. i # L - 1 => w[i + 1] = chain[k + 1]
          BY <1>3, <2>1, <5>1
        <5> QED
          BY <5>1, <5>2, <5>3
      <4>2. CASE i < k - 1
        <5>1. i + 1 < k /\ i + 1 # k /\ k - 1 \in 1 .. L /\ i # L - 1 /\ i # L
          BY <1>1, <1>8, <4>2
        <5>2. chain[i] # chain[k - 1]
          BY <1>2, <2>1, <4>2, <5>1
        <5> QED
          BY <1>3, <1>4, <1>6, <2>1, <3>1, <5>1, <5>2
      <4> QED
        BY <1>8, <2>2, <4>1, <4>2
    <3>3. pre'[chain[i]] = IF i = 1 THEN NULL ELSE w[i - 1]
      <4>1. k < L => chain[i] # chain[k + 1]
        <5>1. k < L => k + 1 \in 1 .. L /\ i # k + 1
          BY <1>1, <1>8, <2>2
        <5> QED
          BY <1>2, <2>1, <5>1
      <4>2. i # 1 => i - 1 < k
        BY <1>8, <2>2
      <4> QED
        BY <1>3, <1>4, <1>6, <2>1, <3>1, <4>1, <4>2
    <3> QED
      BY <3>1, <3>2, <3>3
  <2>3. CASE i >= k
    <3>1. w[i] = chain[i + 1] /\ chain[i + 1] # cur /\ chain[i + 1] \in Node
      BY <1>2, <1>3, <1>6, <1>8, <2>1, <2>3
    <3>2. next'[chain[i + 1]] = IF i = L - 1 THEN NULL ELSE w[i + 1]
      <4>1. k > 1 => chain[i + 1] # chain[k - 1]
        <5>1. k > 1 => k - 1 \in 1 .. L /\ i + 1 # k - 1
          BY <1>1, <1>8, <2>3
        <5> QED
          BY <1>2, <2>1, <5>1
      <4>2. ~(i + 1 < k) /\ (i + 1 = L <=> i = L - 1)
        BY <1>1, <1>8, <2>3
      <4>3. next'[chain[i + 1]] = IF i = L - 1 THEN NULL ELSE chain[(i + 1) + 1]
        BY <1>4, <1>6, <2>1, <3>1, <4>1, <4>2
      <4>4. i # L - 1 => w[i + 1] = chain[(i + 1) + 1]
        BY <1>3, <2>1, <4>2
      <4> QED
        BY <4>3, <4>4
    <3>3. pre'[chain[i + 1]] = IF i = 1 THEN NULL ELSE w[i - 1]
      <4>1. CASE i = k
        <5>1. k < L /\ i - 1 < k
          BY <1>1, <1>8, <4>1
        <5> QED
          BY <1>3, <1>4, <1>6, <2>1, <3>1, <4>1, <5>1
      <4>2. CASE i > k
        <5>1. i # 1 /\ ~(i - 1 < k) /\ i + 1 # 1
          BY <1>1, <1>8, <4>2
        <5>2. k < L => k + 1 \in 1 .. L /\ i + 1 # k + 1
          BY <1>1, <1>8, <4>2
        <5>3. k < L => chain[i + 1] # chain[k + 1]
          BY <1>2, <2>1, <5>2
        <5>4. pre'[chain[i + 1]] = chain[i]
          BY <1>4, <1>6, <2>1, <3>1, <5>1, <5>3
        <5>5. w[i - 1] = chain[i]
          BY <1>3, <2>1, <5>1
        <5> QED
          BY <5>1, <5>4, <5>5
      <4> QED
        BY <1>8, <2>3, <4>1, <4>2
    <3> QED
      BY <3>1, <3>2, <3>3
  <2> QED
    BY <1>8, <2>2, <2>3
<1>12. /\ \A i, j \in 1 .. Len(chain') : chain'[i] = chain'[j] => i = j
       /\ allocated' = Nodes(chain') /\ number' = Len(chain')
  BY <1>1, <1>3, <1>4
<1>13. /\ head' = IF chain' = <<>> THEN NULL ELSE chain'[1]
       /\ tail' = IF chain' = <<>> THEN NULL ELSE chain'[Len(chain')]
  BY <1>4, <1>9, <1>10
<1>14. \A i \in 1 .. Len(chain') :
         /\ next'[chain'[i]] = IF i = Len(chain') THEN NULL ELSE chain'[i + 1]
         /\ pre'[chain'[i]] = IF i = 1 THEN NULL ELSE chain'[i - 1]
  BY <1>3, <1>4, <1>11
<1> QED
  BY <1>12, <1>13, <1>14 DEF ListWellFormed
-----------------------------------------------------------------------------
(* The threads on the list.                                                *)

\* head and the links of the nodes lead to nodes of the list or to NULL.
LEMMA LinksStay ==
    ASSUME TypeOK, ListWellFormed
    PROVE  /\ head \in allocated \union {NULL}
           /\ \A n \in allocated : next[n] \in allocated \union {NULL}
<1>1. Len(chain) \in Nat /\ chain \in Seq(Node)
  BY DEF TypeOK
<1>2. \A i \in 1 .. Len(chain) : chain[i] \in allocated
  BY DEF ListWellFormed, Nodes
<1>3. head \in allocated \union {NULL}
  BY <1>1, <1>2 DEF ListWellFormed
<1>4. ASSUME NEW n \in allocated PROVE next[n] \in allocated \union {NULL}
  <2>1. PICK i \in 1 .. Len(chain) : n = chain[i]
    BY DEF ListWellFormed, Nodes
  <2>2. i = Len(chain) \/ i + 1 \in 1 .. Len(chain)
    BY <1>1
  <2> QED
    BY <1>2, <2>1, <2>2 DEF ListWellFormed
<1> QED
  BY <1>3, <1>4

\* Storing another field leaves the addresses alone.
LEMMA FieldsApart ==
    ASSUME data \in [Node -> Record], NEW m, NEW x
    PROVE  \A n \in Node :
              /\ [data EXCEPT ![m].camera_index = x][n].ip = data[n].ip
              /\ [data EXCEPT ![m].camera_index = x][n].fd = data[n].fd
              /\ [data EXCEPT ![m].fd = x][n].ip = data[n].ip
              /\ [data EXCEPT ![m].fd = x][n].fd = IF n = m THEN x ELSE data[n].fd
              /\ [data EXCEPT ![m].ip = x][n].ip = IF n = m THEN x ELSE data[n].ip
              /\ [data EXCEPT ![m].ip = x][n].fd = data[n].fd
<1>1. \A r \in Record :
        /\ [r EXCEPT !.camera_index = x].ip = r.ip /\ [r EXCEPT !.camera_index = x].fd = r.fd
        /\ [r EXCEPT !.fd = x].ip = r.ip /\ [r EXCEPT !.fd = x].fd = x
        /\ [r EXCEPT !.ip = x].ip = x /\ [r EXCEPT !.ip = x].fd = r.fd
  BY DEF Record
<1> SUFFICES ASSUME NEW n \in Node
             PROVE  /\ [data EXCEPT ![m].camera_index = x][n].ip = data[n].ip
                    /\ [data EXCEPT ![m].camera_index = x][n].fd = data[n].fd
                    /\ [data EXCEPT ![m].fd = x][n].ip = data[n].ip
                    /\ [data EXCEPT ![m].fd = x][n].fd = IF n = m THEN x ELSE data[n].fd
                    /\ [data EXCEPT ![m].ip = x][n].ip = IF n = m THEN x ELSE data[n].ip
                    /\ [data EXCEPT ![m].ip = x][n].fd = data[n].fd
  OBVIOUS
<1>2. data[n] \in Record
  OBVIOUS
<1>3. CASE n = m
  BY <1>1, <1>2, <1>3
<1>4. CASE n # m
  BY <1>4
<1> QED
  BY <1>3, <1>4

\* A store to a published record that keeps every address (or changes that of
\* the visitor's new record only) keeps the seek's result, if the server goes
\* on from one point of handle_buffer to the next.
LEMMA StoreKeeps ==
    ASSUME TypeInv, ListInv, UNCHANGED <<listVars, list_lock, walk, req, tmp>>,
           \/ /\ pc = "instead" /\ pc' = "switch"
              /\ \A n \in Node : data'[n].ip = data[n].ip
           \/ /\ pc = "set_index" /\ pc' = "set_ip"
              /\ \A n \in Node : data'[n].ip = data[n].ip
           \/ /\ pc = "set_ip" /\ pc' = "set_fd"
              /\ \A n \in Node : data'[n].ip = IF n = tmp THEN req.ip ELSE data[n].ip
           \/ /\ pc \in {"set_fd", "socket"} /\ pc' \in {"socket", "switch"}
              /\ \A n \in Node : data'[n].ip = data[n].ip
    PROVE  ListInv'
<1> USE DEF TypeInv, TypeOK, ListInv
<1>1. ListWellFormed'
  BY DEF ListWellFormed, listVars
<1>2. LockOwner'
  BY DEF LockOwner
<1>3. Walking'
  BY DEF Walking, listVars
<1>4. SeekPast'
  BY DEF SeekPast, listVars, Adding
<1>5. Found'
  BY DEF Found, listVars, Adding
<1> QED
  BY <1>1, <1>2, <1>3, <1>4, <1>5

\* Every step keeps the shape of the list and the places of the threads on it.
LEMMA ListStep == TypeInv /\ ListInv /\ [Next]_vars => ListInv'
<1> SUFFICES ASSUME TypeInv, ListInv, [Next]_vars PROVE ListInv'
  OBVIOUS
<1> USE DEF TypeInv, ListInv
<1>0. /\ Len(chain) \in Nat /\ chain \in Seq(Node) /\ NULL \notin allocated
      /\ NULL \notin Camera /\ NULL # Server /\ Server \notin Camera
      /\ \A i \in 1 .. Len(chain) : chain[i] \in allocated
      /\ \A n \in allocated : \E i \in 1 .. Len(chain) : n = chain[i]
  BY ConstantAssumption DEF TypeOK, ListWellFormed, Nodes
<1>1. ASSUME UNCHANGED listVars PROVE ListWellFormed'
  BY <1>1 DEF ListWellFormed, listVars
<1>2. ASSUME NEW v \in Visit, recv_buf(v) PROVE ListInv'
  <2>1. ListWellFormed' /\ Walking' /\ LockOwner'
    BY <1>1, <1>2 DEF recv_buf, listVars, Walking, LockOwner
  <2> QED
    BY <1>2, <2>1 DEF recv_buf, SeekPast, Found, Adding
<1>3. CASE SeekBegin
  <2>1. ListWellFormed'
    BY <1>3 DEF SeekBegin, ListWellFormed
  <2>2. LockOwner' /\ Walking'
    BY <1>0, <1>3 DEF SeekBegin, LockOwner, Walking
  <2>3. SeekPast'
    <3>1. chain = <<>> => allocated = {}
      BY <1>0
    <3>2. chain # <<>> => 1 \in 1 .. Len(chain) /\ head = chain[1] /\ 1 .. 1 - 1 = {}
      BY <1>0 DEF ListWellFormed
    <3>3. head = NULL => chain = <<>>
      BY <1>0, <3>2
    <3>4. chain = <<>> => head = NULL
      BY DEF ListWellFormed
    <3> QED
      BY <1>3, <3>1, <3>2, <3>3, <3>4 DEF SeekBegin, SeekPast, Adding
  <2> QED
    BY <1>3, <2>1, <2>2, <2>3 DEF SeekBegin, Found, Adding
<1>4. CASE SeekStep
  <2>1. ListWellFormed'
    BY <1>4 DEF SeekStep, ListWellFormed
  <2>2. Walking'
    BY <1>4 DEF SeekStep, Walking
  <2>3. pc = "match" /\ cur # NULL
    BY <1>4 DEF SeekStep
  <2>4. PICK k \in 1 .. Len(chain) :
           chain[k] = cur /\ \A i \in 1 .. k - 1 : data[chain[i]].ip # req.ip
    BY <2>3 DEF SeekPast
  <2>5. CASE data[cur].ip # req.ip
    <3>1. /\ cur' = next[cur] /\ pc' = "match"
          /\ UNCHANGED <<list_lock, data, req, tmp, walk, chain, allocated>>
      BY <1>4, <2>3, <2>5 DEF SeekStep, client_info_match
    <3>2. LockOwner'
      BY <2>3, <3>1 DEF LockOwner
    <3>3. \A i \in 1 .. k : data[chain[i]].ip # req.ip
      BY <2>4, <2>5
    <3>4. CASE k = Len(chain)
      <4>1. next[cur] = NULL
        BY <2>4, <3>4 DEF ListWellFormed
      <4>2. \A n \in allocated : data[n].ip # req.ip
        BY <1>0, <3>3, <3>4
      <4> QED
        BY <2>1, <2>2, <3>1, <3>2, <4>1, <4>2 DEF SeekPast, Found, Adding
    <3>5. CASE k # Len(chain)
      <4>1. k + 1 \in 1 .. Len(chain) /\ (k + 1) - 1 = k
        BY <1>0, <3>5
      <4>2. next[cur] = chain[k + 1] /\ chain[k + 1] # NULL
        BY <1>0, <2>4, <3>5, <4>1 DEF ListWellFormed
      <4>3. SeekPast'
        BY <3>1, <3>3, <4>1, <4>2 DEF SeekPast, Adding
      <4> QED
        BY <2>1, <2>2, <3>1, <3>2, <4>3 DEF Found, Adding
    <3> QED
      BY <3>4, <3>5
  <2>6. CASE data[cur].ip = req.ip
    <3>1. /\ cur' = cur /\ pc' \in {"instead", "switch"} /\ list_lock' = NULL
          /\ UNCHANGED <<data, req, tmp, walk, chain, allocated>>
      BY <1>4, <2>3, <2>6 DEF SeekStep, client_info_match
    <3>2. LockOwner'
      BY <1>0, <2>3, <3>1 DEF LockOwner
    <3>3. cur \in allocated
      BY <1>0, <2>4
    <3> QED
      BY <2>1, <2>2, <2>3, <2>6, <3>1, <3>2, <3>3 DEF SeekPast, Found, Adding
  <2> QED
    BY <2>5, <2>6
<1>5. CASE SeekFail
  <2>1. ListWellFormed' /\ Walking'
    BY <1>1, <1>5 DEF SeekFail, listVars, Walking
  <2>2. LockOwner'
    BY <1>0, <1>5 DEF SeekFail, LockOwner
  <2> QED
    BY <1>5, <2>1, <2>2 DEF SeekFail, listVars, SeekPast, Found, Adding
<1>6. CASE InsteadIndex
  BY <1>6, StoreKeeps, FieldsApart DEF InsteadIndex, TypeOK
<1>7. CASE AddAlloc
  <2>1. PICK n \in Node : list_node_alloc_tail(n) /\ tmp' = n
    BY <1>7 DEF AddAlloc
  <2>2. ListWellFormed'
    BY <2>1, AllocationShape
  <2>3. /\ allocated' = allocated \union {n} /\ n \notin allocated
        /\ \A m \in allocated : data'[m] = data[m]
        /\ cur' = cur /\ list_lock' = list_lock
    BY <2>1 DEF list_node_alloc_tail, TypeOK
  <2>4. pc = "add" /\ pc' = "set_index" /\ UNCHANGED <<req, walk>>
    BY <1>7 DEF AddAlloc
  <2>5. LockOwner' /\ Walking'
    BY <2>3, <2>4 DEF LockOwner, Walking
  <2>6. SeekPast'
    BY <2>1, <2>3, <2>4 DEF SeekPast, Adding
  <2>7. Found'
    BY <2>1, <2>3, <2>4 DEF Found, Adding
  <2> QED
    BY <2>2, <2>5, <2>6, <2>7
<1>8. CASE AddIndex
  BY <1>8, StoreKeeps, FieldsApart DEF AddIndex, TypeOK
<1>9. CASE AddIp
  BY <1>9, StoreKeeps, FieldsApart DEF AddIp, TypeOK
<1>10. CASE AddFd
  BY <1>10, StoreKeeps, FieldsApart DEF AddFd, TypeOK
<1>11. ASSUME NEW p \in Port, AddSocket(p) PROVE ListInv'
  BY <1>11, StoreKeeps, FieldsApart DEF AddSocket, TypeOK
<1>12. CASE HandleType
  <2>1. pc = "switch" /\ pc' = "accept" /\ UNCHANGED walk
    BY <1>12 DEF HandleType
  <2>2. SeekPast' /\ Found'
    BY <2>1 DEF SeekPast, Found, Adding
  <2>3. CASE req.type = "SHUTDOWN" /\ cur # NULL
    <3>1. list_node_del_cur
      BY <1>12, <2>3 DEF HandleType
    <3>2. PICK k \in 1 .. Len(chain) : cur = chain[k]
      BY <1>0, <2>1, <2>3 DEF Found
    <3>3. ListWellFormed'
      BY <3>1, <3>2, DeletionShape
    <3>4. list_lock = NULL /\ list_lock' = NULL
      BY <3>1 DEF list_node_del_cur
    <3> QED
      BY <1>0, <2>1, <2>2, <3>3, <3>4 DEF LockOwner, Walking
  <2>4. CASE ~(req.type = "SHUTDOWN" /\ cur # NULL)
    <3>1. UNCHANGED <<listVars, list_lock>>
      BY <1>12, <2>4 DEF HandleType, list_node_del_cur
    <3> QED
      BY <1>1, <2>1, <2>2, <3>1 DEF LockOwner, Walking, listVars
  <2> QED
    BY <2>3, <2>4
<1>13. ASSUME NEW c \in Camera, WalkBegin(c) \/ WalkStep(c) PROVE ListInv'
  <2>1. UNCHANGED <<listVars, data, serverVars>>
    BY <1>13 DEF WalkBegin, WalkStep, WalkTest, WalkSend, WalkEnd
  <2>2. ListWellFormed' /\ SeekPast' /\ Found'
    BY <1>1, <2>1 DEF listVars, serverVars, SeekPast, Found
  <2>3. \A d \in Camera \ {c} : walk'[d] = walk[d]
    BY <1>13 DEF WalkBegin, WalkStep, WalkTest, WalkSend, WalkEnd, TypeOK
  <2>4. LockOwner'
    <3>1. CASE WalkBegin(c)
      BY <1>0, <2>1, <2>3, <3>1 DEF WalkBegin, LockOwner, serverVars, TypeOK
    <3>2. CASE WalkTest(c) \/ WalkSend(c)
      BY <1>0, <2>1, <2>3, <3>2 DEF WalkTest, WalkSend, LockOwner, serverVars, TypeOK
    <3>3. CASE WalkEnd(c)
      BY <1>0, <2>1, <2>3, <3>3 DEF WalkEnd, LockOwner, serverVars, TypeOK
    <3> QED
      BY <1>13, <3>1, <3>2, <3>3 DEF WalkStep
  <2>5. /\ walk'[c].pc = "send" => walk'[c].tmp \in allocated
        /\ walk'[c].pc = "test" => walk'[c].tmp \in allocated \union {NULL}
    <3>1. CASE WalkBegin(c)
      BY <3>1, LinksStay DEF WalkBegin, TypeOK
    <3>2. CASE WalkTest(c)
      BY <3>2, LinksStay DEF WalkTest, Walking, TypeOK
    <3>3. CASE WalkSend(c)
      BY <3>3, LinksStay DEF WalkSend, Walking, TypeOK
    <3>4. CASE WalkEnd(c)
      BY <3>4 DEF WalkEnd, TypeOK
    <3> QED
      BY <1>13, <3>1, <3>2, <3>3, <3>4 DEF WalkStep
  <2>6. Walking'
    BY <2>1, <2>3, <2>5 DEF Walking, listVars
  <2> QED
    BY <2>2, <2>4, <2>6
<1>14. CASE UNCHANGED vars
  BY <1>14 DEF vars, ListWellFormed, LockOwner, SeekPast, Found, Walking
<1>15. CASE WaitTcpConnect \/ NoVisit
  <2>1. ListWellFormed' /\ Walking' /\ LockOwner'
    BY <1>1, <1>15 DEF WaitTcpConnect, NoVisit, listVars, Walking, LockOwner
  <2> QED
    BY <1>15, <2>1 DEF WaitTcpConnect, NoVisit, SeekPast, Found, Adding
<1> QED
  BY <1>2, <1>3, <1>4, <1>5, <1>6, <1>7, <1>8, <1>9, <1>10, <1>11, <1>12, <1>13, <1>14,
     <1>15 DEF Next, ServerStep

\* The list is well formed and every thread is where its pointer says.
LEMMA ListInvariant == Spec => []ListInv
<1>1. Init => ListInv
  <2> SUFFICES ASSUME Init PROVE ListInv
    OBVIOUS
  <2>1. ListWellFormed
    BY DEF Init, new_list, ListWellFormed, Nodes
  <2> QED
    BY <2>1, ConstantAssumption
       DEF Init, new_list, ListInv, LockOwner, SeekPast, Found, Walking, Adding
<1> QED
  BY <1>1, TypeInvariant, ListStep, PTL DEF Spec

\* common.c keeps a doubly linked list of exactly the nodes that were allocated
\* and not freed, whatever the threads do.
THEOREM ListCorrect == Spec => []ListWellFormed
BY ListInvariant, PTL DEF ListInv

\* No thread of the detector follows a pointer to a freed list node.
THEOREM MemorySafe == Spec => []NoUseAfterFree
<1>1. TypeInv /\ ListInv => NoUseAfterFree
  <2> SUFFICES ASSUME TypeInv, ListInv PROVE NoUseAfterFree
    OBVIOUS
  <2>1. pc = "match" => cur \in allocated \union {NULL}
    BY DEF ListInv, SeekPast, ListWellFormed, Nodes
  <2> QED
    BY <2>1 DEF ListInv, Found, Walking, NoUseAfterFree, Adding
<1> QED
  BY <1>1, TypeInvariant, ListInvariant, PTL

\* del_client, which deletes whatever cur points to, takes out the record of the
\* client that said SHUTDOWN and no other.
THEOREM VisitorLeaves == Spec => OnlyVisitorLeaves
<1>1. TypeInv /\ ListInv /\ [Next]_vars
        => [\A n \in allocated \ allocated' :
               req.type = "SHUTDOWN" /\ data[n].ip = req.ip]_vars
  <2> SUFFICES ASSUME TypeInv, ListInv, [Next]_vars, NEW n \in allocated \ allocated'
               PROVE  req.type = "SHUTDOWN" /\ data[n].ip = req.ip
    OBVIOUS
  <2>1. CASE HandleType
    <3>1. req.type = "SHUTDOWN" /\ list_node_del_cur
      BY <2>1 DEF HandleType, listVars
    <3>2. cur # NULL
      BY <3>1 DEF list_node_del_cur, listVars
    <3>3. cur \in allocated /\ data[cur].ip = req.ip
      BY <2>1, <3>2 DEF ListInv, Found, HandleType
    <3>4. PICK k \in 1 .. Len(chain) : cur = chain[k]
      BY <3>3 DEF ListInv, ListWellFormed, Nodes
    <3>5. allocated' = allocated \ {cur}
      BY <3>1, <3>4, DeletionUnlinks DEF TypeInv, ListInv
    <3> QED
      BY <3>1, <3>3, <3>5
  <2>2. CASE AddAlloc
    BY <2>2 DEF AddAlloc, list_node_alloc_tail
  <2>3. CASE ~HandleType /\ ~AddAlloc
    BY <2>3 DEF Next, vars, listVars, WaitTcpConnect, recv_buf, NoVisit, ServerStep, SeekBegin, SeekStep, SeekFail,
                InsteadIndex, AddIndex, AddIp, AddFd, AddSocket, WalkStep, WalkBegin, WalkTest,
                WalkSend, WalkEnd
  <2> QED
    BY <2>1, <2>2, <2>3
<1> QED
  BY <1>1, TypeInvariant, ListInvariant, PTL DEF Spec, OnlyVisitorLeaves

-----------------------------------------------------------------------------
(* The records.                                                            *)

RecordsInv == SocketsBound /\ RecordsDistinct

\* Every step keeps addresses and sockets distinct.
LEMMA RecordsStep == TypeInv /\ ListInv /\ RecordsInv /\ [Next]_vars => RecordsInv'
<1> SUFFICES ASSUME TypeInv, ListInv, RecordsInv, [Next]_vars PROVE RecordsInv'
  OBVIOUS
<1> USE DEF RecordsInv
<1>0. /\ pc \notin Adding => Registered = allocated
      /\ pc \in Adding => Registered = allocated \ {tmp}
      /\ pc' \notin Adding => Registered' = allocated'
      /\ pc' \in Adding => Registered' = allocated' \ {tmp'}
      /\ Registered \subseteq Node /\ bound \subseteq Port
  BY DEF Registered, Filling, Adding, TypeInv, TypeOK
<1>1. ASSUME Registered' \subseteq Registered, bound \subseteq bound',
             \A n \in Registered' : data'[n].ip = data[n].ip /\ data'[n].fd = data[n].fd
      PROVE  RecordsInv'
  BY <1>1 DEF SocketsBound, RecordsDistinct
<1>2. ASSUME NEW v \in Visit, recv_buf(v) PROVE RecordsInv'
  BY <1>0, <1>1, <1>2 DEF recv_buf, listVars, socketVars, Adding
<1>3. CASE SeekBegin \/ SeekStep \/ SeekFail
  BY <1>0, <1>1, <1>3 DEF SeekBegin, SeekStep, SeekFail, listVars, socketVars, Adding
<1>4. CASE InsteadIndex
  BY <1>0, <1>1, <1>4, FieldsApart
     DEF InsteadIndex, listVars, socketVars, Adding, TypeInv, TypeOK
<1>5. CASE AddAlloc
  <2>1. PICK n \in Node : list_node_alloc_tail(n) /\ tmp' = n
    BY <1>5 DEF AddAlloc
  <2>2. /\ allocated' = allocated \union {n} /\ n \notin allocated
        /\ \A m \in allocated : data'[m] = data[m]
    BY <2>1 DEF list_node_alloc_tail, TypeInv, TypeOK
  <2> QED
    BY <1>0, <1>1, <1>5, <2>1, <2>2 DEF AddAlloc, socketVars, Adding
<1>6. CASE AddIndex
  BY <1>0, <1>1, <1>6, FieldsApart
     DEF AddIndex, listVars, socketVars, Adding, TypeInv, TypeOK
<1>7. CASE AddIp
  BY <1>0, <1>1, <1>7, FieldsApart
     DEF AddIp, listVars, socketVars, Adding, TypeInv, TypeOK
<1>8. CASE AddFd
  BY <1>0, <1>1, <1>8, FieldsApart
     DEF AddFd, listVars, socketVars, Adding, TypeInv, TypeOK
<1>9. ASSUME NEW p \in Port, AddSocket(p) PROVE RecordsInv'
  <2> DEFINE s == UdpCreateSocket(p)
  <2>1. /\ data' = [data EXCEPT ![tmp].fd = s.fd] /\ bound' = s.bound
        /\ pc = "socket" /\ pc' = IF s.fd \in Port THEN "switch" ELSE "socket"
        /\ UNCHANGED <<allocated, tmp>>
    BY <1>9 DEF AddSocket, listVars
  <2>2. \A n \in Node : /\ data'[n].ip = data[n].ip
                        /\ data'[n].fd = IF n = tmp THEN s.fd ELSE data[n].fd
    BY <2>1, FieldsApart DEF TypeInv, TypeOK
  <2>3. CASE s.fd = p /\ p \notin bound /\ s.bound = bound \union {p}
    <3>1. Registered' = Registered \union {tmp} /\ tmp \notin Registered /\ tmp \in allocated
      BY <1>0, <2>1, <2>3 DEF Adding, ListInv, Found
    <3>2. data[tmp].ip = req.ip /\ \A n \in Registered : data[n].ip # req.ip
      BY <1>0, <2>1 DEF Adding, ListInv, Found, SeekPast
    <3>3. \A n \in Registered : data'[n].ip = data[n].ip /\ data'[n].fd = data[n].fd
      BY <1>0, <2>2, <3>1
    <3>4. data'[tmp].ip = req.ip /\ data'[tmp].fd = p
      BY <1>0, <2>2, <2>3, <3>1, <3>2 DEF TypeInv, TypeOK
    <3>5. SocketsBound'
      BY <2>1, <2>3, <3>1, <3>3, <3>4 DEF SocketsBound
    <3>6. ASSUME NEW n \in Registered PROVE data[n].fd # p /\ data[n].ip # req.ip
      BY <2>3, <3>2 DEF SocketsBound
    <3>7. RecordsDistinct'
      BY <3>1, <3>3, <3>4, <3>6 DEF RecordsDistinct
    <3> QED
      BY <3>5, <3>7
  <2>4. CASE s.fd = -1 /\ s.bound = bound
    <3>1. s.fd \notin Port
      BY <2>4, ConstantAssumption
    <3> QED
      BY <1>0, <1>1, <2>1, <2>2, <2>4, <3>1 DEF Adding
  <2>5. \/ s.fd = p /\ p \notin bound /\ s.bound = bound \union {p}
        \/ s.fd = -1 /\ s.bound = bound
    <3>1. CASE nfd >= MaxFd
      BY <3>1 DEF UdpCreateSocket
    <3>2. CASE ~(nfd >= MaxFd) /\ p \in bound
      BY <3>2, ConstantAssumption DEF UdpCreateSocket, TypeInv, TypeOK
    <3>3. CASE ~(nfd >= MaxFd) /\ p \notin bound
      BY <3>3, ConstantAssumption DEF UdpCreateSocket, TypeInv, TypeOK
    <3> QED
      BY <3>1, <3>2, <3>3
  <2> QED
    BY <2>3, <2>4, <2>5
<1>10. CASE HandleType
  <2>1. pc \notin Adding /\ pc' \notin Adding /\ bound' = bound
    BY <1>10 DEF HandleType, Adding
  <2>2. CASE req.type = "SHUTDOWN" /\ cur # NULL
    <3>1. PICK k \in 1 .. Len(chain) : cur = chain[k]
      BY <1>10, <2>2 DEF HandleType, ListInv, Found, ListWellFormed, Nodes
    <3>2. /\ allocated' = allocated \ {cur}
          /\ data' = [data EXCEPT ![cur] = ZeroRecord]
      BY <1>10, <2>2, <3>1, DeletionUnlinks DEF HandleType, TypeInv, ListInv
    <3>3. \A n \in Node \ {cur} : data'[n] = data[n]
      BY <3>2 DEF TypeInv, TypeOK
    <3> QED
      BY <1>0, <1>1, <2>1, <3>2, <3>3
  <2>3. CASE ~(req.type = "SHUTDOWN" /\ cur # NULL)
    <3>1. UNCHANGED <<allocated, data>>
      BY <1>10, <2>3 DEF HandleType, list_node_del_cur, listVars
    <3> QED
      BY <1>0, <1>1, <2>1, <3>1
  <2> QED
    BY <2>2, <2>3
<1>11. ASSUME NEW c \in Camera, WalkBegin(c) \/ WalkStep(c) PROVE RecordsInv'
  BY <1>0, <1>1, <1>11 DEF WalkBegin, WalkStep, WalkTest, WalkSend, WalkEnd, listVars,
                           serverVars, socketVars
<1>12. CASE UNCHANGED vars
  BY <1>0, <1>1, <1>12 DEF vars
<1>13. CASE WaitTcpConnect \/ NoVisit
  BY <1>0, <1>1, <1>13 DEF WaitTcpConnect, NoVisit, listVars, Adding
<1> QED
  BY <1>2, <1>3, <1>4, <1>5, <1>6, <1>7, <1>8, <1>9, <1>10, <1>11, <1>12, <1>13
     DEF Next, ServerStep

\* Two registered clients never share an address or a socket.
THEOREM RecordsCorrect == Spec => []RecordsDistinct
<1>1. Init => RecordsInv
  BY DEF Init, new_list, RecordsInv, SocketsBound, RecordsDistinct, Registered
<1>2. Spec => []RecordsInv
  BY <1>1, TypeInvariant, ListInvariant, RecordsStep, PTL DEF Spec
<1> QED
  BY <1>2, PTL DEF RecordsInv

-----------------------------------------------------------------------------
(* ClientList implements ClientRegistry.                                   *)

\* What the fields say on the way to the end of a visit: a record being filled
\* has its camera once AddIndex ran, and at the switch of handle_buffer the
\* visitor has a record with the camera it named; cur is that record unless the
\* visitor has just joined.
Served ==
    /\ pc \in {"accept", "recv"} <=> req = NULL
    /\ pc \in {"set_ip", "set_fd", "socket"} => data[tmp].camera_index = req.index
    /\ pc = "switch" =>
         \E n \in allocated :
            /\ data[n].ip = req.ip
            /\ data[n].camera_index = req.index
            /\ cur # NULL => n = cur

\* The map of a set of records.
MapOf(R, d) ==
    [a \in {d[n].ip : n \in R} |-> d[CHOOSE n \in R : d[n].ip = a].camera_index]

\* With distinct addresses the map gives every record its camera, whatever
\* CHOOSE picks.
LEMMA MapValue ==
    ASSUME NEW R, NEW d, NEW n \in R,
           \A l, m \in R : l # m => d[l].ip # d[m].ip
    PROVE  MapOf(R, d)[d[n].ip] = d[n].camera_index
<1> DEFINE a == d[n].ip
<1>1. \E m \in R : d[m].ip = a
  OBVIOUS
<1>2. /\ (CHOOSE m \in R : d[m].ip = a) \in R
      /\ d[CHOOSE m \in R : d[m].ip = a].ip = a
  BY <1>1
<1>3. (CHOOSE m \in R : d[m].ip = a) = n
  BY <1>2
<1>4. a \in {d[m].ip : m \in R}
  OBVIOUS
<1> QED
  BY <1>3, <1>4 DEF MapOf

\* A function is the map if it has the addresses as domain and gives every
\* record its camera.
LEMMA MapIs ==
    ASSUME NEW R, NEW d, NEW f,
           \A l, m \in R : l # m => d[l].ip # d[m].ip,
           f = [a \in {d[n].ip : n \in R} |-> f[a]],
           \A n \in R : f[d[n].ip] = d[n].camera_index
    PROVE  MapOf(R, d) = f
<1>1. ASSUME NEW a \in {d[n].ip : n \in R} PROVE MapOf(R, d)[a] = f[a]
  <2>1. PICK n \in R : a = d[n].ip
    OBVIOUS
  <2> QED
    BY <2>1, MapValue
<1>2. MapOf(R, d) = [a \in {d[n].ip : n \in R} |-> MapOf(R, d)[a]]
  BY DEF MapOf
<1> QED
  BY <1>1, <1>2

\* Records that keep address and camera leave the map as it is.
LEMMA MapSame ==
    ASSUME NEW R, NEW d, NEW e,
           \A l, m \in R : l # m => d[l].ip # d[m].ip,
           \A n \in R : d[n].ip = e[n].ip /\ d[n].camera_index = e[n].camera_index
    PROVE  MapOf(R, e) = MapOf(R, d)
<1>1. \A l, m \in R : l # m => e[l].ip # e[m].ip
  OBVIOUS
<1>2. {d[n].ip : n \in R} = {e[n].ip : n \in R}
  OBVIOUS
<1>3. MapOf(R, d) = [a \in {e[n].ip : n \in R} |-> MapOf(R, d)[a]]
  BY <1>2 DEF MapOf
<1>4. \A n \in R : MapOf(R, d)[e[n].ip] = e[n].camera_index
  BY MapValue
<1> QED
  BY <1>1, <1>3, <1>4, MapIs

-----------------------------------------------------------------------------
(* What a visit has achieved so far.                                       *)

\* Storing a field of a record: what becomes of the cameras.
LEMMA CamerasApart ==
    ASSUME data \in [Node -> Record], NEW m, NEW x
    PROVE  \A n \in Node :
              /\ [data EXCEPT ![m].camera_index = x][n].camera_index
                   = IF n = m THEN x ELSE data[n].camera_index
              /\ [data EXCEPT ![m].fd = x][n].camera_index = data[n].camera_index
              /\ [data EXCEPT ![m].ip = x][n].camera_index = data[n].camera_index
<1>1. \A r \in Record :
         /\ [r EXCEPT !.camera_index = x].camera_index = x
         /\ [r EXCEPT !.fd = x].camera_index = r.camera_index
         /\ [r EXCEPT !.ip = x].camera_index = r.camera_index
  BY DEF Record
<1> QED
  BY <1>1

\* A server step that opens a socket succeeds or leaves the server in the loop.
LEMMA SocketOutcome ==
    ASSUME TypeInv, ListInv, NEW p \in Port, AddSocket(p)
    PROVE  /\ pc = "socket" /\ pc' \in {"socket", "switch"}
           /\ \A n \in Node : /\ data'[n].ip = data[n].ip
                              /\ data'[n].camera_index = data[n].camera_index
           /\ UNCHANGED <<allocated, cur, req, tmp>>
           /\ tmp \in allocated /\ tmp \in Node /\ cur = NULL
           /\ data[tmp].ip = req.ip
           /\ \A n \in allocated \ {tmp} : data[n].ip # req.ip
<1>1. /\ pc = "socket" /\ pc' \in {"socket", "switch"}
      /\ data' = [data EXCEPT ![tmp].fd = UdpCreateSocket(p).fd]
      /\ UNCHANGED <<allocated, cur, req, tmp>>
  BY DEF AddSocket, listVars
<1>2. \A n \in Node : /\ data'[n].ip = data[n].ip
                      /\ data'[n].camera_index = data[n].camera_index
  BY <1>1, FieldsApart, CamerasApart DEF TypeInv, TypeOK
<1> QED
  BY <1>1, <1>2 DEF ListInv, Found, SeekPast, Adding, TypeInv, TypeOK

\* Every step keeps Served.
LEMMA ServedStep == TypeInv /\ ListInv /\ Served /\ [Next]_vars => Served'
<1> SUFFICES ASSUME TypeInv, ListInv, Served, [Next]_vars PROVE Served'
  OBVIOUS
<1>0. /\ data \in [Node -> Record] /\ allocated \subseteq Node
      /\ pc \notin {"accept", "recv"} => req \in Visit
  BY DEF TypeInv, TypeOK, Handling
<1>1. ASSUME NEW v \in Visit, recv_buf(v) PROVE Served'
  BY <1>1, VisitAssumption DEF recv_buf, Served
<1>2. CASE SeekBegin
  BY <1>2 DEF SeekBegin, Served
<1>3. CASE SeekStep
  <2>1. pc = "match" /\ UNCHANGED <<data, req, allocated>> /\ cur # NULL
    BY <1>3 DEF SeekStep
  <2>2. cur \in allocated
    BY <2>1 DEF ListInv, SeekPast, ListWellFormed, Nodes
  <2>3. \/ pc' \in {"match", "instead"}
        \/ /\ pc' = "switch" /\ cur' = cur
           /\ data[cur].ip = req.ip /\ data[cur].camera_index = req.index
    BY <1>3 DEF SeekStep, client_info_match
  <2> QED
    BY <2>1, <2>2, <2>3 DEF Served
<1>4. CASE SeekFail
  BY <1>4 DEF SeekFail, Served
<1>5. CASE InsteadIndex
  <2>1. /\ pc = "instead" /\ pc' = "switch" /\ UNCHANGED <<allocated, cur, req>>
        /\ data' = [data EXCEPT ![cur].camera_index = req.index]
    BY <1>5 DEF InsteadIndex, listVars
  <2>2. cur \in allocated /\ data[cur].ip = req.ip
    BY <2>1 DEF ListInv, Found
  <2>3. data'[cur].ip = req.ip /\ data'[cur].camera_index = req.index
    BY <1>0, <2>1, <2>2, FieldsApart, CamerasApart
  <2> QED
    BY <2>1, <2>2, <2>3 DEF Served
<1>6. CASE AddAlloc
  BY <1>6 DEF AddAlloc, Served
<1>7. CASE AddIndex
  <2>1. /\ pc = "set_index" /\ pc' = "set_ip" /\ UNCHANGED <<req, tmp>>
        /\ data' = [data EXCEPT ![tmp].camera_index = req.index]
    BY <1>7 DEF AddIndex
  <2>2. tmp \in Node
    BY <1>0, <2>1 DEF ListInv, Found, Adding
  <2>3. data'[tmp].camera_index = req.index
    BY <1>0, <2>1, <2>2, CamerasApart
  <2> QED
    BY <2>1, <2>3 DEF Served
<1>8. CASE AddIp \/ AddFd
  <2>1. /\ pc \in {"set_ip", "set_fd"} /\ pc' \in {"set_fd", "socket"}
        /\ UNCHANGED <<req, tmp>>
    BY <1>8 DEF AddIp, AddFd
  <2>2. tmp \in Node
    BY <1>0, <2>1 DEF ListInv, Found, Adding
  <2>3. data'[tmp].camera_index = data[tmp].camera_index
    <3>1. CASE AddIp
      BY <1>0, <2>2, <3>1, CamerasApart DEF AddIp
    <3>2. CASE AddFd
      BY <1>0, <2>2, <3>2, CamerasApart DEF AddFd
    <3> QED
      BY <1>8, <3>1, <3>2
  <2> QED
    BY <2>1, <2>3 DEF Served
<1>9. ASSUME NEW p \in Port, AddSocket(p) PROVE Served'
  BY <1>9, SocketOutcome DEF Served
<1>10. CASE HandleType
  BY <1>10 DEF HandleType, Served
<1>11. ASSUME NEW c \in Camera, WalkBegin(c) \/ WalkStep(c) PROVE Served'
  <2>1. UNCHANGED <<pc, req, tmp, data, cur, allocated>>
    BY <1>11 DEF WalkBegin, WalkStep, WalkTest, WalkSend, WalkEnd, listVars, serverVars
  <2> QED
    BY <2>1 DEF Served
<1>12. CASE WaitTcpConnect \/ NoVisit
  BY <1>12 DEF WaitTcpConnect, NoVisit, Served
<1>13. CASE UNCHANGED vars
  BY <1>13 DEF vars, Served
<1> QED
  BY <1>1, <1>2, <1>3, <1>4, <1>5, <1>6, <1>7, <1>8, <1>9, <1>10, <1>11, <1>12, <1>13
     DEF Next, ServerStep

-----------------------------------------------------------------------------
(* Every step of the list is a step of the registry, or none.              *)

\* A step that keeps the records' addresses and cameras changes nothing in the
\* registry's map.
LEMMA MapKept ==
    ASSUME RecordsDistinct, Registered' = Registered,
           \A n \in Registered : /\ data'[n].ip = data[n].ip
                                 /\ data'[n].camera_index = data[n].camera_index
    PROVE  RegistryMap' = RegistryMap
<1>1. RegistryMap = MapOf(Registered, data) /\ RegistryMap' = MapOf(Registered, data')
  BY DEF RegistryMap, MapOf
<1>2. MapOf(Registered, data') = MapOf(Registered, data)
  BY MapSame DEF RecordsDistinct
<1> QED
  BY <1>1, <1>2

\* The end of the socket loop of add_client puts the visitor into the map.
LEMMA AddSocketJoins ==
    ASSUME TypeInv, ListInv, RecordsDistinct, RecordsDistinct', Served,
           NEW p \in Port, AddSocket(p), pc' = "switch"
    PROVE  Registry!Join
<1>1. /\ pc = "socket" /\ UNCHANGED <<allocated, cur, req, tmp>>
      /\ tmp \in allocated /\ tmp \in Node /\ cur = NULL
      /\ data[tmp].ip = req.ip
      /\ \A n \in allocated \ {tmp} : data[n].ip # req.ip
      /\ \A n \in Node : /\ data'[n].ip = data[n].ip
                         /\ data'[n].camera_index = data[n].camera_index
  BY SocketOutcome
<1>2. Registered = allocated \ {tmp} /\ Registered' = Registered \union {tmp}
  BY <1>1 DEF Registered, Filling
<1>3. Registered \subseteq Node
  BY <1>2 DEF TypeInv, TypeOK
<1>4. req # NULL /\ data[tmp].camera_index = req.index
  BY <1>1 DEF Served
<1> DEFINE M == RegistryMap
           D == DOMAIN RegistryMap
           f == [a \in D \union {req.ip} |-> IF a = req.ip THEN req.index ELSE M[a]]
           R == Registered \union {tmp}
<1>5. /\ M = MapOf(Registered, data) /\ RegistryMap' = MapOf(R, data')
      /\ D = {data[n].ip : n \in Registered}
  BY <1>2 DEF RegistryMap, MapOf
<1>6. req.ip \notin D
  BY <1>1, <1>2, <1>5
<1>7. {data'[n].ip : n \in R} = D \union {req.ip}
  <2>1. ASSUME NEW a \in {data'[n].ip : n \in R} PROVE a \in D \union {req.ip}
    BY <1>1, <1>3, <1>5, <2>1
  <2>2. ASSUME NEW a \in D \union {req.ip} PROVE a \in {data'[n].ip : n \in R}
    BY <1>1, <1>3, <1>5, <2>2
  <2> QED
    BY <2>1, <2>2
<1>8. ASSUME NEW n \in R PROVE f[data'[n].ip] = data'[n].camera_index
  <2>1. CASE n = tmp
    BY <1>1, <1>4, <2>1
  <2>2. CASE n \in Registered
    <3>1. M[data[n].ip] = data[n].camera_index
      BY <1>5, <2>2, MapValue DEF RecordsDistinct
    <3>2. data[n].ip \in D /\ data[n].ip # req.ip
      BY <1>5, <1>6, <2>2
    <3> QED
      BY <1>1, <1>3, <2>2, <3>1, <3>2
  <2> QED
    BY <2>1, <2>2
<1>9. \A l, m \in R : l # m => data'[l].ip # data'[m].ip
  BY <1>2 DEF RecordsDistinct
<1>10. f = [a \in {data'[n].ip : n \in R} |-> f[a]]
  BY <1>7
<1> HIDE DEF M, D, f, R
<1>11. MapOf(R, data') = f
  BY <1>8, <1>9, <1>10, MapIs
<1>12. Joined'
  BY <1>1 DEF Joined
<1> QED
  BY <1>1, <1>4, <1>5, <1>6, <1>11, <1>12 DEF Registry!Join, f, D, M

\* handle_buffer moves the visitor, and nobody else, to the camera it names.
LEMMA InsteadFollows ==
    ASSUME TypeInv, ListInv, RecordsDistinct, RecordsDistinct', Served, InsteadIndex
    PROVE  Registry!Follow
<1>1. /\ pc = "instead" /\ pc' = "switch" /\ UNCHANGED <<allocated, cur, req, tmp>>
      /\ data' = [data EXCEPT ![cur].camera_index = req.index]
  BY DEF InsteadIndex, listVars
<1>2. /\ cur # NULL /\ cur \in allocated /\ cur \in Node /\ data[cur].ip = req.ip
      /\ allocated \subseteq Node /\ data \in [Node -> Record]
  BY <1>1 DEF ListInv, Found, TypeInv, TypeOK
<1>3. Registered = allocated /\ Registered' = allocated
  BY <1>1 DEF Registered, Filling
<1>4. \A n \in Node :
         /\ data'[n].ip = data[n].ip
         /\ data'[n].camera_index = IF n = cur THEN req.index ELSE data[n].camera_index
  BY <1>1, <1>2, FieldsApart, CamerasApart
<1>5. req # NULL
  BY <1>1 DEF Served
<1> DEFINE M == RegistryMap
           D == DOMAIN RegistryMap
           f == [M EXCEPT ![req.ip] = req.index]
<1>6. /\ M = MapOf(allocated, data) /\ RegistryMap' = MapOf(allocated, data')
      /\ D = {data[n].ip : n \in allocated} /\ M = [a \in D |-> M[a]]
  BY <1>3 DEF RegistryMap, MapOf
<1>7. req.ip \in D
  BY <1>2, <1>6
<1>8. {data'[n].ip : n \in allocated} = D
  <2>1. ASSUME NEW a \in {data'[n].ip : n \in allocated} PROVE a \in D
    BY <1>2, <1>4, <1>6, <2>1
  <2>2. ASSUME NEW a \in D PROVE a \in {data'[n].ip : n \in allocated}
    BY <1>2, <1>4, <1>6, <2>2
  <2> QED
    BY <2>1, <2>2
<1>9. ASSUME NEW n \in allocated PROVE f[data'[n].ip] = data'[n].camera_index
  <2>1. M[data[n].ip] = data[n].camera_index /\ data[n].ip \in D
    BY <1>3, <1>6, MapValue DEF RecordsDistinct
  <2>2. CASE n = cur
    BY <1>2, <1>4, <1>6, <1>7, <2>2
  <2>3. CASE n # cur
    <3>1. data[n].ip # req.ip
      BY <1>2, <1>3, <2>3 DEF RecordsDistinct
    <3> QED
      BY <1>2, <1>4, <1>6, <2>1, <2>3, <3>1
  <2> QED
    BY <2>2, <2>3
<1>10. \A l, m \in allocated : l # m => data'[l].ip # data'[m].ip
  BY <1>3 DEF RecordsDistinct
<1>11. f = [a \in {data'[n].ip : n \in allocated} |-> f[a]]
  BY <1>6, <1>8
<1> HIDE DEF M, D, f
<1>12. MapOf(allocated, data') = f
  BY <1>9, <1>10, <1>11, MapIs
<1>13. Joined' = Joined
  BY <1>1, <1>2 DEF Joined
<1> QED
  BY <1>1, <1>5, <1>6, <1>7, <1>12, <1>13 DEF Registry!Follow, f, D, M

\* A visit ends with the visitor in the map at the camera it named; SHUTDOWN
\* takes it out, unless the visit put it in.
LEMMA HandleDeparts ==
    ASSUME TypeInv, ListInv, RecordsDistinct, RecordsDistinct', Served, HandleType
    PROVE  Registry!Depart
<1>1. pc = "switch" /\ pc' = "accept" /\ req' = NULL
  BY DEF HandleType
<1>2. PICK n \in allocated : /\ data[n].ip = req.ip
                             /\ data[n].camera_index = req.index
                             /\ cur # NULL => n = cur
  BY <1>1 DEF Served
<1>3. Registered = allocated /\ Registered' = allocated'
  BY <1>1 DEF Registered, Filling
<1>4. req # NULL /\ ~Joined' /\ (Joined <=> cur = NULL)
  BY <1>1 DEF Served, Joined
<1> DEFINE M == RegistryMap
           D == DOMAIN RegistryMap
<1>5. /\ M = MapOf(allocated, data) /\ RegistryMap' = MapOf(allocated', data')
      /\ D = {data[m].ip : m \in allocated}
  BY <1>3 DEF RegistryMap, MapOf
<1>6. \A m \in allocated : M[data[m].ip] = data[m].camera_index
  BY <1>3, <1>5, MapValue DEF RecordsDistinct
<1>7. req.ip \in D /\ M[req.ip] = req.index
  BY <1>2, <1>5, <1>6
<1>8. CASE req.type = "SHUTDOWN" /\ ~Joined
  <2>1. cur # NULL /\ n = cur
    BY <1>2, <1>4, <1>8
  <2>2. PICK k \in 1 .. Len(chain) : cur = chain[k]
    BY <1>2, <2>1 DEF ListInv, ListWellFormed, Nodes
  <2>3. allocated' = allocated \ {n} /\ data' = [data EXCEPT ![n] = ZeroRecord]
    BY <1>8, <2>1, <2>2, DeletionUnlinks DEF HandleType, TypeInv, ListInv
  <2> DEFINE R == allocated \ {n}
             f == [a \in D \ {req.ip} |-> M[a]]
  <2>4. \A m \in R : data'[m] = data[m] /\ data[m].ip # req.ip
    BY <1>2, <1>3, <2>3 DEF TypeInv, TypeOK, RecordsDistinct
  <2>5. {data'[m].ip : m \in R} = D \ {req.ip}
    <3>1. ASSUME NEW a \in {data'[m].ip : m \in R} PROVE a \in D \ {req.ip}
      BY <1>5, <2>4, <3>1
    <3>2. ASSUME NEW a \in D \ {req.ip} PROVE a \in {data'[m].ip : m \in R}
      BY <1>2, <1>5, <2>4, <3>2
    <3> QED
      BY <3>1, <3>2
  <2>6. ASSUME NEW m \in R PROVE f[data'[m].ip] = data'[m].camera_index
    BY <1>5, <1>6, <2>4
  <2>7. \A l, m \in R : l # m => data'[l].ip # data'[m].ip
    BY <1>3, <2>3 DEF RecordsDistinct
  <2>8. f = [a \in {data'[m].ip : m \in R} |-> f[a]]
    BY <2>5
  <2> HIDE DEF R, f, M, D
  <2>9. MapOf(R, data') = f
    BY <2>6, <2>7, <2>8, MapIs
  <2>10. RegistryMap' = [a \in DOMAIN RegistryMap \ {req.ip} |-> RegistryMap[a]]
    BY <1>5, <2>3, <2>9 DEF R, f, M, D
  <2> QED
    BY <1>1, <1>4, <1>7, <1>8, <2>10 DEF Registry!Depart, M, D
<1>9. CASE ~(req.type = "SHUTDOWN" /\ ~Joined)
  <2>1. UNCHANGED <<allocated, data>>
    BY <1>4, <1>9 DEF HandleType, list_node_del_cur, listVars
  <2>2. RegistryMap' = RegistryMap
    BY <1>3, <2>1 DEF RegistryMap
  <2> QED
    BY <1>1, <1>4, <1>7, <1>9, <2>2 DEF Registry!Depart, M, D
<1> QED
  BY <1>8, <1>9

\* A step of the list is the step of the registry it carries out, or leaves the
\* registry as it is.
LEMMA RegistryStep ==
    TypeInv /\ ListInv /\ RecordsDistinct /\ RecordsDistinct' /\ Served /\ [Next]_vars
        => [Registry!Next]_Registry!vars
<1> SUFFICES ASSUME TypeInv, ListInv, RecordsDistinct, RecordsDistinct', Served, [Next]_vars
             PROVE  Registry!Next \/ UNCHANGED <<RegistryMap, req, Joined>>
  BY DEF Registry!vars
<1>0. /\ pc \notin Adding => Registered = allocated
      /\ pc \in Adding => Registered = allocated \ {tmp}
      /\ pc' \notin Adding => Registered' = allocated'
      /\ pc' \in Adding => Registered' = allocated' \ {tmp'}
      /\ Registered \subseteq Node /\ data \in [Node -> Record]
  BY DEF Registered, Filling, Adding, TypeInv, TypeOK
<1>1. ASSUME NEW v \in Visit, recv_buf(v) PROVE Registry!Arrive
  <2>1. RegistryMap' = RegistryMap /\ Joined' = Joined /\ pc = "recv" /\ req' = v
    BY <1>0, <1>1, MapKept DEF recv_buf, listVars, Joined, Adding
  <2>2. req = NULL
    BY <2>1 DEF Served
  <2> QED
    BY <2>1, <2>2 DEF Registry!Arrive, Registry!Visit, Visit
<1>2. CASE SeekBegin \/ SeekStep \/ SeekFail
  <2>1. UNCHANGED <<allocated, data, req, tmp>> /\ pc \notin Adding /\ pc' \notin Adding
    BY <1>2 DEF SeekBegin, SeekStep, SeekFail, listVars, Adding
  <2>2. Joined' = Joined
    BY <1>2 DEF SeekBegin, SeekStep, SeekFail, listVars, Joined
  <2> QED
    BY <1>0, <2>1, <2>2, MapKept
<1>3. CASE InsteadIndex
  BY <1>3, InsteadFollows DEF Registry!Next
<1>4. CASE AddAlloc
  <2>1. PICK n \in Node : list_node_alloc_tail(n) /\ tmp' = n
    BY <1>4 DEF AddAlloc
  <2>2. /\ pc = "add" /\ pc' = "set_index" /\ req' = req
        /\ allocated' = allocated \union {n} /\ n \notin allocated
        /\ \A m \in allocated : data'[m] = data[m]
    BY <1>4, <2>1 DEF AddAlloc, list_node_alloc_tail, TypeInv, TypeOK
  <2>3. Registered' = Registered
    BY <1>0, <2>1, <2>2 DEF Adding
  <2>4. RegistryMap' = RegistryMap
    BY <1>0, <2>2, <2>3, MapKept DEF Adding
  <2> QED
    BY <2>2, <2>4 DEF Joined
<1>5. CASE AddIndex \/ AddIp \/ AddFd
  <2>1. /\ UNCHANGED <<allocated, req, tmp>> /\ pc \in Adding /\ pc' \in Adding
        /\ pc # "switch" /\ pc' # "switch"
    BY <1>5 DEF AddIndex, AddIp, AddFd, listVars, Adding
  <2>2. \A n \in Node \ {tmp} : data'[n] = data[n]
    <3>1. CASE AddIndex
      BY <1>0, <3>1 DEF AddIndex
    <3>2. CASE AddIp
      BY <1>0, <3>2 DEF AddIp
    <3>3. CASE AddFd
      BY <1>0, <3>3 DEF AddFd
    <3> QED
      BY <1>5, <3>1, <3>2, <3>3
  <2>3. RegistryMap' = RegistryMap
    BY <1>0, <2>1, <2>2, MapKept
  <2> QED
    BY <2>1, <2>3 DEF Joined
<1>6. ASSUME NEW p \in Port, AddSocket(p)
      PROVE  Registry!Next \/ UNCHANGED <<RegistryMap, req, Joined>>
  <2>1. CASE pc' = "switch"
    BY <1>6, <2>1, AddSocketJoins DEF Registry!Next
  <2>2. CASE pc' # "switch"
    <3>1. /\ pc = "socket" /\ pc' = "socket" /\ UNCHANGED <<allocated, req, tmp>>
          /\ \A n \in Node : /\ data'[n].ip = data[n].ip
                             /\ data'[n].camera_index = data[n].camera_index
      BY <1>6, <2>2, SocketOutcome
    <3>2. RegistryMap' = RegistryMap
      BY <1>0, <3>1, MapKept DEF Adding
    <3> QED
      BY <3>1, <3>2 DEF Joined
  <2> QED
    BY <2>1, <2>2
<1>7. CASE HandleType
  BY <1>7, HandleDeparts DEF Registry!Next
<1>8. ASSUME NEW c \in Camera, WalkBegin(c) \/ WalkStep(c)
      PROVE  UNCHANGED <<RegistryMap, req, Joined>>
  <2>1. UNCHANGED <<pc, req, tmp, data, cur, allocated>>
    BY <1>8 DEF WalkBegin, WalkStep, WalkTest, WalkSend, WalkEnd, listVars, serverVars
  <2> QED
    BY <1>0, <2>1, MapKept DEF Joined
<1>9. CASE UNCHANGED vars
  <2>1. UNCHANGED <<pc, req, tmp, data, cur, allocated>>
    BY <1>9 DEF vars
  <2> QED
    BY <1>0, <2>1, MapKept DEF Joined
<1>10. CASE WaitTcpConnect \/ NoVisit
  <2>1. /\ UNCHANGED <<req, tmp, data, allocated>>
        /\ pc \notin Adding \union {"switch"} /\ pc' \notin Adding \union {"switch"}
    BY <1>10 DEF WaitTcpConnect, NoVisit, listVars, Adding
  <2> QED
    BY <1>0, <2>1, MapKept DEF Joined
<1> QED
  BY <1>1, <1>2, <1>3, <1>4, <1>5, <1>6, <1>7, <1>8, <1>9, <1>10
     DEF Next, ServerStep, Registry!Next

\* The linked list, its lock and the field-by-field stores of handle_buffer and
\* add_client implement the map of ClientRegistry: no interleaving of the server
\* with the stream threads shows a client anything but its own visits.
THEOREM ListImplementsRegistry == Spec => RegistrySpec
<1>1. Init => Registry!Init
  <2> SUFFICES ASSUME Init PROVE Registry!Init
    OBVIOUS
  <2>1. Registered = {} /\ req = NULL /\ ~Joined
    BY DEF Init, new_list, Registered, Joined
  <2>2. RegistryMap = [a \in {} |-> NULL]
    BY <2>1 DEF RegistryMap
  <2> QED
    BY <2>1, <2>2 DEF Registry!Init
<1>2. Init => Served
  BY DEF Init, Served
<1>3. Spec => []Served
  BY <1>2, TypeInvariant, ListInvariant, ServedStep, PTL DEF Spec
<1> QED
  BY <1>1, <1>3, TypeInvariant, ListInvariant, RecordsCorrect, RegistryStep, PTL
     DEF Spec, RegistrySpec, Registry!Spec
=============================================================================
