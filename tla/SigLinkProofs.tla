--------------------------- MODULE SigLinkProofs ---------------------------
(***************************************************************************)
(* Safety of SigLink for any set of sockets and addresses and any number   *)
(* of address changes and restarts.                                        *)
(***************************************************************************)
EXTENDS SigLink, FiniteSetTheorems, TLAPS

\* Only the service thread stores a socket in sig_fd, and only at the start of
\* an attempt.  While it reports, sig_fd is the socket of the first report or
\* the client thread has cleared it.
OneSocketPerAttempt ==
    /\ thread \in {"event3", "status", "connected"} => reported["event2"] \in Socket
    /\ thread \in {"status", "connected"} => reported["event3"] = reported["event2"]
    /\ thread = "connected" => reported["status"] = reported["event2"]
    /\ thread \in {"event3", "status"} => sig_fd \in {reported["event2"], -1}

-----------------------------------------------------------------------------
\* Closing sig_fd keeps the type of the sockets.
LEMMA CloseType == ASSUME TypeOK, Close PROVE link' \in [Socket -> Link]
<1>1. Unlinked("free") \in Link
  BY DEF Unlinked, Link
<1> QED
  BY <1>1 DEF TypeOK, Close

\* A restart leads to a well-typed state.
LEMMA RestartType ==
    ASSUME TypeOK, Restarted
    PROVE  /\ sig_state' \in {"SIG_PRE_CONNECT", "SIG_CONNECTED", "SIG_NULL"}
           /\ sig_fd' \in Socket \union {-1}
           /\ sig_ip' \in Ip /\ sig_port' \in Port /\ signal' \in Address
           /\ thread' \in ThreadPc /\ client' \in ClientPc
           /\ link' \in [Socket -> Link]
           /\ up' \subseteq Machines
           /\ reported' \in [Report -> Socket \union {-1}]
<1>1. Unlinked("free") \in Link
  BY DEF Unlinked, Link
<1> QED
  BY <1>1 DEF TypeOK, Restarted, Start, Address, ThreadPc, ClientPc

\* Every reachable state of the link is well typed.
THEOREM TypeCorrect == Spec => []TypeOK
<1>0. Unlinked("free") \in Link /\ Unlinked("open") \in Link
  BY DEF Unlinked, Link
<1>1. Init => TypeOK
  BY <1>0, ConstantAssumption DEF Init, Start, TypeOK, Address, ThreadPc, ClientPc
<1>2. TypeOK /\ [Next]_vars => TypeOK'
  <2> SUFFICES ASSUME TypeOK, [Next]_vars PROVE TypeOK'
    OBVIOUS
  <2> USE ConstantAssumption DEF TypeOK, ThreadPc, ClientPc
  <2>1. CASE ThreadStep
    <3> USE DEF addrVars, outsideVars
    <3>1. CASE ThreadWakes
      BY <3>1 DEF ThreadWakes
    <3>2. CASE CreateTcpClientSock
      BY <1>0, <3>2 DEF CreateTcpClientSock
    <3>3. CASE ThreadTestsFd \/ connect_sig
      BY <3>3 DEF ThreadTestsFd, connect_sig
    <3>4. CASE ConnectTcpClient
      <4>1. [state |-> "linked", peer |-> [ip |-> sig_ip, port |-> sig_port]] \in Link
        BY DEF Link, Address
      <4> QED
        BY <3>4, <4>1 DEF ConnectTcpClient, Connects
    <3>5. ASSUME NEW r \in Report, ReportSent(r) PROVE TypeOK'
      BY <3>5 DEF ReportSent, CanSend, After, Report
    <3>6. ASSUME NEW r \in Report, ReportFails(r) PROVE TypeOK'
      BY <3>6 DEF ReportFails
    <3>7. CASE ThreadCloses
      BY <3>7, CloseType DEF ThreadCloses
    <3>8. CASE ThreadClears \/ ThreadConnected
      BY <3>8 DEF ThreadClears, ThreadConnected, ClearFd
    <3> QED
      BY <2>1, <3>1, <3>2, <3>3, <3>4, <3>5, <3>6, <3>7, <3>8 DEF ThreadStep
  <2>2. ASSUME NEW a \in Address, SetCamParam(a) PROVE TypeOK'
    BY <2>2 DEF SetCamParam
  <2>3. CASE reboot_cmd
    BY <2>3 DEF reboot_cmd, addrVars
  <2>4. CASE ClientStep
    <3> USE DEF addrVars, outsideVars
    <3>1. CASE ResetNull \/ ResetClears \/ ResetPre
      BY <3>1 DEF ResetNull, ResetClears, ResetPre, ClearFd
    <3>2. CASE ResetIp \/ ResetPort
      BY <3>2 DEF ResetIp, ResetPort, Address
    <3>3. CASE ResetCloses
      BY <3>3, CloseType DEF ResetCloses
    <3>4. CASE RebootReports \/ RebootClears
      BY <3>4 DEF RebootReports, RebootClears, AfterReboot, ClearFd
    <3>5. CASE RebootCloses
      BY <3>5, CloseType DEF RebootCloses
    <3>6. CASE Reboot
      BY <3>6, RestartType DEF Reboot
    <3> QED
      BY <2>4, <3>1, <3>2, <3>3, <3>4, <3>5, <3>6 DEF ClientStep
  <2>5. CASE Crash
    BY <2>5, RestartType DEF Crash
  <2>6. ASSUME NEW a \in Machines, MachineComes(a) PROVE TypeOK'
    BY <2>6 DEF MachineComes, addrVars
  <2>7. ASSUME NEW a \in Machines, MachineGoes(a) PROVE TypeOK'
    <3>1. [state |-> "broken", peer |-> a] \in Link
      BY DEF Link, Machines
    <3>2. link' \in [Socket -> Link]
      BY <2>7, <3>1 DEF MachineGoes
    <3> QED
      BY <2>7, <3>2 DEF MachineGoes, addrVars
  <2>8. CASE UNCHANGED vars
    BY <2>8 DEF vars
  <2> QED
    BY <2>1, <2>2, <2>3, <2>4, <2>5, <2>6, <2>7, <2>8 DEF Next
<1> QED
  BY <1>1, <1>2, PTL DEF Spec

-----------------------------------------------------------------------------
\* A step of either thread keeps the reports of an attempt on one socket.
LEMMA AttemptStep ==
    TypeOK /\ OneSocketPerAttempt /\ [Next]_vars => OneSocketPerAttempt'
<1> SUFFICES ASSUME TypeOK, OneSocketPerAttempt, [Next]_vars PROVE OneSocketPerAttempt'
  OBVIOUS
<1> USE ConstantAssumption DEF OneSocketPerAttempt
<1>1. CASE ThreadStep
  <2>1. CASE ThreadWakes \/ CreateTcpClientSock \/ ThreadTestsFd \/ connect_sig
             \/ ConnectTcpClient \/ ThreadCloses \/ ThreadClears \/ ThreadConnected
    BY <2>1 DEF ThreadWakes, CreateTcpClientSock, ThreadTestsFd, connect_sig,
                ConnectTcpClient, ThreadCloses, ThreadClears, ThreadConnected
  <2>2. ASSUME NEW r \in Report, ReportSent(r) PROVE OneSocketPerAttempt'
    <3>1. sig_fd \in Socket /\ sig_fd # -1 /\ sig_fd' = sig_fd
      BY <2>2 DEF ReportSent, CanSend
    <3>2. CASE r = "event2"
      <4>1. thread' = "event3" /\ reported'["event2"] = sig_fd
        BY <2>2, <3>2 DEF ReportSent, After, TypeOK, Report
      <4> QED
        BY <3>1, <4>1
    <3>3. CASE r = "event3"
      <4>1. /\ thread = "event3" /\ thread' = "status" /\ reported'["event3"] = sig_fd
            /\ reported'["event2"] = reported["event2"]
        BY <2>2, <3>3 DEF ReportSent, After, TypeOK, Report
      <4> QED
        BY <3>1, <4>1
    <3>4. CASE r = "status"
      <4>1. /\ thread = "status" /\ thread' = "connected" /\ reported'["status"] = sig_fd
            /\ reported'["event2"] = reported["event2"]
            /\ reported'["event3"] = reported["event3"]
        BY <2>2, <3>4 DEF ReportSent, After, TypeOK, Report
      <4> QED
        BY <3>1, <4>1
    <3> QED
      BY <3>2, <3>3, <3>4 DEF Report
  <2>3. ASSUME NEW r \in Report, ReportFails(r) PROVE OneSocketPerAttempt'
    BY <2>3 DEF ReportFails
  <2> QED
    BY <1>1, <2>1, <2>2, <2>3 DEF ThreadStep
<1>2. ASSUME NEW a \in Address, SetCamParam(a) PROVE OneSocketPerAttempt'
  BY <1>2 DEF SetCamParam
<1>3. CASE reboot_cmd
  BY <1>3 DEF reboot_cmd
<1>4. CASE ClientStep
  BY <1>4 DEF ClientStep, ResetNull, ResetCloses, ResetClears, ResetIp, ResetPort, ResetPre,
              RebootReports, RebootCloses, RebootClears, Reboot, Restarted, ClearFd
<1>5. CASE Crash
  BY <1>5 DEF Crash, Restarted
<1>6. ASSUME NEW a \in Machines, MachineComes(a) \/ MachineGoes(a)
      PROVE  OneSocketPerAttempt'
  BY <1>6 DEF MachineComes, MachineGoes
<1>7. CASE UNCHANGED vars
  BY <1>7 DEF vars
<1> QED
  BY <1>1, <1>2, <1>3, <1>4, <1>5, <1>6, <1>7 DEF Next

\* SIG_CONNECTED is declared only after the three reports of an attempt went out
\* over one socket, whatever reset_sig_machine and reboot_cmd do meanwhile.
THEOREM Handshake == Spec => []HandshakeComplete
<1>1. Init => OneSocketPerAttempt
  BY DEF Init, OneSocketPerAttempt
<1>2. OneSocketPerAttempt => HandshakeComplete
  BY DEF OneSocketPerAttempt, HandshakeComplete, Report
<1> QED
  BY <1>1, <1>2, TypeCorrect, AttemptStep, PTL DEF Spec

-----------------------------------------------------------------------------
\* The sockets that are open and that sig_fd does not name: nobody will close them.
Lost == {s \in Socket : link[s].state # "free" /\ s # sig_fd}

\* How often the client thread still stores -1 in the call it is in.
ClearsAhead ==
    IF client \in {"reboot1", "reboot1_close", "reboot1_clear"} THEN 2
    ELSE IF client \in {"reset_null", "reset_close", "reset_clear",
                        "reboot4", "reboot4_close", "reboot4_clear"} THEN 1 ELSE 0

\* The service thread makes a socket only while sig_fd names none, and clears sig_fd
\* only when it names none or one that is closed.  So only the client thread loses
\* sockets, one with each of its stores.
SocketsAccounted ==
    /\ thread = "create" => sig_fd = -1
    /\ thread = "clear" /\ sig_fd \in Socket => link[sig_fd].state = "free"
    /\ IsFiniteSet(Lost)
    /\ Cardinality(Lost) + ClearsAhead <= 2 * changes

\* The arithmetic of the account below.
LEMMA Budget ==
    /\ \A m, n, c, d, e, f \in Nat :
           n <= m /\ m + c <= 2 * e /\ d + 2 * e <= c + 2 * f => n + d <= 2 * f
    /\ \A c, d, e \in Nat : d <= c => d + 2 * e <= c + 2 * e
    /\ \A d, e \in Nat : d <= 2 => d + 2 * e <= 0 + 2 * (e + 1)
  OBVIOUS

\* A step that loses no socket, and after which no more stores are due, keeps the account.
LEMMA NothingLost ==
    ASSUME TypeOK, SocketsAccounted, Lost' \subseteq Lost,
           changes' \in Nat,
           ClearsAhead' + 2 * changes <= ClearsAhead + 2 * changes'
    PROVE  IsFiniteSet(Lost') /\ Cardinality(Lost') + ClearsAhead' <= 2 * changes'
<1>1. /\ IsFiniteSet(Lost') /\ Cardinality(Lost') <= Cardinality(Lost)
      /\ Cardinality(Lost) \in Nat /\ Cardinality(Lost') \in Nat
  BY FS_Subset, FS_CardinalityType DEF SocketsAccounted
<1>2. ClearsAhead \in Nat /\ ClearsAhead' \in Nat /\ changes \in Nat
  BY DEF ClearsAhead, TypeOK
<1>3. Cardinality(Lost) + ClearsAhead <= 2 * changes
  BY DEF SocketsAccounted
<1>4. Cardinality(Lost') + ClearsAhead' <= 2 * changes'
  BY <1>1, <1>2, <1>3, Budget
<1> QED
  BY <1>1, <1>4

\* A store of -1 by the client thread loses the socket in sig_fd at most.
LEMMA OneLost ==
    ASSUME TypeOK, SocketsAccounted, Lost' \subseteq Lost \union {sig_fd},
           changes' = changes, ClearsAhead' = ClearsAhead - 1
    PROVE  IsFiniteSet(Lost') /\ Cardinality(Lost') + ClearsAhead' <= 2 * changes'
<1>1. /\ IsFiniteSet(Lost \union {sig_fd})
      /\ Cardinality(Lost \union {sig_fd}) \in {Cardinality(Lost), Cardinality(Lost) + 1}
  BY FS_AddElement DEF SocketsAccounted
<1>2. /\ IsFiniteSet(Lost') /\ Cardinality(Lost') <= Cardinality(Lost \union {sig_fd})
      /\ Cardinality(Lost) \in Nat /\ Cardinality(Lost') \in Nat
  BY <1>1, FS_Subset, FS_CardinalityType DEF SocketsAccounted
<1>3. ClearsAhead \in Nat /\ changes \in Nat
  BY DEF ClearsAhead, TypeOK
<1> QED
  BY <1>1, <1>2, <1>3 DEF SocketsAccounted

\* Every step keeps the account of the sockets.
LEMMA SocketStep == TypeOK /\ SocketsAccounted /\ [Next]_vars => SocketsAccounted'
<1> SUFFICES ASSUME TypeOK, SocketsAccounted, [Next]_vars PROVE SocketsAccounted'
  OBVIOUS
<1> USE ConstantAssumption
<1>0. changes \in Nat /\ ClearsAhead \in Nat
  BY DEF TypeOK, ClearsAhead
<1>1. ASSUME ThreadWakes \/ ThreadTestsFd \/ connect_sig \/ ThreadConnected
      PROVE  SocketsAccounted'
  <2>1. Lost' = Lost /\ changes' = changes /\ ClearsAhead' = ClearsAhead
    BY <1>1 DEF ThreadWakes, ThreadTestsFd, connect_sig, ThreadConnected, Lost, ClearsAhead,
                outsideVars
  <2>2. (thread' = "create" => sig_fd' = -1) /\ thread' # "clear"
    BY <1>1 DEF ThreadWakes, ThreadTestsFd, connect_sig, ThreadConnected, TypeOK
  <2> QED
    BY <1>0, <2>1, <2>2, NothingLost DEF SocketsAccounted
<1>2. CASE CreateTcpClientSock
  <2>1. changes' = changes /\ ClearsAhead' = ClearsAhead /\ thread' = "created"
    BY <1>2 DEF CreateTcpClientSock, ClearsAhead, outsideVars
  <2>2. Lost' \subseteq Lost
    BY <1>2 DEF CreateTcpClientSock, Lost, SocketsAccounted, TypeOK
  <2> QED
    BY <1>0, <2>1, <2>2, NothingLost DEF SocketsAccounted
<1>3. CASE ConnectTcpClient
  <2>1. changes' = changes /\ ClearsAhead' = ClearsAhead /\ thread' \in {"event2", "close"}
    BY <1>3 DEF ConnectTcpClient, ClearsAhead, outsideVars
  <2>2. Lost' \subseteq Lost
    BY <1>3 DEF ConnectTcpClient, Connects, Lost, TypeOK
  <2> QED
    BY <1>0, <2>1, <2>2, NothingLost DEF SocketsAccounted
<1>4. ASSUME NEW r \in Report, ReportSent(r) \/ ReportFails(r) PROVE SocketsAccounted'
  <2>1. Lost' = Lost /\ changes' = changes /\ ClearsAhead' = ClearsAhead
    BY <1>4 DEF ReportSent, ReportFails, Lost, ClearsAhead, outsideVars
  <2>2. thread' \notin {"create", "clear"}
    BY <1>4 DEF ReportSent, ReportFails, After, Report
  <2> QED
    BY <1>0, <2>1, <2>2, NothingLost DEF SocketsAccounted
<1>5. CASE ThreadCloses
  <2>1. /\ Lost' \subseteq Lost /\ changes' = changes /\ ClearsAhead' = ClearsAhead
        /\ thread' = "clear" /\ sig_fd' = sig_fd
    BY <1>5 DEF ThreadCloses, Close, Unlinked, Lost, ClearsAhead, outsideVars
  <2>2. sig_fd \in Socket => link'[sig_fd].state = "free"
    BY <1>5 DEF ThreadCloses, Close, Unlinked
  <2> QED
    BY <1>0, <2>1, <2>2, NothingLost DEF SocketsAccounted
<1>6. CASE ThreadClears
  <2>1. changes' = changes /\ ClearsAhead' = ClearsAhead /\ thread' = "sleep"
    BY <1>6 DEF ThreadClears, ClearsAhead, outsideVars
  <2>2. Lost' \subseteq Lost
    BY <1>6 DEF ThreadClears, Lost, SocketsAccounted
  <2> QED
    BY <1>0, <2>1, <2>2, NothingLost DEF SocketsAccounted
<1>7. ASSUME reboot_cmd \/ (\E a \in Address : SetCamParam(a)) PROVE SocketsAccounted'
  <2>1. /\ Lost' = Lost /\ changes' = changes + 1 /\ UNCHANGED <<thread, sig_fd, link>>
        /\ ClearsAhead' <= 2 /\ ClearsAhead = 0
    BY <1>7 DEF SetCamParam, reboot_cmd, Lost, ClearsAhead
  <2>2. ClearsAhead' + 2 * changes <= ClearsAhead + 2 * changes' /\ changes' \in Nat
    <3>1. ClearsAhead' \in Nat
      BY DEF ClearsAhead
    <3>2. ClearsAhead' + 2 * changes <= 0 + 2 * (changes + 1)
      BY <1>0, <2>1, <3>1, Budget
    <3>3. changes + 1 \in Nat
      BY <1>0
    <3> QED
      BY <2>1, <3>2, <3>3
  <2>3. IsFiniteSet(Lost') /\ Cardinality(Lost') + ClearsAhead' <= 2 * changes'
    BY <2>1, <2>2, NothingLost
  <2> QED
    BY <2>1, <2>3 DEF SocketsAccounted
<1>8. CASE ResetNull \/ ResetIp \/ ResetPort \/ ResetPre \/ RebootReports
  <2>1. Lost' = Lost /\ changes' = changes /\ UNCHANGED <<thread, sig_fd, link>>
    BY <1>8 DEF ResetNull, ResetIp, ResetPort, ResetPre, RebootReports, Lost, outsideVars
  <2>2. ClearsAhead' <= ClearsAhead /\ ClearsAhead' \in Nat
    BY <1>8 DEF ResetNull, ResetIp, ResetPort, ResetPre, RebootReports, ClearsAhead,
                AfterReboot
  <2>3. ClearsAhead' + 2 * changes <= ClearsAhead + 2 * changes'
    BY <1>0, <2>1, <2>2, Budget
  <2>4. IsFiniteSet(Lost') /\ Cardinality(Lost') + ClearsAhead' <= 2 * changes'
    BY <1>0, <2>1, <2>3, NothingLost
  <2> QED
    BY <2>1, <2>4 DEF SocketsAccounted
<1>9. CASE ResetCloses \/ RebootCloses
  <2>1. /\ Lost' \subseteq Lost /\ changes' = changes /\ ClearsAhead' = ClearsAhead
        /\ UNCHANGED <<thread, sig_fd>>
    BY <1>9 DEF ResetCloses, RebootCloses, Close, Unlinked, Lost, ClearsAhead, outsideVars
  <2>2. thread = "clear" /\ sig_fd \in Socket => link'[sig_fd].state = "free"
    BY <1>9 DEF ResetCloses, RebootCloses, Close, Unlinked
  <2> QED
    BY <1>0, <2>1, <2>2, NothingLost DEF SocketsAccounted
<1>10. CASE ResetClears \/ RebootClears
  <2>1. /\ Lost' \subseteq Lost \union {sig_fd} /\ changes' = changes
        /\ sig_fd' = -1 /\ thread' = thread
    BY <1>10 DEF ResetClears, RebootClears, ClearFd, Lost, outsideVars
  <2>2. ClearsAhead' = ClearsAhead - 1
    BY <1>10 DEF ResetClears, RebootClears, ClearsAhead
  <2> QED
    BY <2>1, <2>2, OneLost DEF SocketsAccounted
<1>11. CASE Reboot \/ Crash
  <2>1. Lost' = {} /\ thread' = "sleep" /\ ClearsAhead' = 0 /\ changes' \in Nat
    BY <1>0, <1>11 DEF Reboot, Crash, Restarted, Start, Unlinked, Lost, ClearsAhead
  <2>2. IsFiniteSet(Lost') /\ Cardinality(Lost') = 0
    BY <2>1, FS_EmptySet
  <2> QED
    BY <2>1, <2>2 DEF SocketsAccounted
<1>12. ASSUME NEW a \in Machines, MachineComes(a) \/ MachineGoes(a)
       PROVE  SocketsAccounted'
  <2>1. changes' = changes /\ ClearsAhead' = ClearsAhead /\ UNCHANGED <<thread, sig_fd>>
    BY <1>12 DEF MachineComes, MachineGoes, ClearsAhead
  <2>2. \A s \in Socket : link[s].state = "free" <=> link'[s].state = "free"
    BY <1>12 DEF MachineComes, MachineGoes
  <2>3. Lost' \subseteq Lost
    BY <2>1, <2>2 DEF Lost
  <2> QED
    BY <1>0, <2>1, <2>2, <2>3, NothingLost DEF SocketsAccounted
<1>13. CASE UNCHANGED vars
  <2>1. Lost' = Lost /\ changes' = changes /\ ClearsAhead' = ClearsAhead
        /\ UNCHANGED <<thread, sig_fd, link>>
    BY <1>13 DEF vars, Lost, ClearsAhead
  <2> QED
    BY <1>0, <2>1, NothingLost DEF SocketsAccounted
<1> QED
  BY <1>1, <1>2, <1>3, <1>4, <1>5, <1>6, <1>7, <1>8, <1>9, <1>10, <1>11, <1>12, <1>13
  DEF Next, ThreadStep, ClientStep

\* What the service holds beside the socket in sig_fd was lost to the client thread.
LEMMA OpenBound == ASSUME TypeOK, SocketsAccounted PROVE RetryKeepsOneSocket
<1>1. Open \subseteq Lost \union {sig_fd}
  BY DEF Open, Lost
<1>2. /\ IsFiniteSet(Lost \union {sig_fd})
      /\ Cardinality(Lost \union {sig_fd}) \in {Cardinality(Lost), Cardinality(Lost) + 1}
      /\ Cardinality(Lost) \in Nat
  BY FS_AddElement, FS_CardinalityType DEF SocketsAccounted
<1>3. Cardinality(Open) \in Nat /\ Cardinality(Open) <= Cardinality(Lost \union {sig_fd})
  BY <1>1, <1>2, FS_Subset, FS_CardinalityType
<1>4. ClearsAhead \in Nat /\ changes \in Nat
  BY DEF ClearsAhead, TypeOK
<1> QED
  BY <1>2, <1>3, <1>4 DEF SocketsAccounted, RetryKeepsOneSocket

\* However often connecting and reporting fail, the service holds one socket and at
\* most two for each change of the address, reboot command or restart.
THEOREM SocketsBounded == Spec => []RetryKeepsOneSocket
<1>1. Init => SocketsAccounted
  <2> SUFFICES ASSUME Init PROVE SocketsAccounted
    OBVIOUS
  <2>1. Lost = {} /\ thread = "sleep" /\ ClearsAhead = 0 /\ changes = 0
    BY DEF Init, Start, Unlinked, Lost, ClearsAhead
  <2> QED
    BY <2>1, FS_EmptySet DEF SocketsAccounted
<1> QED
  BY <1>1, TypeCorrect, SocketStep, OpenBound, PTL DEF Spec
=============================================================================
