------------------------------ MODULE SigLink ------------------------------
(***************************************************************************)
(* The TCP link to the traffic signal machine: fvd-new/sig_service.c as    *)
(* init_sig_service1 starts it.                                            *)
(*                                                                         *)
(* sig_service_thread connects and reports; the client thread, in          *)
(* handle_buffer, calls reset_sig_machine when a client changes the        *)
(* address of the machine, and reboot_cmd.  Both use sig_state, sig_fd,    *)
(* sig_ip and sig_port without a lock.  The timed callbacks change none of *)
(* them: send_queue_info and send_outcar_info always return 1.  What the   *)
(* reports say, and descriptors of other parts of the program, are left    *)
(* out.                                                                    *)
(***************************************************************************)
EXTENDS Integers, FiniteSets

CONSTANTS
    Socket,    (* positive descriptors socket() can return                 *)
    Ip, Port,  (* addresses and ports of signal machines                   *)
    NoIp,      (* an address that begins with '0': no machine configured   *)
    MaxChange, (* bound on address changes and restarts                    *)
    NULL       (* the peer of a socket that has none                       *)

ASSUME ConstantAssumption ==
    /\ Socket \intersect {0, -1} = {}
    /\ NoIp \in Ip
    /\ MaxChange \in Nat

Address == [ip : Ip, port : Port]
Report == {"event2", "event3", "status"}

VARIABLES
    sig_state,         \* "SIG_PRE_CONNECT", "SIG_CONNECTED" or "SIG_NULL"
    sig_fd,            \* a socket or -1
    sig_ip, sig_port,  \* where sig_service_thread connects to
    signal,            \* g_cam_cfg[0]: signalIp and signalport
    thread, client,    \* sig_service_thread and the client thread
    link,              \* external: each socket's state
    up,                \* external: the addresses where a machine answers
    reported,          \* history: the socket of each report of this attempt
    changes            \* history: address changes and restarts, bounded

addrVars == <<sig_ip, sig_port, signal>>
outsideVars == <<up, changes>>
vars == <<sig_state, sig_fd, sig_ip, sig_port, signal, thread, client, link, up,
          reported, changes>>

\* A socket is free, open (not connected), linked to a machine, or broken:
\* linked to a machine that is gone.
Link == [state : {"free", "open", "linked", "broken"}, peer : Address \union {NULL}]
Unlinked(state) == [state |-> state, peer |-> NULL]

-----------------------------------------------------------------------------
(* csocket.c.                                                              *)

\* close_socket(&sig_fd), first half: shutdown and close.  Closing -1 or a
\* descriptor that is closed already does nothing.
Close == link' = [s \in Socket |-> IF s = sig_fd THEN Unlinked("free") ELSE link[s]]

\* Mutant: close_socket stores 0.
ClearFd_Zero == sig_fd' = 0

\* close_socket(&sig_fd), second half.
ClearFd == sig_fd' = -1

\* SendDataByTcp on sig_fd fails unless the socket is linked; on a broken
\* connection the kernel may or may not know yet.
CanSend == sig_fd \in Socket /\ link[sig_fd].state \in {"linked", "broken"}
CanFail == sig_fd \in Socket => link[sig_fd].state # "linked"

-----------------------------------------------------------------------------
(* sig_service_thread.                                                     *)

\* A turn of the loop finds SIG_PRE_CONNECT; turns that find another state
\* change nothing.
ThreadWakes ==
    /\ thread = "sleep"
    /\ sig_state = "SIG_PRE_CONNECT"
    /\ thread' = IF sig_fd \in Socket THEN "event2" ELSE "create"
    /\ reported' = [r \in Report |-> -1]
    /\ UNCHANGED <<sig_state, sig_fd, addrVars, client, link, outsideVars>>

\* sig_fd=CreateTcpClientSock(0,0).
CreateTcpClientSock ==
    /\ thread = "create"
    /\ \/ \E s \in Socket :
            /\ link[s].state = "free"
            /\ sig_fd' = s
            /\ link' = [link EXCEPT ![s] = Unlinked("open")]
       \/ sig_fd' = -1 /\ UNCHANGED link
    /\ thread' = "created"
    /\ UNCHANGED <<sig_state, addrVars, client, reported, outsideVars>>

\* if(sig_fd<0) continue;
ThreadTestsFd ==
    /\ thread = "created"
    /\ thread' = IF sig_fd \in Socket THEN "connect_sig" ELSE "sleep"
    /\ UNCHANGED <<sig_state, sig_fd, addrVars, client, link, reported, outsideVars>>

\* connect_sig tests sig_fd again.  If it is not positive any more, the result
\* is an uninitialised variable.
connect_sig ==
    /\ thread = "connect_sig"
    /\ thread' \in IF sig_fd \in Socket THEN {"connect"} ELSE {"sleep", "event2"}
    /\ UNCHANGED <<sig_state, sig_fd, addrVars, client, link, reported, outsideVars>>

\* connect() to the machine at the address as it is now.
Connects ==
    LET a == [ip |-> sig_ip, port |-> sig_port]
    IN  /\ sig_fd \in Socket
        /\ link[sig_fd].state = "open"
        /\ a \in up
        /\ link' = [link EXCEPT ![sig_fd] = [state |-> "linked", peer |-> a]]

\* Mutant: connect_sig does not close the socket it could not connect.
ConnectTcpClient_KeepOpen ==
    /\ thread = "connect"
    /\ \/ Connects /\ thread' = "event2"
       \/ thread' = "clear" /\ UNCHANGED link
    /\ UNCHANGED <<sig_state, sig_fd, addrVars, client, reported, outsideVars>>

\* A second later ConnectTcpClient succeeds, or fails even if the machine answers.
ConnectTcpClient ==
    /\ thread = "connect"
    /\ \/ Connects /\ thread' = "event2"
       \/ thread' = "close" /\ UNCHANGED link
    /\ UNCHANGED <<sig_state, sig_fd, addrVars, client, reported, outsideVars>>

\* What follows a report that was sent.
After(r) == CASE r = "event2" -> "event3"
              [] r = "event3" -> "status"
              [] r = "status" -> "connected"

\* Mutant: only a result of 0 counts as failure; SendDataByTcp returns -1.
ReportFails_ZeroOnly(r) ==
    /\ thread = r
    /\ CanFail
    /\ thread' = After(r)
    /\ UNCHANGED <<sig_state, sig_fd, addrVars, client, link, reported, outsideVars>>

\* ReportedEvent(sig_fd,2), ReportedEvent(sig_fd,3), ReportedCammerStatus.
ReportSent(r) ==
    /\ thread = r
    /\ CanSend
    /\ reported' = [reported EXCEPT ![r] = sig_fd]
    /\ thread' = After(r)
    /\ UNCHANGED <<sig_state, sig_fd, addrVars, client, link, outsideVars>>

ReportFails(r) ==
    /\ thread = r
    /\ CanFail
    /\ thread' = "close"
    /\ UNCHANGED <<sig_state, sig_fd, addrVars, client, link, reported, outsideVars>>

ThreadCloses ==
    /\ thread = "close"
    /\ Close
    /\ thread' = "clear"
    /\ UNCHANGED <<sig_state, sig_fd, addrVars, client, reported, outsideVars>>

ThreadClears ==
    /\ thread = "clear"
    /\ ClearFd
    /\ thread' = "sleep"
    /\ UNCHANGED <<sig_state, addrVars, client, link, reported, outsideVars>>

\* sig_set_state(SIG_CONNECTED), whatever happened since the reports.
ThreadConnected ==
    /\ thread = "connected"
    /\ sig_state' = "SIG_CONNECTED"
    /\ thread' = "sleep"
    /\ UNCHANGED <<sig_fd, addrVars, client, link, reported, outsideVars>>

-----------------------------------------------------------------------------
(* The client thread.                                                      *)

\* SETCAMPARAM for camera 0 with another signal machine: sync_obj stores it,
\* then reset_sig_machine.
SetCamParam(a) ==
    /\ client = "idle"
    /\ a # signal
    /\ changes < MaxChange
    /\ changes' = changes + 1
    /\ signal' = a
    /\ client' = "reset_null"
    /\ UNCHANGED <<sig_state, sig_fd, sig_ip, sig_port, thread, link, up, reported>>

\* The statements of reset_sig_machine, one by one.
ResetNull ==
    /\ client = "reset_null"
    /\ sig_state' = "SIG_NULL"
    /\ client' = "reset_close"
    /\ UNCHANGED <<sig_fd, addrVars, thread, link, reported, outsideVars>>

ResetCloses ==
    /\ client = "reset_close"
    /\ Close
    /\ client' = "reset_clear"
    /\ UNCHANGED <<sig_state, sig_fd, addrVars, thread, reported, outsideVars>>

ResetClears ==
    /\ client = "reset_clear"
    /\ ClearFd
    /\ client' = "reset_ip"
    /\ UNCHANGED <<sig_state, addrVars, thread, link, reported, outsideVars>>

ResetIp ==
    /\ client = "reset_ip"
    /\ sig_ip' = signal.ip
    /\ client' = "reset_port"
    /\ UNCHANGED <<sig_state, sig_fd, sig_port, signal, thread, link, reported, outsideVars>>

ResetPort ==
    /\ client = "reset_port"
    /\ sig_port' = signal.port
    /\ client' = "reset_pre"
    /\ UNCHANGED <<sig_state, sig_fd, sig_ip, signal, thread, link, reported, outsideVars>>

\* Mutant: reset_sig_machine forgets to start the service again.
ResetPre_Null ==
    /\ client = "reset_pre"
    /\ client' = "idle"
    /\ UNCHANGED <<sig_state, sig_fd, addrVars, thread, link, reported, outsideVars>>

ResetPre ==
    /\ client = "reset_pre"
    /\ sig_state' = "SIG_PRE_CONNECT"
    /\ client' = "idle"
    /\ UNCHANGED <<sig_fd, addrVars, thread, link, reported, outsideVars>>

\* REBOOTZEN: reboot_cmd reports events 1 and 4.  A report that fails closes
\* the socket, sig_state stays.
reboot_cmd ==
    /\ client = "idle"
    /\ changes < MaxChange
    /\ changes' = changes + 1
    /\ client' = "reboot1"
    /\ UNCHANGED <<sig_state, sig_fd, addrVars, thread, link, reported, up>>

AfterReboot(c) == IF c = "reboot1" THEN "reboot4" ELSE "rebooting"

RebootReports ==
    /\ client \in {"reboot1", "reboot4"}
    /\ \/ CanSend /\ client' = AfterReboot(client)
       \/ CanFail /\ client' = IF client = "reboot1" THEN "reboot1_close" ELSE "reboot4_close"
    /\ UNCHANGED <<sig_state, sig_fd, addrVars, thread, link, reported, outsideVars>>

RebootCloses ==
    /\ client \in {"reboot1_close", "reboot4_close"}
    /\ Close
    /\ client' = IF client = "reboot1_close" THEN "reboot1_clear" ELSE "reboot4_clear"
    /\ UNCHANGED <<sig_state, sig_fd, addrVars, thread, reported, outsideVars>>

RebootClears ==
    /\ client \in {"reboot1_clear", "reboot4_clear"}
    /\ ClearFd
    /\ client' = IF client = "reboot1_clear" THEN "reboot4" ELSE "rebooting"
    /\ UNCHANGED <<sig_state, addrVars, thread, link, reported, outsideVars>>

-----------------------------------------------------------------------------
(* Start, restart, and the signal machines.                                *)

\* init_data and init_sig_service1, with the configuration found on disk.
Start(a) ==
    [sig_state |-> IF a.ip # NoIp THEN "SIG_PRE_CONNECT" ELSE "SIG_NULL",
     sig_fd |-> -1, link |-> [s \in Socket |-> Unlinked("free")],
     reported |-> [r \in Report |-> -1]]

\* The configuration is what is left of a process that ended.
Restarted ==
    /\ sig_state' = Start(signal).sig_state
    /\ sig_fd' = Start(signal).sig_fd
    /\ link' = Start(signal).link
    /\ reported' = Start(signal).reported
    /\ sig_ip' = signal.ip /\ sig_port' = signal.port
    /\ thread' = "sleep" /\ client' = "idle"
    /\ UNCHANGED <<signal, up>>

\* system("reboot") at the end of reboot_cmd.
Reboot ==
    /\ client = "rebooting"
    /\ Restarted
    /\ UNCHANGED changes

\* External: the process dies, and the wardens script starts it again.
Crash ==
    /\ changes < MaxChange
    /\ changes' = changes + 1
    /\ Restarted

\* External: a machine appears, or goes with its connections.
MachineComes(a) ==
    /\ a \notin up
    /\ up' = up \union {a}
    /\ UNCHANGED <<sig_state, sig_fd, addrVars, thread, client, link, reported, changes>>

MachineGoes(a) ==
    /\ a \in up
    /\ up' = up \ {a}
    /\ link' = [s \in Socket |-> IF link[s] = [state |-> "linked", peer |-> a]
                                 THEN [state |-> "broken", peer |-> a]
                                 ELSE link[s]]
    /\ UNCHANGED <<sig_state, sig_fd, addrVars, thread, client, reported, changes>>

\* No machine answers at NoIp.
Machines == {a \in Address : a.ip # NoIp}

Init ==
    /\ signal \in Address
    /\ sig_state = Start(signal).sig_state
    /\ sig_fd = Start(signal).sig_fd
    /\ link = Start(signal).link
    /\ reported = Start(signal).reported
    /\ sig_ip = signal.ip /\ sig_port = signal.port
    /\ thread = "sleep" /\ client = "idle"
    /\ up = {} /\ changes = 0

ThreadStep ==
    \/ ThreadWakes \/ CreateTcpClientSock \/ ThreadTestsFd
    \/ connect_sig \/ ConnectTcpClient
    \/ \E r \in Report : ReportSent(r) \/ ReportFails(r)
    \/ ThreadCloses \/ ThreadClears \/ ThreadConnected

ClientStep ==
    \/ ResetNull \/ ResetCloses \/ ResetClears \/ ResetIp \/ ResetPort \/ ResetPre
    \/ RebootReports \/ RebootCloses \/ RebootClears \/ Reboot

Next ==
    \/ ThreadStep
    \/ \E a \in Address : SetCamParam(a)
    \/ reboot_cmd
    \/ ClientStep
    \/ Crash
    \/ \E a \in Machines : MachineComes(a) \/ MachineGoes(a)

Spec == Init /\ [][Next]_vars

\* Both threads keep running; socket() and connect() to a machine that answers
\* do not fail for ever.
Fairness ==
    /\ WF_vars(ThreadStep) /\ WF_vars(ClientStep)
    /\ SF_vars(CreateTcpClientSock /\ sig_fd' # -1)
    /\ SF_vars(ConnectTcpClient /\ thread' = "event2")

FairSpec == Spec /\ Fairness

-----------------------------------------------------------------------------
(* Properties.                                                             *)

ThreadPc == {"sleep", "create", "created", "connect_sig", "connect", "event2",
             "event3", "status", "close", "clear", "connected"}
ClientPc == {"idle", "reset_null", "reset_close", "reset_clear", "reset_ip",
             "reset_port", "reset_pre", "reboot1", "reboot1_close", "reboot1_clear",
             "reboot4", "reboot4_close", "reboot4_clear", "rebooting"}

\* The variables keep the types of the globals of sig_service.c.
TypeOK ==
    /\ sig_state \in {"SIG_PRE_CONNECT", "SIG_CONNECTED", "SIG_NULL"}
    /\ sig_fd \in Socket \union {-1}
    /\ sig_ip \in Ip /\ sig_port \in Port /\ signal \in Address
    /\ thread \in ThreadPc /\ client \in ClientPc
    /\ link \in [Socket -> Link]
    /\ up \subseteq Machines
    /\ reported \in [Report -> Socket \union {-1}]
    /\ changes \in 0 .. MaxChange

\* The thread declares the link connected only after event 2, event 3 and the
\* camera status went out in one attempt and over one socket, although the
\* client thread may close and replace sig_fd's value between any two of them.
HandshakeComplete ==
    thread = "connected" =>
        \E s \in Socket : \A r \in Report : reported[r] = s

Open == {s \in Socket : link[s].state # "free"}

\* However often connecting fails, the service holds one socket.  What more it
\* holds was lost to the client thread: close_socket, called once by
\* reset_sig_machine and twice by reboot_cmd, can clear a sig_fd the service
\* stored after the close.
RetryKeepsOneSocket == Cardinality(Open) <= 1 + 2 * changes

\* Once the configured machine answers for good and nobody changes the address,
\* the service reports to a machine and rests in SIG_CONNECTED.
LinkComesUp ==
    <>[](client = "idle" /\ signal \in up) => <>[](sig_state = "SIG_CONNECTED")
=============================================================================
