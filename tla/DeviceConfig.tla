---------------------------- MODULE DeviceConfig ----------------------------
(***************************************************************************)
(* The device configuration of the detector: g_dev_cfg and g_cam_cfg of    *)
(* fvd-new/client_net.c, the three files below cfg/ that keep them         *)
(* (client_file.c, file_op.c), and the SET and GET commands of tcp_server.c*)
(* that change and read them, one part of an object at a time.             *)
(*                                                                         *)
(* The server thread handles one command after the other; the threads of   *)
(* the cameras read the detection parameters meanwhile, in reset_alg.  The *)
(* process can die between any two steps and is started again by the       *)
(* wardens script.  What the commands do to the client list, to the        *)
(* streams and to the link is in ClientList, CameraService and SigLink.    *)
(***************************************************************************)
EXTENDS Integers

CONSTANTS
    NCam,      (* ACTIVE_CAM_NUM                                           *)
    NPart,     (* parts an object is received, copied and written in       *)
    Ip, NoIp,  (* addresses, and the empty one                             *)
    Status,    (* values of the byte camstatus, which nobody checks:       *)
               (* "closed" and "opened" (CAM_CLOSED_STATUS and             *)
               (* CAM_OPENED_STATUS) and others                            *)
    Request,   (* the SET commands clients send                            *)
    MaxSet,    (* bound on SET commands                                    *)
    MaxCrash,  (* bound on crashes                                         *)
    NULL       (* no command, no answer                                    *)

ASSUME ConstantAssumption ==
    /\ NCam \in Nat \ {0} /\ NPart \in Nat /\ NCam <= NPart
    /\ NoIp \in Ip
    /\ {"closed", "opened"} \subseteq Status
    /\ MaxSet \in Nat /\ MaxCrash \in Nat

Camera == 0 .. NCam - 1
Part == 0 .. NPart - 1

\* A part of an object, by what the program looks at: an address and a status.
\* Part c of mDetectDeviceConfig is cam_info[c]; part 0 of mCamParam has the
\* address of the signal machine.  Memory and files start zeroed, status closed.
Word == [ip : Ip, camstatus : Status]
Zero == [ip |-> NoIp, camstatus |-> "closed"]
Object == [Part -> Word]
ZeroObject == [p \in Part |-> Zero]

\* One mDetectDeviceConfig, and one mCamParam and one mCamDetectParam per
\* camera.  Each class has its file.
Dev == <<"dev", 0>>
Cam(c) == <<"cam", c>>
Det(c) == <<"det", c>>
Slot == {Dev} \union {Cam(c) : c \in Camera} \union {Det(c) : c \in Camera}
FileOf(s) == s[1]
Command == [slot : Slot, obj : Object]
Answer == [slot : Slot, obj : Object, saved : BOOLEAN]

ASSUME RequestAssumption == Request \subseteq Command

VARIABLES
    mem,           \* g_dev_cfg and g_cam_cfg
    disk,          \* contents of the files, zero where a file ends or is missing
    pc, k,         \* the main thread, and the part or camera it is at
    cmd,           \* the SET command being handled
    flag,          \* client_cmd_flag
    opened,        \* cameras with open_flg set
    alg,           \* the parameters each algorithm was initialised with: its
                   \* mCamDetectParam and its mCamParam
    pending,       \* cameras with RESET or RESET_ALG in their command slot
    sig,           \* the address the signal service was given
    apart,         \* history: objects that were neither loaded nor saved since
                   \* the start or since they were last SET
    odd,           \* history: cameras for which a status other than open and
                   \* closed came since they were last opened, closed or moved
    stale,         \* history: cameras whose mCamParam was SET since their
                   \* algorithm was initialised
    seen,          \* history: last answer to a GET, until its slot is SET
    before,        \* history: what the file held before the last SET
    sets, crashes  \* history, bounded

storeVars == <<mem, disk, apart>>
effectVars == <<opened, odd, alg, stale, pending, sig>>
historyVars == <<seen, before, sets, crashes>>
vars == <<mem, disk, apart, pc, k, cmd, flag, opened, odd, alg, stale,
          pending, sig, seen, before, sets, crashes>>

Goto(l) == pc' = l /\ k' = 0

-----------------------------------------------------------------------------
(* Receiving a command.                                                    *)

\* Mutant: buf is not zeroed; anything may follow.
Received_NotZeroed(obj, n) == [p \in Part |-> IF p < n THEN obj[p] ELSE NULL]

\* One recv into a zeroed buffer: only the first n parts of the object arrive.
Received(obj, n) == [p \in Part |-> IF p < n THEN obj[p] ELSE Zero]

\* recv_buf and handle_buffer: a SET command for slot s.
SetCommand(s, obj, n) ==
    /\ pc = "accept"
    /\ sets < MaxSet
    /\ sets' = sets + 1
    /\ cmd' = [slot |-> s, obj |-> Received(obj, n)]
    /\ flag' = "CHANGE_NOTHING"
    /\ before' = disk[s]
    /\ seen' = IF seen # NULL /\ seen.slot = s THEN NULL ELSE seen
    /\ Goto("change")
    /\ UNCHANGED <<storeVars, effectVars, crashes>>

\* A GET command: prepare_pkt copies the object from memory into the reply.
GetCommand(s) ==
    /\ pc = "accept"
    /\ seen' = [slot |-> s, obj |-> mem[s], saved |-> s \notin apart]
    /\ UNCHANGED <<storeVars, pc, k, cmd, flag, effectVars, before, sets, crashes>>

-----------------------------------------------------------------------------
(* handle_change.                                                          *)

\* Mutant: reset_sig_machine is called here, before sync_obj.
ChangeCamParam_ResetHere ==
    /\ pc = "change"
    /\ FileOf(cmd.slot) = "cam"
    /\ sig' = IF cmd.slot = Cam(0) THEN mem[Cam(0)][0].ip ELSE sig
    /\ Goto("sync")
    /\ UNCHANGED <<storeVars, cmd, flag, opened, odd, alg, stale, pending, historyVars>>

\* CLASS_mCamParam: the address of the signal machine is that of camera 0.  The
\* algorithm, which has read the camera's dimensions from this object, is not
\* initialised again.
ChangeCamParam ==
    /\ pc = "change"
    /\ FileOf(cmd.slot) = "cam"
    /\ flag' = IF cmd.slot = Cam(0) /\ mem[Cam(0)][0].ip # cmd.obj[0].ip
               THEN "CHANGE_SIG_IP" ELSE flag
    /\ Goto("sync")
    /\ UNCHANGED <<storeVars, cmd, effectVars, historyVars>>

\* Mutant: camera_ctrl is called here, before sync_obj.
ChangeDetectParam_ResetHere ==
    /\ pc = "change"
    /\ FileOf(cmd.slot) = "det"
    /\ pending' = pending \union {cmd.slot[2]}
    /\ Goto("sync")
    /\ UNCHANGED <<storeVars, cmd, flag, opened, odd, alg, stale, sig, historyVars>>

\* CLASS_mCamDetectParam.
ChangeDetectParam ==
    /\ pc = "change"
    /\ FileOf(cmd.slot) = "det"
    /\ flag' = "CHANGE_ALG"
    /\ Goto("sync")
    /\ UNCHANGED <<storeVars, cmd, effectVars, historyVars>>

\* open_alg takes both objects of the camera from memory.
open_alg(c) ==
    /\ alg' = [alg EXCEPT ![c] = [det |-> mem[Det(c)], cam |-> mem[Cam(c)]]]
    /\ stale' = stale \ {c}

\* camera_open initialises the algorithm; a camera that is open gets RESET
\* instead.  base is opened as the steps before have left it.
camera_open(c, base) ==
    /\ opened' = base \union {c}
    /\ IF c \in base
       THEN pending' = pending \union {c} /\ UNCHANGED <<alg, stale>>
       ELSE open_alg(c) /\ UNCHANGED pending

camera_close(c, base) == opened' = base \ {c} /\ UNCHANGED <<alg, stale, pending>>

\* Mutant: another address does not clear camstatus.
ChangeDevice_KeepStatus ==
    LET old == mem[Dev][k]
        new == cmd.obj[k]
        moved == old.ip # new.ip
        base == IF moved THEN opened \ {k} ELSE opened
        opens == old.camstatus = "closed" /\ new.camstatus = "opened"
        closes == old.camstatus = "opened" /\ new.camstatus = "closed"
    IN  /\ pc = "change"
        /\ cmd.slot = Dev
        /\ \/ opens /\ camera_open(k, base)
           \/ closes /\ camera_close(k, base)
           \/ ~opens /\ ~closes /\ opened' = base /\ UNCHANGED <<alg, stale, pending>>
        /\ odd' = IF new.camstatus \notin {"closed", "opened"} THEN odd \union {k}
                  ELSE IF moved \/ opens \/ closes THEN odd \ {k} ELSE odd
        /\ IF k + 1 \in Camera THEN k' = k + 1 /\ UNCHANGED pc ELSE Goto("sync")
        /\ UNCHANGED <<storeVars, cmd, flag, sig, historyVars>>

\* CLASS_mDetectDeviceConfig, one camera of the loop.  Another address closes
\* the camera and clears camstatus in memory, so that an open camera is opened
\* again at the new address.  Then a camera that goes from closed to opened is
\* opened and one that goes from opened to closed is closed; a change from or to
\* any other status does neither.
ChangeDevice ==
    LET old == mem[Dev][k]
        new == cmd.obj[k]
        moved == old.ip # new.ip
        base == IF moved THEN opened \ {k} ELSE opened
        status == IF moved THEN "closed" ELSE old.camstatus
        opens == status = "closed" /\ new.camstatus = "opened"
        closes == status = "opened" /\ new.camstatus = "closed"
    IN  /\ pc = "change"
        /\ cmd.slot = Dev
        /\ mem' = [mem EXCEPT ![Dev][k].camstatus = status]
        /\ \/ opens /\ camera_open(k, base)
           \/ closes /\ camera_close(k, base)
           \/ ~opens /\ ~closes /\ opened' = base /\ UNCHANGED <<alg, stale, pending>>
        /\ odd' = IF new.camstatus \notin {"closed", "opened"} THEN odd \union {k}
                  ELSE IF moved \/ opens \/ closes THEN odd \ {k} ELSE odd
        /\ IF k + 1 \in Camera THEN k' = k + 1 /\ UNCHANGED pc ELSE Goto("sync")
        /\ UNCHANGED <<disk, apart, cmd, flag, sig, historyVars>>

-----------------------------------------------------------------------------
(* sync_obj, save_obj and what follows.                                    *)

\* sync_obj: memcpy, seen by the camera threads part by part.
sync_obj ==
    /\ pc = "sync"
    /\ mem' = [mem EXCEPT ![cmd.slot][k] = cmd.obj[k]]
    /\ stale' = IF FileOf(cmd.slot) = "cam" THEN stale \union {cmd.slot[2]} ELSE stale
    /\ IF k + 1 \in Part THEN k' = k + 1 /\ UNCHANGED pc ELSE Goto("save")
    /\ UNCHANGED <<disk, apart, cmd, flag, opened, odd, alg, pending, sig,
                   historyVars>>

\* Mutant: the file is truncated first ("wb").
save_obj_Truncates ==
    /\ pc = "save"
    /\ apart' = apart \union {cmd.slot}
    /\ disk' = [disk EXCEPT ![cmd.slot] = ZeroObject]
    /\ Goto("write") \/ Goto("finish")
    /\ UNCHANGED <<mem, cmd, flag, effectVars, historyVars>>

\* Mutant: only a command that has an effect is saved.
save_obj_IfChanged ==
    /\ pc = "save"
    /\ IF flag = "CHANGE_NOTHING"
       THEN Goto("finish") /\ UNCHANGED apart
       ELSE /\ apart' = apart \union {cmd.slot}
            /\ Goto("write") \/ Goto("finish")
    /\ UNCHANGED <<mem, disk, cmd, flag, effectVars, historyVars>>

\* save_obj, and save_buf up to fopen(name, "rb+").  That fails for a file that is
\* missing, and also when the process has no descriptor left: a failure is only
\* logged.
save_obj ==
    /\ pc = "save"
    /\ apart' = apart \union {cmd.slot}
    /\ Goto("write") \/ Goto("finish")
    /\ UNCHANGED <<mem, disk, cmd, flag, effectVars, historyVars>>

\* Mutant: save_obj forgets pos=index*len.
save_buf_AtStart ==
    LET s == IF cmd.slot = Dev THEN Dev ELSE <<FileOf(cmd.slot), 0>>
    IN  /\ pc = "write"
        /\ disk' = [disk EXCEPT ![s][k] = cmd.obj[k]]
        /\ IF k + 1 \in Part
           THEN k' = k + 1 /\ UNCHANGED <<pc, apart>>
           ELSE Goto("finish") /\ apart' = apart \ {cmd.slot}
        /\ UNCHANGED <<mem, cmd, flag, effectVars, historyVars>>

\* save_buf writes in place, from pos on.
save_buf ==
    /\ pc = "write"
    /\ disk' = [disk EXCEPT ![cmd.slot][k] = cmd.obj[k]]
    /\ IF k + 1 \in Part
       THEN k' = k + 1 /\ UNCHANGED <<pc, apart>>
       ELSE Goto("finish") /\ apart' = apart \ {cmd.slot}
    /\ UNCHANGED <<mem, cmd, flag, effectVars, historyVars>>

\* fwrite or fclose fails half-way; nobody looks at the result.
WriteFails ==
    /\ pc = "write"
    /\ Goto("finish")
    /\ UNCHANGED <<storeVars, cmd, flag, effectVars, historyVars>>

\* The switch on client_cmd_flag: reset_sig_machine reads the address from
\* memory, camera_ctrl posts RESET_ALG.
FinishSet ==
    /\ pc = "finish"
    /\ sig' = IF flag = "CHANGE_SIG_IP" THEN mem[Cam(0)][0].ip ELSE sig
    /\ pending' = IF flag = "CHANGE_ALG" THEN pending \union {cmd.slot[2]} ELSE pending
    /\ Goto("accept")
    /\ UNCHANGED <<storeVars, cmd, flag, opened, odd, alg, stale, historyVars>>

-----------------------------------------------------------------------------
(* The threads of the cameras: reset_alg reads the parameters in memory.   *)

\* camera_main executes the command in its slot.
MainResets(c) ==
    /\ c \in pending
    /\ open_alg(c)
    /\ pending' = pending \ {c}
    /\ UNCHANGED <<storeVars, pc, k, cmd, flag, opened, odd, sig, historyVars>>

\* process_fun changes the algorithm after a frame.
FrameResets(c) ==
    /\ c \in opened
    /\ open_alg(c)
    /\ UNCHANGED <<storeVars, pc, k, cmd, flag, opened, odd, pending, sig, historyVars>>

-----------------------------------------------------------------------------
(* Crash and start.                                                        *)

\* External: the process dies; globals of the next one are zero.
Crash ==
    /\ crashes < MaxCrash
    /\ crashes' = crashes + 1
    /\ mem' = [s \in Slot |-> ZeroObject]
    /\ apart' = Slot
    /\ alg' = [c \in Camera |-> [det |-> ZeroObject, cam |-> ZeroObject]]
    /\ opened' = {} /\ odd' = {} /\ stale' = {} /\ pending' = {} /\ sig' = NoIp
    /\ flag' = "CHANGE_NOTHING"
    /\ Goto("load_dev")
    /\ UNCHANGED <<disk, cmd, seen, before, sets>>

\* load_buf, if s is one of the objects whose file fopen could open; else memory
\* keeps its zeros.
Loaded(s, ok) == IF s \in ok THEN disk[s] ELSE mem[s]

\* init_config: the device first,
LoadDevice ==
    /\ pc = "load_dev"
    /\ \E ok \in SUBSET {Dev} :
         /\ mem' = [mem EXCEPT ![Dev] = Loaded(Dev, ok)]
         /\ apart' = apart \ ok
    /\ Goto("load")
    /\ UNCHANGED <<disk, cmd, flag, effectVars, historyVars>>

\* then each camera's objects; a camera that was open is opened again.
LoadCamera ==
    /\ pc = "load"
    /\ \E ok \in SUBSET {Cam(k), Det(k)} :
         /\ mem' = [mem EXCEPT ![Cam(k)] = Loaded(Cam(k), ok), ![Det(k)] = Loaded(Det(k), ok)]
         /\ apart' = apart \ ok
         /\ IF mem[Dev][k].camstatus = "opened"
            THEN /\ opened' = opened \union {k}
                 /\ alg' = [alg EXCEPT ![k] = [det |-> Loaded(Det(k), ok),
                                               cam |-> Loaded(Cam(k), ok)]]
            ELSE UNCHANGED <<opened, alg>>
    /\ odd' = IF mem[Dev][k].camstatus \notin {"closed", "opened"}
              THEN odd \union {k} ELSE odd
    /\ IF k + 1 \in Camera THEN k' = k + 1 /\ UNCHANGED pc ELSE Goto("start")
    /\ UNCHANGED <<disk, cmd, flag, stale, pending, sig, historyVars>>

\* init_sig_service1 takes the address; then init_tcp_server.
StartServices ==
    /\ pc = "start"
    /\ sig' = mem[Cam(0)][0].ip
    /\ Goto("accept")
    /\ UNCHANGED <<storeVars, cmd, flag, opened, odd, alg, stale, pending, historyVars>>

\* The server after its first start, from files that are empty: memory is zero
\* like them, no camera is open and the link has no address.
Init ==
    /\ mem = [s \in Slot |-> ZeroObject]
    /\ disk = [s \in Slot |-> ZeroObject] /\ apart = {}
    /\ pc = "accept" /\ k = 0
    /\ cmd = [slot |-> Dev, obj |-> ZeroObject]
    /\ flag = "CHANGE_NOTHING"
    /\ opened = {} /\ odd = {} /\ stale = {} /\ pending = {} /\ sig = NoIp
    /\ alg = [c \in Camera |-> [det |-> ZeroObject, cam |-> ZeroObject]]
    /\ seen = NULL /\ before = ZeroObject
    /\ sets = 0 /\ crashes = 0

Next ==
    \/ \E r \in Request, n \in 0 .. NPart : SetCommand(r.slot, r.obj, n)
    \/ \E s \in Slot : GetCommand(s)
    \/ ChangeCamParam \/ ChangeDetectParam \/ ChangeDevice
    \/ sync_obj \/ save_obj \/ save_buf \/ WriteFails \/ FinishSet
    \/ \E c \in Camera : MainResets(c) \/ FrameResets(c)
    \/ Crash \/ LoadDevice \/ LoadCamera \/ StartServices

Spec == Init /\ [][Next]_vars

-----------------------------------------------------------------------------
(* Properties.                                                             *)

\* The variables keep their types; no part is ever left uninitialised.
TypeOK ==
    /\ mem \in [Slot -> Object] /\ disk \in [Slot -> Object]
    /\ pc \in {"accept", "change", "sync", "save", "write", "finish", "load_dev",
               "load", "start"}
    /\ k \in Part /\ (pc \in {"change", "load"} => k \in Camera)
    /\ cmd \in Command
    /\ flag \in {"CHANGE_NOTHING", "CHANGE_SIG_IP", "CHANGE_ALG"}
    /\ apart \subseteq Slot
    /\ opened \subseteq Camera /\ pending \subseteq Camera
    /\ odd \subseteq Camera /\ stale \subseteq Camera
    /\ alg \in [Camera -> [det : Object, cam : Object]] /\ sig \in Ip
    /\ seen \in Answer \union {NULL} /\ before \in Object
    /\ sets \in 0 .. MaxSet /\ crashes \in 0 .. MaxCrash

\* Whenever the server waits for a client, the files hold what the program works
\* with, so a restart changes nothing: after any sequence of commands, received
\* whole or in part, and crashes in the middle of them.  Only an object whose
\* last fopen or fwrite failed is apart, and the next SET brings it back.
FileIsMemory ==
    pc = "accept" => \A s \in Slot \ apart : disk[s] = mem[s]

\* What a client has read stays readable: the answer to a GET of an object that
\* was saved is in the file, and in memory again after any restart that can read
\* the file, until somebody SETs that same object.
AnswerIsDurable ==
    seen # NULL /\ seen.saved =>
        /\ disk[seen.slot] = seen.obj
        /\ pc = "accept" /\ seen.slot \notin apart => mem[seen.slot] = seen.obj

\* A crash or an error inside save_buf leaves the new object up to some part and
\* the old one behind it, never anything else.
TornAtOnePlace ==
    \E n \in 0 .. NPart :
        disk[cmd.slot] = [p \in Part |-> IF p < n THEN cmd.obj[p] ELSE before[p]]

\* The cameras that are open are those the configuration says, after changes of
\* address, commands of which only a part arrived, and restarts; of a camera that
\* was given a status other than open and closed nothing is known until it is
\* opened, closed or moved again.
CamerasAsConfigured ==
    pc = "accept" =>
        \A c \in Camera \ odd : c \in opened <=> mem[Dev][c].camstatus = "opened"

\* The algorithm of an open camera works with the configured detection
\* parameters, or a command that makes it do so is in its slot, although it may
\* have read them while sync_obj was copying.  The camera's own parameters it has
\* only until they are SET again: nobody resets it then.
AlgAsConfigured ==
    pc = "accept" =>
        /\ \A c \in opened \ pending : alg[c].det = mem[Det(c)]
        /\ \A c \in opened \ stale : alg[c].cam = mem[Cam(c)]

\* The signal service was given the configured address.
LinkAsConfigured == pc = "accept" => sig = mem[Cam(0)][0].ip
=============================================================================
