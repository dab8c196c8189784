--------------------------- MODULE CameraService ---------------------------
(***************************************************************************)
(* The life of one camera of the detector: fvd-new/camera_service.c with   *)
(* what it calls in cam_net.c, cam_alg.c and cam_codec.c, driven by the    *)
(* device configuration of client_net.c.  The cameras of the program do    *)
(* not share this state, so one stands for all of them.                    *)
(*                                                                         *)
(* Threads: the client thread (init_config, then the TCP server's          *)
(* handle_change) opens and closes the camera and posts RESET_ALG;         *)
(* camera_main polls the command slot every millisecond; watchdog_func     *)
(* looks every ten seconds whether a frame came; the camera SDK calls      *)
(* process_fun for every frame of an open channel.  cmd_lock orders        *)
(* camera_main, process_fun and camera_ctrl; camera_open and camera_close  *)
(* do not take it.                                                         *)
(***************************************************************************)
EXTENDS Naturals, FiniteSets

CONSTANTS
    Status,   (* values of the byte camstatus, which nobody checks:        *)
              (* "closed", "opened" (CAM_CLOSED_STATUS, CAM_OPENED_STATUS) *)
              (* and others                                                *)
    Channel,  (* handles NET_OpenChannel can return; also, as owner of     *)
              (* cmd_lock, the SDK thread that delivers its frames         *)
    Main,     (* camera_main as owner of cmd_lock                          *)
    NULL      (* null handle, lock that nobody owns                        *)

ASSUME ConstantAssumption ==
    /\ {"closed", "opened"} \subseteq Status
    /\ Main \notin Channel
    /\ NULL \notin Channel
    /\ Main # NULL

VARIABLES
    camstatus,          \* g_dev_cfg.cam_info[i].camstatus
    odd,                \* history: a status other than open and closed was stored
                        \* since the camera was last opened, closed or moved
    open_flg,           \* m_camera_info
    cam_running_state,  \*   "CAM_RUNNING" or "CAM_STOPED"
    cmd,                \*   the command slot
    cmd_lock,           \*   its owner, or NULL
    watchdog_value,     \*   "FULL" or "HUNGRY"
    decoder, alg,       \* decoder and algorithm memory of the camera exist
    channel_handle,     \* login_info[i].channel_handle
    client, request,    \* the client thread and the configuration it applies
    main, dog,          \* camera_main and watchdog_func
    frame,              \* process_fun of each channel
    online, streaming   \* external: the camera answers; channels that deliver

cameraVars == <<open_flg, cam_running_state>>
resourceVars == <<decoder, alg>>
netVars == <<channel_handle, streaming>>
threadVars == <<client, request, main, dog, frame>>
vars == <<camstatus, odd, open_flg, cam_running_state, cmd, cmd_lock, watchdog_value,
          decoder, alg, channel_handle, client, request, main, dog, frame,
          online, streaming>>

Command == {"NULL", "RESET", "RESET_ALG"}

\* What mDetectDeviceConfig says of this camera: another address or the same
\* one, and its status.
Config == [ip_changed : BOOLEAN, camstatus : Status]

-----------------------------------------------------------------------------
(* cam_net.c and the SDK behind it.                                        *)

\* net_close_camera: the channel the handle names is closed.  The handle keeps
\* its value; closing it again does nothing.  A callback that already runs is
\* not waited for.
net_close_camera ==
    /\ streaming' = streaming \ {channel_handle}
    /\ UNCHANGED channel_handle

\* Mutant: the error code of NET_OpenChannel is taken for a handle.
net_open_camera_ErrorCode ==
    \/ UNCHANGED netVars
    \/ /\ online
       /\ channel_handle' = Main
       /\ UNCHANGED streaming

\* net_open_camera: the logon fails (the handle keeps its old value), or it
\* succeeds and the handle becomes that of a new channel, or NULL if no channel
\* can be opened.
net_open_camera ==
    \/ UNCHANGED netVars
    \/ /\ online
       /\ channel_handle' = NULL
       /\ UNCHANGED streaming
    \/ /\ online
       /\ \E h \in Channel \ streaming :
            /\ frame[h] = "idle"
            /\ channel_handle' = h
            /\ streaming' = streaming \union {h}

\* External: the camera appears, disappears with all its streams, or lets one
\* stream die.
CameraAppears ==
    /\ ~online
    /\ online' = TRUE
    /\ UNCHANGED <<camstatus, odd, cameraVars, cmd, cmd_lock, watchdog_value,
                   resourceVars, netVars, threadVars>>

CameraVanishes ==
    /\ online
    /\ online' = FALSE
    /\ streaming' = {}
    /\ UNCHANGED <<camstatus, odd, cameraVars, cmd, cmd_lock, watchdog_value,
                   resourceVars, channel_handle, threadVars>>

StreamDies(h) ==
    /\ h \in streaming
    /\ streaming' = streaming \ {h}
    /\ UNCHANGED <<camstatus, odd, cameraVars, cmd, cmd_lock, watchdog_value,
                   resourceVars, channel_handle, threadVars, online>>

-----------------------------------------------------------------------------
(* camera_ctrl and the client thread.                                      *)

\* Mutant: the command is posted without the lock.
camera_ctrl_NoLock(c) == cmd' = c /\ UNCHANGED cmd_lock

\* camera_ctrl: the slot holds one command; a newer one replaces it.
camera_ctrl(c) ==
    /\ cmd_lock = NULL
    /\ cmd' = c
    /\ UNCHANGED cmd_lock

\* handle_buffer receives SETCHECHPARAM: handle_change asks for a new algorithm.
SetCheckParam ==
    /\ client = "idle"
    /\ camera_ctrl("RESET_ALG")
    /\ UNCHANGED <<camstatus, odd, cameraVars, watchdog_value, resourceVars,
                   netVars, threadVars, online>>

\* handle_buffer receives SETDETECTDEVICE.
SetDetectDevice(config) ==
    /\ client = "idle"
    /\ request' = config
    /\ client' = "change_ip"
    /\ UNCHANGED <<camstatus, odd, cameraVars, cmd, cmd_lock, watchdog_value,
                   resourceVars, netVars, main, dog, frame, online>>

\* handle_change, first test: a camera with another address is closed, whether
\* it was open or not.  The addresses are not compared again.
ChangeIp ==
    /\ client = "change_ip"
    /\ client' = IF request.ip_changed THEN "ip_close" ELSE "change_open"
    /\ request' = [request EXCEPT !.ip_changed = FALSE]
    /\ UNCHANGED <<camstatus, odd, cameraVars, cmd, cmd_lock, watchdog_value,
                   resourceVars, netVars, main, dog, frame, online>>

\* ... second and third test: from closed to opened, open; from opened to
\* closed, close; a change from or to any other status does neither.
ChangeStatus ==
    /\ client = "change_open"
    /\ client' = CASE camstatus = "closed" /\ request.camstatus = "opened" -> "open"
                   [] camstatus = "opened" /\ request.camstatus = "closed" -> "close"
                   [] OTHER -> "sync"
    /\ UNCHANGED <<camstatus, odd, cameraVars, cmd, cmd_lock, watchdog_value,
                   resourceVars, netVars, request, main, dog, frame, online>>

\* The steps of camera_close, called from the first test (ip_close) or from the
\* third (close): channel, decoder, algorithm, flags.
CloseNet(first) ==
    /\ client = first
    /\ net_close_camera
    /\ client' = IF first = "ip_close" THEN "ip_decoder" ELSE "close_decoder"
    /\ UNCHANGED <<camstatus, odd, cameraVars, cmd, cmd_lock, watchdog_value,
                   resourceVars, request, main, dog, frame, online>>

CloseDecoder ==
    /\ client \in {"ip_decoder", "close_decoder"}
    /\ decoder' = FALSE
    /\ client' = IF client = "ip_decoder" THEN "ip_alg" ELSE "close_alg"
    /\ UNCHANGED <<camstatus, odd, cameraVars, cmd, cmd_lock, watchdog_value, alg,
                   netVars, request, main, dog, frame, online>>

CloseAlg ==
    /\ client \in {"ip_alg", "close_alg"}
    /\ alg' = FALSE
    /\ client' = IF client = "ip_alg" THEN "ip_flags" ELSE "close_flags"
    /\ UNCHANGED <<camstatus, odd, cameraVars, cmd, cmd_lock, watchdog_value, decoder,
                   netVars, request, main, dog, frame, online>>

\* Mutant: handle_change does not record that the camera was closed.
CloseFlags_KeepStatus ==
    /\ client \in {"ip_flags", "close_flags"}
    /\ open_flg' = FALSE
    /\ cam_running_state' = "CAM_STOPED"
    /\ odd' = FALSE
    /\ client' = IF client = "ip_flags" THEN "change_open" ELSE "sync"
    /\ UNCHANGED <<camstatus, cmd, cmd_lock, watchdog_value, resourceVars, netVars,
                   request, main, dog, frame, online>>

\* After the first test handle_change also records that the camera is closed.
CloseFlags ==
    /\ client \in {"ip_flags", "close_flags"}
    /\ open_flg' = FALSE
    /\ cam_running_state' = "CAM_STOPED"
    /\ odd' = FALSE
    /\ IF client = "ip_flags"
       THEN camstatus' = "closed" /\ client' = "change_open"
       ELSE client' = "sync" /\ UNCHANGED camstatus
    /\ UNCHANGED <<cmd, cmd_lock, watchdog_value, resourceVars, netVars,
                   request, main, dog, frame, online>>

\* camera_open: a camera that is open is only reset; else open_alg ...
camera_open ==
    /\ client = "open"
    /\ IF open_flg
       THEN /\ camera_ctrl("RESET")
            /\ odd' = FALSE
            /\ client' = "sync"
            /\ UNCHANGED alg
       ELSE /\ alg' = TRUE
            /\ client' = "open_decoder"
            /\ UNCHANGED <<odd, cmd, cmd_lock>>
    /\ UNCHANGED <<camstatus, cameraVars, watchdog_value, decoder, netVars,
                   request, main, dog, frame, online>>

\* ... open_h264_decoder ...
OpenDecoder ==
    /\ client = "open_decoder"
    /\ decoder' = TRUE
    /\ client' = "open_net"
    /\ UNCHANGED <<camstatus, odd, cameraVars, cmd, cmd_lock, watchdog_value, alg, netVars,
                   request, main, dog, frame, online>>

\* ... net_open_camera, which succeeded if there is a handle ...
OpenNet ==
    /\ client = "open_net"
    /\ net_open_camera
    /\ client' = IF channel_handle' # NULL THEN "opened" ELSE "not_opened"
    /\ UNCHANGED <<camstatus, odd, cameraVars, cmd, cmd_lock, watchdog_value,
                   resourceVars, request, main, dog, frame, online>>

\* ... and the flags; the camera counts as open whether that worked or not.
OpenFlags ==
    /\ client \in {"opened", "not_opened"}
    /\ cam_running_state' = IF client = "opened" THEN "CAM_RUNNING" ELSE "CAM_STOPED"
    /\ open_flg' = TRUE
    /\ odd' = FALSE
    /\ client' = "sync"
    /\ UNCHANGED <<camstatus, cmd, cmd_lock, watchdog_value, resourceVars, netVars,
                   request, main, dog, frame, online>>

\* sync_obj: the configuration in memory becomes the requested one.
Sync ==
    /\ client = "sync"
    /\ camstatus' = request.camstatus
    /\ odd' = (odd \/ request.camstatus \notin {"closed", "opened"})
    /\ client' = "idle"
    /\ UNCHANGED <<cameraVars, cmd, cmd_lock, watchdog_value, resourceVars, netVars,
                   request, main, dog, frame, online>>

-----------------------------------------------------------------------------
(* camera_main: every millisecond, one command under cmd_lock.  A turn     *)
(* that finds no command changes nothing.                                  *)

\* Mutant: camera_main does not take cmd_lock.
MainTake_NoLock ==
    /\ main = "idle"
    /\ cmd # "NULL"
    /\ main' = IF cmd = "RESET" THEN "net_close" ELSE "reset_alg"
    /\ UNCHANGED <<camstatus, odd, cameraVars, cmd, cmd_lock, watchdog_value, resourceVars,
                   netVars, client, request, dog, frame, online>>

MainTake ==
    /\ main = "idle"
    /\ cmd_lock = NULL
    /\ cmd # "NULL"
    /\ cmd_lock' = Main
    /\ main' = IF cmd = "RESET" THEN "net_close" ELSE "reset_alg"
    /\ UNCHANGED <<camstatus, odd, cameraVars, cmd, watchdog_value, resourceVars, netVars,
                   client, request, dog, frame, online>>

MainNetClose ==
    /\ main = "net_close"
    /\ net_close_camera
    /\ main' = "net_open"
    /\ UNCHANGED <<camstatus, odd, cameraVars, cmd, cmd_lock, watchdog_value,
                   resourceVars, client, request, dog, frame, online>>

\* RESET does not look at open_flg; a failed logon is only logged.
MainNetOpen ==
    /\ main = "net_open"
    /\ net_open_camera
    /\ main' = "reset_alg"
    /\ UNCHANGED <<camstatus, odd, cameraVars, cmd, cmd_lock, watchdog_value,
                   resourceVars, client, request, dog, frame, online>>

\* reset_alg: release_alg and open_alg.
MainResetAlg ==
    /\ main = "reset_alg"
    /\ alg' = TRUE
    /\ main' = "done"
    /\ UNCHANGED <<camstatus, odd, cameraVars, cmd, cmd_lock, watchdog_value, decoder,
                   netVars, client, request, dog, frame, online>>

MainDone ==
    /\ main = "done"
    /\ cmd' = "NULL"
    /\ cmd_lock' = NULL
    /\ main' = "idle"
    /\ UNCHANGED <<camstatus, odd, cameraVars, watchdog_value, resourceVars, netVars,
                   client, request, dog, frame, online>>

-----------------------------------------------------------------------------
(* watchdog_func: every ten seconds.                                       *)

\* No frame since the last turn and the camera is open: it will be reset.
DogLooks ==
    /\ dog = "idle"
    /\ dog' = IF watchdog_value = "HUNGRY" /\ open_flg THEN "reset" ELSE "well"
    /\ UNCHANGED <<camstatus, odd, cameraVars, cmd, cmd_lock, watchdog_value, resourceVars,
                   netVars, client, request, main, frame, online>>

DogResets ==
    /\ dog = "reset"
    /\ camera_ctrl("RESET")
    /\ dog' = "ill"
    /\ UNCHANGED <<camstatus, odd, cameraVars, watchdog_value, resourceVars,
                   netVars, client, request, main, frame, online>>

\* Mutant: the watchdog does not get hungry again.
DogMarks_NotHungry ==
    /\ dog \in {"well", "ill"}
    /\ cam_running_state' = IF dog = "ill" THEN "CAM_STOPED" ELSE "CAM_RUNNING"
    /\ dog' = "idle"
    /\ UNCHANGED <<camstatus, odd, open_flg, cmd, cmd_lock, watchdog_value, resourceVars,
                   netVars, client, request, main, frame, online>>

\* The running state follows, also that of a camera that is closed.
DogMarks ==
    /\ dog \in {"well", "ill"}
    /\ cam_running_state' = IF dog = "ill" THEN "CAM_STOPED" ELSE "CAM_RUNNING"
    /\ watchdog_value' = "HUNGRY"
    /\ dog' = "idle"
    /\ UNCHANGED <<camstatus, odd, open_flg, cmd, cmd_lock, resourceVars, netVars,
                   client, request, main, frame, online>>

-----------------------------------------------------------------------------
(* process_fun, called by the SDK for a frame of channel h.                *)

FrameArrives(h) ==
    /\ h \in streaming
    /\ frame[h] = "idle"
    /\ watchdog_value' = "FULL"
    /\ frame' = [frame EXCEPT ![h] = "lock"]
    /\ UNCHANGED <<camstatus, odd, cameraVars, cmd, cmd_lock, resourceVars, netVars,
                   client, request, main, dog, online>>

FrameLocks(h) ==
    /\ frame[h] = "lock"
    /\ cmd_lock = NULL
    /\ cmd_lock' = h
    /\ frame' = [frame EXCEPT ![h] = "decode"]
    /\ UNCHANGED <<camstatus, odd, cameraVars, cmd, watchdog_value, resourceVars, netVars,
                   client, request, main, dog, online>>

\* h264_decode.
FrameDecodes(h) ==
    /\ frame[h] = "decode"
    /\ frame' = [frame EXCEPT ![h] = "run_alg"]
    /\ UNCHANGED <<camstatus, odd, cameraVars, cmd, cmd_lock, watchdog_value, resourceVars,
                   netVars, client, request, main, dog, online>>

\* run_alg returns 0, or the algorithm to change to.
FrameRunsAlg(h) ==
    /\ frame[h] = "run_alg"
    /\ \E next \in {"output", "reset_alg"} : frame' = [frame EXCEPT ![h] = next]
    /\ UNCHANGED <<camstatus, odd, cameraVars, cmd, cmd_lock, watchdog_value, resourceVars,
                   netVars, client, request, main, dog, online>>

\* cam_set_shutter (the camera's business) and reset_alg.
FrameResetsAlg(h) ==
    /\ frame[h] = "reset_alg"
    /\ alg' = TRUE
    /\ frame' = [frame EXCEPT ![h] = "output"]
    /\ UNCHANGED <<camstatus, odd, cameraVars, cmd, cmd_lock, watchdog_value, decoder,
                   netVars, client, request, main, dog, online>>

\* client_output (ClientList) and the end of process_fun.
FrameEnds(h) ==
    /\ frame[h] = "output"
    /\ cmd_lock' = NULL
    /\ frame' = [frame EXCEPT ![h] = "idle"]
    /\ UNCHANGED <<camstatus, odd, cameraVars, cmd, watchdog_value, resourceVars, netVars,
                   client, request, main, dog, online>>

-----------------------------------------------------------------------------
\* camera_service_init has run; init_config finds the camera's status on disk
\* and calls camera_open if it is CAM_OPENED_STATUS.
Init ==
    /\ camstatus \in Status
    /\ odd = (camstatus \notin {"closed", "opened"})
    /\ request = [ip_changed |-> FALSE, camstatus |-> camstatus]
    /\ client = IF camstatus = "opened" THEN "open" ELSE "idle"
    /\ open_flg = FALSE
    /\ cam_running_state = "CAM_STOPED"
    /\ cmd = "NULL" /\ cmd_lock = NULL
    /\ watchdog_value = "HUNGRY"
    /\ decoder = FALSE /\ alg = FALSE
    /\ channel_handle = NULL
    /\ main = "idle" /\ dog = "idle"
    /\ frame = [h \in Channel |-> "idle"]
    /\ online \in BOOLEAN /\ streaming = {}

ClientStep ==
    \/ ChangeIp \/ ChangeStatus
    \/ CloseNet("ip_close") \/ CloseNet("close")
    \/ CloseDecoder \/ CloseAlg \/ CloseFlags
    \/ camera_open \/ OpenDecoder \/ OpenNet \/ OpenFlags
    \/ Sync

MainStep == MainTake \/ MainNetClose \/ MainNetOpen \/ MainResetAlg \/ MainDone

DogStep == DogLooks \/ DogResets \/ DogMarks

FrameStep(h) ==
    \/ FrameLocks(h) \/ FrameDecodes(h) \/ FrameRunsAlg(h) \/ FrameResetsAlg(h)
    \/ FrameEnds(h)

Next ==
    \/ SetCheckParam
    \/ \E config \in Config : SetDetectDevice(config)
    \/ ClientStep
    \/ MainStep
    \/ DogStep
    \/ \E h \in Channel : FrameArrives(h) \/ FrameStep(h) \/ StreamDies(h)
    \/ CameraAppears \/ CameraVanishes

Spec == Init /\ [][Next]_vars
\* The timed threads keep running and get the mutex they wait for, the SDK goes
\* on with the frames of a live channel, and a camera that answers does not
\* refuse every logon.  camera_main polls ten thousand times between two turns
\* of the watchdog: of the RESETs it posts for ever, one is seen.
Fairness ==
    /\ WF_vars(ClientStep)
    /\ SF_vars(MainStep)
    /\ SF_vars(MainTake /\ cmd = "RESET")
    /\ SF_vars(MainNetOpen /\ streaming' # streaming)
    /\ SF_vars(DogStep)
    /\ \A h \in Channel : WF_vars(FrameArrives(h)) /\ SF_vars(FrameStep(h))

FairSpec == Spec /\ Fairness

-----------------------------------------------------------------------------
(* Properties.                                                             *)

ClientPc == {"idle", "change_ip", "ip_close", "ip_decoder", "ip_alg", "ip_flags",
             "change_open", "close", "close_decoder", "close_alg", "close_flags",
             "open", "open_decoder", "open_net", "opened", "not_opened", "sync"}
MainPc == {"idle", "net_close", "net_open", "reset_alg", "done"}
DogPc == {"idle", "reset", "well", "ill"}
FramePc == {"idle", "lock", "decode", "run_alg", "reset_alg", "output"}

\* The variables keep the values their C counterparts can take.
TypeOK ==
    /\ camstatus \in Status /\ odd \in BOOLEAN /\ open_flg \in BOOLEAN
    /\ cam_running_state \in {"CAM_RUNNING", "CAM_STOPED"}
    /\ cmd \in Command
    /\ cmd_lock \in Channel \union {Main, NULL}
    /\ watchdog_value \in {"FULL", "HUNGRY"}
    /\ decoder \in BOOLEAN /\ alg \in BOOLEAN
    /\ channel_handle \in Channel \union {NULL}
    /\ client \in ClientPc /\ request \in Config
    /\ main \in MainPc /\ dog \in DogPc
    /\ frame \in [Channel -> FramePc]
    /\ online \in BOOLEAN /\ streaming \subseteq Channel

\* The frame of channel h is between lock and unlock of process_fun.
InFrame(h) == frame[h] \in {"decode", "run_alg", "reset_alg", "output"}

\* cmd_lock keeps a reset by camera_main and the frames of all channels apart:
\* one of them at a time works on decoder and algorithm.
OneAtATime ==
    /\ \A g, h \in Channel : InFrame(g) /\ InFrame(h) => g = h
    /\ main # "idle" => \A h \in Channel : ~InFrame(h)

\* While camera_main executes a command, the slot holds that command: nothing
\* posted meanwhile is wiped out by the final set_cmd(CAMERA_CONTROL_NULL).
SlotHoldsCommand ==
    /\ main \in {"net_close", "net_open"} => cmd = "RESET"
    /\ main \in {"reset_alg", "done"} => cmd # "NULL"

\* Between two commands open_flg is what the configuration says, and camera_open
\* never meets an open camera, whatever SETDETECTDEVICE and changes of address
\* came before: as long as no status other than open and closed was stored since
\* the camera was last opened, closed or moved.  After such a status
\* handle_change does nothing and the two may disagree.
OpenAsConfigured ==
    ~odd => /\ client = "idle" => (open_flg <=> camstatus = "opened")
            /\ client = "open" => ~open_flg

\* A camera that is configured open and answers is connected again and again:
\* a failed open and a dead stream are both repaired by the watchdog.
Reconnects ==
    <>[](camstatus = "opened" /\ ~odd /\ client = "idle" /\ online)
        => []<>(streaming # {})
=============================================================================
