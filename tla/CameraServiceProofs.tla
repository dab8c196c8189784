------------------------ MODULE CameraServiceProofs ------------------------
(***************************************************************************)
(* Safety of CameraService for any number of SDK channels.                 *)
(*                                                                         *)
(* OneAtATime and SlotHoldsCommand follow from who owns cmd_lock           *)
(* (LockOwner); OpenAsConfigured from what open_flg is at each point of    *)
(* handle_change (ClientFlags).  Neither needs the other, and both need    *)
(* the types.                                                              *)
(***************************************************************************)
EXTENDS CameraService, TLAPS

\* cmd_lock belongs to the thread that is between lock and unlock.
LockOwner ==
    /\ \A h \in Channel : InFrame(h) <=> cmd_lock = h
    /\ main # "idle" <=> cmd_lock = Main

\* The points of handle_change between the tests and the end of camera_open
\* or camera_close.
Opening == {"open", "open_decoder", "open_net", "opened", "not_opened"}
Closing == {"close", "close_decoder", "close_alg", "close_flags"}

\* What the client thread may rely on.  It opens what the request wants opened
\* and closes what it wants closed; and unless an odd status was stored, open_flg
\* is what the configuration says before the tests, and what was requested at
\* sync_obj.
ClientFlags ==
    /\ client \in Opening => request.camstatus = "opened"
    /\ client \in Closing => request.camstatus = "closed"
    /\ ~odd =>
         /\ client \in {"idle", "change_ip", "change_open"} =>
              /\ camstatus \in {"closed", "opened"}
              /\ open_flg <=> camstatus = "opened"
         /\ client = "open" => ~open_flg
         /\ client = "sync" /\ request.camstatus \in {"closed", "opened"} =>
              (open_flg <=> request.camstatus = "opened")

SafetyInv == LockOwner /\ SlotHoldsCommand

-----------------------------------------------------------------------------
\* Every reachable state of the camera is well typed.
THEOREM TypeCorrect == Spec => []TypeOK
<1>1. Init => TypeOK
  <2> SUFFICES ASSUME Init PROVE TypeOK
    OBVIOUS
  <2>1. open_flg \in BOOLEAN /\ decoder \in BOOLEAN /\ alg \in BOOLEAN
    BY Zenon DEF Init
  <2>2. request \in Config
    BY Zenon DEF Init, Config
  <2>3. odd \in BOOLEAN
    BY DEF Init
  <2> QED
    BY <2>1, <2>2, <2>3 DEF Init, TypeOK, Command, ClientPc, MainPc, DogPc, FramePc
<1>2. TypeOK /\ [Next]_vars => TypeOK'
  <2> SUFFICES ASSUME TypeOK, [Next]_vars PROVE TypeOK'
    OBVIOUS
  <2> USE ConstantAssumption DEF TypeOK, Config, Command, ClientPc, MainPc, DogPc, FramePc
  <2>1. CASE SetCheckParam
    BY <2>1 DEF SetCheckParam, camera_ctrl, cameraVars, resourceVars, netVars, threadVars
  <2>2. ASSUME NEW config \in Config, SetDetectDevice(config) PROVE TypeOK'
    BY <2>2 DEF SetDetectDevice, cameraVars, resourceVars, netVars
  <2>3. CASE ClientStep
    <3>1. CASE ChangeIp
      <4>1. request' \in Config
        <5>1. FALSE \in BOOLEAN
          BY Zenon
        <5> QED
          BY <3>1, <5>1 DEF ChangeIp
      <4> QED
        BY <3>1, <4>1 DEF ChangeIp, cameraVars, resourceVars, netVars
    <3>2. CASE ChangeStatus
      BY <3>2 DEF ChangeStatus, cameraVars, resourceVars, netVars
    <3>3. CASE CloseNet("ip_close") \/ CloseNet("close")
      BY <3>3 DEF CloseNet, net_close_camera, cameraVars, resourceVars
    <3>4. CASE CloseDecoder
      <4>1. decoder' \in BOOLEAN
        BY <3>4, Zenon DEF CloseDecoder
      <4> QED
        BY <3>4, <4>1 DEF CloseDecoder, cameraVars, netVars
    <3>5. CASE CloseAlg
      <4>1. alg' \in BOOLEAN
        BY <3>5, Zenon DEF CloseAlg
      <4> QED
        BY <3>5, <4>1 DEF CloseAlg, cameraVars, netVars
    <3>6. CASE CloseFlags
      <4>1. open_flg' \in BOOLEAN /\ odd' \in BOOLEAN
        BY <3>6, Zenon DEF CloseFlags
      <4> QED
        BY <3>6, <4>1 DEF CloseFlags, resourceVars, netVars
    <3>7. CASE camera_open
      <4>1. alg' \in BOOLEAN /\ odd' \in BOOLEAN
        BY <3>7, Zenon DEF camera_open
      <4> QED
        BY <3>7, <4>1 DEF camera_open, camera_ctrl, cameraVars, netVars
    <3>8. CASE OpenDecoder
      BY <3>8 DEF OpenDecoder, cameraVars, netVars
    <3>9. CASE OpenNet
      BY <3>9 DEF OpenNet, net_open_camera, cameraVars, resourceVars, netVars
    <3>10. CASE OpenFlags
      <4>1. odd' \in BOOLEAN
        BY <3>10, Zenon DEF OpenFlags
      <4> QED
        BY <3>10, <4>1 DEF OpenFlags, resourceVars, netVars
    <3>11. CASE Sync
      BY <3>11 DEF Sync, cameraVars, resourceVars, netVars
    <3> QED
      BY <2>3, <3>1, <3>2, <3>3, <3>4, <3>5, <3>6, <3>7, <3>8, <3>9, <3>10, <3>11
         DEF ClientStep
  <2>4. CASE MainStep
    <3>1. CASE MainTake
      BY <3>1 DEF MainTake, cameraVars, resourceVars, netVars
    <3>2. CASE MainNetClose
      BY <3>2 DEF MainNetClose, net_close_camera, cameraVars, resourceVars
    <3>3. CASE MainNetOpen
      BY <3>3 DEF MainNetOpen, net_open_camera, cameraVars, resourceVars, netVars
    <3>4. CASE MainResetAlg
      BY <3>4 DEF MainResetAlg, cameraVars, netVars
    <3>5. CASE MainDone
      BY <3>5 DEF MainDone, cameraVars, resourceVars, netVars
    <3> QED
      BY <2>4, <3>1, <3>2, <3>3, <3>4, <3>5 DEF MainStep
  <2>5. CASE DogStep
    BY <2>5 DEF DogStep, DogLooks, DogResets, DogMarks, camera_ctrl,
                cameraVars, resourceVars, netVars
  <2>6. ASSUME NEW h \in Channel, FrameArrives(h) \/ StreamDies(h) PROVE TypeOK'
    BY <2>6 DEF FrameArrives, StreamDies, cameraVars, resourceVars, netVars, threadVars
  <2>7. ASSUME NEW h \in Channel, FrameStep(h) PROVE TypeOK'
    <3>1. CASE FrameLocks(h)
      BY <3>1 DEF FrameLocks, cameraVars, resourceVars, netVars
    <3>2. CASE FrameDecodes(h)
      BY <3>2 DEF FrameDecodes, cameraVars, resourceVars, netVars
    <3>3. CASE FrameRunsAlg(h)
      BY <3>3 DEF FrameRunsAlg, cameraVars, resourceVars, netVars
    <3>4. CASE FrameResetsAlg(h)
      BY <3>4 DEF FrameResetsAlg, cameraVars, netVars
    <3>5. CASE FrameEnds(h)
      BY <3>5 DEF FrameEnds, cameraVars, resourceVars, netVars
    <3> QED
      BY <2>7, <3>1, <3>2, <3>3, <3>4, <3>5 DEF FrameStep
  <2>8. CASE CameraAppears \/ CameraVanishes
    <3>1. online' \in BOOLEAN
      BY <2>8, Zenon DEF CameraAppears, CameraVanishes
    <3> QED
      BY <2>8, <3>1 DEF CameraAppears, CameraVanishes, cameraVars, resourceVars, netVars,
                        threadVars
  <2>9. CASE UNCHANGED vars
    BY <2>9 DEF vars
  <2> QED
    BY <2>1, <2>2, <2>3, <2>4, <2>5, <2>6, <2>7, <2>8, <2>9 DEF Next
<1> QED
  BY <1>1, <1>2, PTL DEF Spec
-----------------------------------------------------------------------------
\* A step keeps what cmd_lock protects: its owner is the thread in the critical
\* section, and the slot holds the command that camera_main executes.
LEMMA SafetyStep == TypeOK /\ SafetyInv /\ [Next]_vars => SafetyInv'
<1> SUFFICES ASSUME TypeOK, SafetyInv, [Next]_vars PROVE SafetyInv'
  OBVIOUS
<1> USE ConstantAssumption
    DEF SafetyInv, LockOwner, SlotHoldsCommand, InFrame, TypeOK, MainPc, FramePc
<1>1. CASE SetCheckParam
  BY <1>1 DEF SetCheckParam, camera_ctrl, threadVars
<1>2. ASSUME NEW config \in Config, SetDetectDevice(config) PROVE SafetyInv'
  BY <1>2 DEF SetDetectDevice
<1>3. CASE ClientStep
  BY <1>3 DEF ClientStep, ChangeIp, ChangeStatus, CloseNet, CloseDecoder, CloseAlg,
              CloseFlags, camera_open, camera_ctrl, OpenDecoder, OpenNet, OpenFlags, Sync
<1>4. CASE MainStep
  <2>1. CASE MainTake
    BY <2>1 DEF MainTake, Command
  <2>2. CASE MainNetClose \/ MainNetOpen \/ MainResetAlg
    BY <2>2 DEF MainNetClose, MainNetOpen, MainResetAlg
  <2>3. CASE MainDone
    BY <2>3 DEF MainDone
  <2> QED
    BY <1>4, <2>1, <2>2, <2>3 DEF MainStep
<1>5. CASE DogStep
  BY <1>5 DEF DogStep, DogLooks, DogResets, DogMarks, camera_ctrl
<1>6. ASSUME NEW h \in Channel, FrameArrives(h) \/ StreamDies(h) PROVE SafetyInv'
  BY <1>6 DEF FrameArrives, StreamDies, threadVars
<1>7. ASSUME NEW h \in Channel, FrameStep(h) PROVE SafetyInv'
  BY <1>7 DEF FrameStep, FrameLocks, FrameDecodes, FrameRunsAlg, FrameResetsAlg, FrameEnds
<1>8. CASE CameraAppears \/ CameraVanishes
  BY <1>8 DEF CameraAppears, CameraVanishes, threadVars
<1>9. CASE UNCHANGED vars
  BY <1>9 DEF vars
<1> QED
  BY <1>1, <1>2, <1>3, <1>4, <1>5, <1>6, <1>7, <1>8, <1>9 DEF Next

\* cmd_lock is held by exactly the thread in its critical section, and nothing
\* posted by camera_ctrl replaces a command under execution.
THEOREM LockCorrect == Spec => []SafetyInv
<1>1. Init => SafetyInv
  BY ConstantAssumption DEF Init, SafetyInv, LockOwner, SlotHoldsCommand, InFrame
<1> QED
  BY <1>1, TypeCorrect, SafetyStep, PTL DEF Spec

\* One frame or one reset at a time works on decoder and algorithm (process_fun
\* and camera_main between lock and unlock).
THEOREM Exclusion == Spec => []OneAtATime
<1>1. SafetyInv => OneAtATime
  BY ConstantAssumption DEF SafetyInv, LockOwner, OneAtATime
<1> QED
  BY <1>1, LockCorrect, PTL

\* The command camera_main executes stays in the slot until it is done.
THEOREM CommandStays == Spec => []SlotHoldsCommand
BY LockCorrect, PTL DEF SafetyInv

-----------------------------------------------------------------------------
\* A step keeps what handle_change relies on.
LEMMA FlagsStep == TypeOK /\ ClientFlags /\ [Next]_vars => ClientFlags'
<1> SUFFICES ASSUME TypeOK, ClientFlags, [Next]_vars PROVE ClientFlags'
  OBVIOUS
<1> USE DEF ClientFlags, Opening, Closing
<1>1. CASE SetCheckParam
  BY <1>1 DEF SetCheckParam, cameraVars, threadVars
<1>2. ASSUME NEW config \in Config, SetDetectDevice(config) PROVE ClientFlags'
  BY <1>2 DEF SetDetectDevice, cameraVars
<1>3. CASE ClientStep
  <2>1. CASE ChangeIp
    BY <2>1 DEF ChangeIp, cameraVars
  <2>2. CASE ChangeStatus
    BY <2>2 DEF ChangeStatus, cameraVars, TypeOK, Config
  <2>3. CASE CloseNet("ip_close") \/ CloseNet("close")
    BY <2>3 DEF CloseNet, cameraVars
  <2>4. CASE CloseDecoder
    BY <2>4 DEF CloseDecoder, cameraVars
  <2>5. CASE CloseAlg
    BY <2>5 DEF CloseAlg, cameraVars
  <2>6. CASE CloseFlags
    BY <2>6 DEF CloseFlags, TypeOK, Config
  <2>7. CASE camera_open
    BY <2>7 DEF camera_open, cameraVars
  <2>8. CASE OpenDecoder
    BY <2>8 DEF OpenDecoder, cameraVars
  <2>9. CASE OpenNet
    BY <2>9 DEF OpenNet, cameraVars
  <2>10. CASE OpenFlags
    BY <2>10 DEF OpenFlags, TypeOK, Config
  <2>11. CASE Sync
    BY <2>11 DEF Sync, cameraVars
  <2> QED
    BY <1>3, <2>1, <2>2, <2>3, <2>4, <2>5, <2>6, <2>7, <2>8, <2>9, <2>10, <2>11
       DEF ClientStep
<1>4. CASE MainStep
  BY <1>4 DEF MainStep, MainTake, MainNetClose, MainNetOpen, MainResetAlg, MainDone,
              cameraVars
<1>5. CASE DogStep
  BY <1>5 DEF DogStep, DogLooks, DogResets, DogMarks, cameraVars
<1>6. ASSUME NEW h \in Channel, FrameArrives(h) \/ StreamDies(h) PROVE ClientFlags'
  BY <1>6 DEF FrameArrives, StreamDies, cameraVars, threadVars
<1>7. ASSUME NEW h \in Channel, FrameStep(h) PROVE ClientFlags'
  BY <1>7 DEF FrameStep, FrameLocks, FrameDecodes, FrameRunsAlg, FrameResetsAlg, FrameEnds,
              cameraVars
<1>8. CASE CameraAppears \/ CameraVanishes
  BY <1>8 DEF CameraAppears, CameraVanishes, cameraVars, threadVars
<1>9. CASE UNCHANGED vars
  BY <1>9 DEF vars
<1> QED
  BY <1>1, <1>2, <1>3, <1>4, <1>5, <1>6, <1>7, <1>8, <1>9 DEF Next

\* Between two commands of the client open_flg is what the configuration says,
\* and camera_open is never called for a camera that is open, unless a status
\* byte that is neither open nor closed came in between.
THEOREM Configured == Spec => []OpenAsConfigured
<1>1. Init => ClientFlags
  <2> SUFFICES ASSUME Init PROVE ClientFlags
    OBVIOUS
  <2>1. /\ request.camstatus = camstatus /\ open_flg = FALSE
        /\ odd = (camstatus \notin {"closed", "opened"})
        /\ client = IF camstatus = "opened" THEN "open" ELSE "idle"
    BY DEF Init
  <2> QED
    BY <2>1 DEF ClientFlags, Opening, Closing
<1>2. ClientFlags => OpenAsConfigured
  BY DEF ClientFlags, OpenAsConfigured
<1> QED
  BY <1>1, <1>2, TypeCorrect, FlagsStep, PTL DEF Spec
=============================================================================
