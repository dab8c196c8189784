------------------------------ MODULE AlgSwitch ------------------------------
(***************************************************************************)
(* The choice between the day and the night algorithm of one camera:       *)
(* run_alg, reset_alg and open_alg of fvd-new/cam_alg.c as process_fun and *)
(* camera_main call them, what the detection library keeps of the time     *)
(* section and of its own vote (alg-mutilthread), and the results          *)
(* (static_info) that open_alg of ANY camera zeroes.                       *)
(*                                                                         *)
(* A frame and a reset of the same camera exclude each other; that is      *)
(* OneAtATime of CameraService, so one pc stands for both threads.         *)
(***************************************************************************)
EXTENDS Integers

CONSTANTS
    TICK_CHECK_POINT, (* frames between two looks at the clock             *)
    Day,              (* minutes of a day                                  *)
    timep,            (* begin of morning, daytime, dusk and night         *)
    MaxLane           (* lanes a camera can have                           *)

ASSUME ConstantAssumption ==
    /\ TICK_CHECK_POINT \in Nat /\ Day \in Nat \ {0} /\ MaxLane \in Nat
    /\ timep \in [0 .. 3 -> Int]

TIME_SECTION_NULL == 0
DUSK == 1
NIGHT == 2
MORNING == 3
DAYTIME == 4
ALG_NULL == 0
ALG_DAYTIME == 1
ALG_NIGHT == 2

Section == {DUSK, NIGHT, MORNING, DAYTIME}
Alg == {ALG_DAYTIME, ALG_NIGHT}
Lane == 0 .. MaxLane - 1

VARIABLES
    now,           \* the clock, in minutes
    time_section, alg_index, tick,
    algNum,        \* lanes of the configuration the library works with
    seg,           \* the library's copy of uEnvironment, uEnvironmentStatus
    bAuto,         \* the library's algorithm; outbuf shows it as thresholdValue
    info,          \* static_info: what each lane's result is from
    pc, k,         \* the thread inside the algorithm, and the lane it packs
    caller,        \* who called reset_alg
    switches       \* history: changes of alg_index in this time section

sectionVars == <<time_section, tick, seg, bAuto>>
vars == <<now, time_section, alg_index, tick, algNum, seg, bAuto, info, pc, k,
          caller, switches>>

-----------------------------------------------------------------------------
(* run_alg.                                                                *)

\* The section of a minute; every other time is night.
SectionAt(value) ==
    CASE value >= timep[0] /\ value < timep[1] -> MORNING
      [] value >= timep[1] /\ value < timep[2] -> DAYTIME
      [] value >= timep[2] /\ value < timep[3] -> DUSK
      [] OTHER -> NIGHT

\* time_section_changed, and transform_arg_ctrl_DSP_VC if it did: the library
\* takes both values again from seg, which only its initialisation writes.
TakeSection(s) ==
    /\ time_section' = s
    /\ bAuto' = IF s # time_section THEN seg.alg ELSE bAuto
    /\ switches' = IF s # time_section THEN 0 ELSE switches

\* Mutant: tick is not set back after the look at the clock.
FrameArrives_KeepTick ==
    /\ pc = "idle"
    /\ tick' = tick + 1
    /\ IF tick = TICK_CHECK_POINT
       THEN TakeSection(SectionAt(now))
       ELSE UNCHANGED <<time_section, bAuto, switches>>
    /\ info' = [l \in Lane |-> IF info[l] = "this" THEN "old" ELSE info[l]]
    /\ pc' = "process"
    /\ UNCHANGED <<now, alg_index, algNum, seg, k, caller>>

\* A frame: every 251st looks at the clock.
FrameArrives ==
    /\ pc = "idle"
    /\ IF tick = TICK_CHECK_POINT
       THEN tick' = 0 /\ TakeSection(SectionAt(now))
       ELSE tick' = tick + 1 /\ UNCHANGED <<time_section, bAuto, switches>>
    /\ info' = [l \in Lane |-> IF info[l] = "this" THEN "old" ELSE info[l]]
    /\ pc' = "process"
    /\ UNCHANGED <<now, alg_index, algNum, seg, k, caller>>

\* Mutant: the library may vote in both directions.
Votes_Both(section, auto) ==
    CASE section \in {DUSK, MORNING} -> Alg
      [] section = NIGHT -> {ALG_NIGHT}
      [] section = DAYTIME -> {ALG_DAYTIME}

\* What one frame of the library may make of bAuto: with a lane to look at, it
\* may vote for the night at dusk and for the day in the morning.
Votes(section, auto) ==
    CASE section = DUSK /\ auto = ALG_DAYTIME /\ algNum > 0 -> Alg
      [] section = MORNING /\ auto = ALG_NIGHT /\ algNum > 0 -> Alg
      [] section = NIGHT -> {ALG_NIGHT}
      [] section = DAYTIME -> {ALG_DAYTIME}
      [] OTHER -> {auto}

AlgProcessFrameData ==
    /\ pc = "process"
    /\ bAuto' \in Votes(seg.section, bAuto)
    /\ pc' = "pack" /\ k' = 0
    /\ UNCHANGED <<now, time_section, alg_index, tick, algNum, seg, info, caller,
                   switches>>

\* pack_realtime_data writes the results of algNum lanes, without a lock.
pack_realtime_data ==
    /\ pc = "pack" /\ k < algNum
    /\ info' = [info EXCEPT ![k] = "this"]
    /\ k' = k + 1
    /\ UNCHANGED <<now, sectionVars, alg_index, algNum, pc, caller, switches>>

Advises == time_section \in {DUSK, MORNING} /\ bAuto # alg_index

\* Mutant: the change back to the day is missing.
Forces_NotDay == time_section = NIGHT /\ alg_index = ALG_DAYTIME

Forces ==
    \/ time_section = NIGHT /\ alg_index = ALG_DAYTIME
    \/ time_section = DAYTIME /\ alg_index = ALG_NIGHT

\* Mutant: in day and night the new index waits for the next reset.
Change_NoReset ==
    /\ pc = "pack" /\ k = algNum
    /\ Advises \/ Forces
    /\ alg_index' = IF Advises THEN bAuto ELSE 3 - alg_index
    /\ switches' = switches + 1
    /\ pc' = IF Advises THEN "init" ELSE "output"
    /\ caller' = "frame"
    /\ UNCHANGED <<now, sectionVars, algNum, info, k>>

\* In a transition the library's advice is taken, in day and night the section
\* decides; a change makes process_fun reset the algorithm.
Change ==
    /\ pc = "pack" /\ k = algNum
    /\ Advises \/ Forces
    /\ alg_index' = IF Advises THEN bAuto ELSE 3 - alg_index
    /\ switches' = switches + 1
    /\ pc' = "init" /\ caller' = "frame"
    /\ UNCHANGED <<now, sectionVars, algNum, info, k>>

Keep ==
    /\ pc = "pack" /\ k = algNum
    /\ ~Advises /\ ~Forces
    /\ pc' = "output"
    /\ UNCHANGED <<now, sectionVars, alg_index, algNum, info, k, caller, switches>>

-----------------------------------------------------------------------------
(* reset_alg and open_alg.                                                 *)

\* RESET or RESET_ALG in camera_main.
ResetCommand ==
    /\ pc = "idle"
    /\ pc' = "init" /\ caller' = "main"
    /\ UNCHANGED <<now, sectionVars, alg_index, algNum, info, k, switches>>

\* init_alg_dsp and the library's initialisation, from the configuration with n
\* lanes.
init_alg_dsp(n) ==
    LET a == IF alg_index = ALG_NULL THEN ALG_DAYTIME ELSE alg_index
        s == IF time_section = TIME_SECTION_NULL THEN DUSK ELSE time_section
    IN  /\ pc = "init"
        /\ alg_index' = a /\ time_section' = s
        /\ tick' = 0
        /\ seg' = [alg |-> a, section |-> s] /\ bAuto' = a
        /\ algNum' = n
        /\ pc' = "wipe"
        /\ UNCHANGED <<now, info, k, caller, switches>>

\* Mutant: only the lanes in use are zeroed.
Wiped_InUse == [l \in Lane |-> IF l < algNum THEN "zero" ELSE info[l]]

Wiped == [l \in Lane |-> "zero"]

\* open_alg zeroes the results of all cameras.
open_alg ==
    /\ pc = "wipe"
    /\ info' = Wiped
    /\ pc' = IF caller = "frame" THEN "output" ELSE "idle"
    /\ UNCHANGED <<now, sectionVars, alg_index, algNum, k, caller, switches>>

\* The same by the threads of another camera, or when the client opens one.
OpenElsewhere ==
    /\ info' = [l \in Lane |-> "zero"]
    /\ UNCHANGED <<now, sectionVars, alg_index, algNum, pc, k, caller, switches>>

\* client_output sends info to the clients of the camera.
client_output ==
    /\ pc = "output"
    /\ pc' = "idle"
    /\ UNCHANGED <<now, sectionVars, alg_index, algNum, info, k, caller, switches>>

ClockTicks ==
    /\ now' = (now + 1) % Day
    /\ UNCHANGED <<sectionVars, alg_index, algNum, info, pc, k, caller, switches>>

\* init_alg has run; camera_open is about to call open_alg.
Init ==
    /\ now \in 0 .. Day - 1
    /\ time_section = TIME_SECTION_NULL /\ alg_index = ALG_NULL
    /\ tick = 0 /\ algNum = 0
    /\ seg = [alg |-> ALG_NULL, section |-> TIME_SECTION_NULL] /\ bAuto = ALG_NULL
    /\ info = [l \in Lane |-> "zero"]
    /\ pc = "init" /\ k = 0 /\ caller = "main"
    /\ switches = 0

Frame ==
    FrameArrives \/ AlgProcessFrameData \/ pack_realtime_data \/ Change \/ Keep
        \/ client_output

Reset == (\E n \in 0 .. MaxLane : init_alg_dsp(n)) \/ open_alg

Next == Frame \/ Reset \/ ResetCommand \/ OpenElsewhere \/ ClockTicks

Spec == Init /\ [][Next]_vars

\* The stream of an open camera goes on (Reconnects of CameraService), and the
\* threads that have begun a reset finish it.
FairSpec == Spec /\ WF_vars(Frame) /\ WF_vars(Reset)

-----------------------------------------------------------------------------
(* Properties.                                                             *)

\* The variables keep their types; tick does not run past TICK_CHECK_POINT, or run_alg
\* would never look at the clock again.
TypeOK ==
    /\ now \in 0 .. Day - 1
    /\ time_section \in Section \union {TIME_SECTION_NULL}
    /\ alg_index \in Alg \union {ALG_NULL}
    /\ tick \in 0 .. TICK_CHECK_POINT
    /\ algNum \in 0 .. MaxLane
    /\ seg \in [alg : Alg \union {ALG_NULL}, section : Section \union {TIME_SECTION_NULL}]
    /\ bAuto \in Alg \union {ALG_NULL}
    /\ info \in [Lane -> {"zero", "this", "old"}]
    /\ pc \in {"idle", "process", "pack", "init", "wipe", "output"}
    /\ k \in 0 .. MaxLane
    /\ caller \in {"frame", "main"}
    /\ switches \in Nat

\* Whenever a frame is done the library works with the parameters of the
\* algorithm the program has chosen and reports to the signal machine, although
\* three places change it and only an initialisation hands it over.
AlgIsInitialised == pc = "idle" => seg.alg = alg_index

\* What a client is sent was computed from this frame, or is zero (wiped by a
\* reset of this or another camera); in particular no result remains of a lane
\* that the configuration no longer has.
OutputIsThisFrame ==
    pc = "output" =>
        \A l \in Lane : info[l] # "old" /\ (info[l] = "this" => l < algNum)

\* A time section sees at most two changes of the algorithm, however often the
\* library votes and whatever the resets do: the advice does not oscillate.
NoOscillation == switches <= 2

\* When the clock stays in the night or in the day and camera_main is not told to
\* reset for ever, which would hold tick below TICK_CHECK_POINT, the camera ends
\* with the algorithm of that section.
AlgFollowsTime ==
    <>[][~ResetCommand]_vars =>
        /\ <>[](SectionAt(now) = NIGHT) => <>[](alg_index = ALG_NIGHT)
        /\ <>[](SectionAt(now) = DAYTIME) => <>[](alg_index = ALG_DAYTIME)
=============================================================================
