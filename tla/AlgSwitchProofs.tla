--------------------------- MODULE AlgSwitchProofs ---------------------------
(***************************************************************************)
(* Safety of AlgSwitch for any interval between two looks at the clock, any*)
(* times of the sections and any number of lanes.                          *)
(***************************************************************************)
EXTENDS AlgSwitch, TLAPS

-----------------------------------------------------------------------------
LEMMA SectionType == \A value \in Int : SectionAt(value) \in Section
  BY DEF SectionAt, Section

LEMMA VotesType ==
    ASSUME NEW section, NEW auto \in Alg \union {ALG_NULL}
    PROVE  Votes(section, auto) \subseteq Alg \union {ALG_NULL}
  BY DEF Votes, Alg

\* A step of the stream thread, of a reset or of the clock keeps types.
LEMMA TypeStep == TypeOK /\ [Next]_vars => TypeOK'
<1> SUFFICES ASSUME TypeOK, [Next]_vars PROVE TypeOK'
  OBVIOUS
<1> USE ConstantAssumption DEF TypeOK, sectionVars
<1>1. CASE FrameArrives
  <2>1. SectionAt(now) \in Section
    BY SectionType
  <2>2. tick' \in 0 .. TICK_CHECK_POINT
    BY <1>1 DEF FrameArrives
  <2>3. time_section' \in Section \union {TIME_SECTION_NULL} /\ switches' \in Nat
        /\ bAuto' \in Alg \union {ALG_NULL}
    BY <1>1, <2>1 DEF FrameArrives, TakeSection
  <2>4. info' \in [Lane -> {"zero", "this", "old"}]
    BY <1>1 DEF FrameArrives
  <2> QED
    BY <1>1, <2>2, <2>3, <2>4 DEF FrameArrives
<1>2. CASE AlgProcessFrameData
  BY <1>2, VotesType DEF AlgProcessFrameData
<1>3. CASE pack_realtime_data
  <2>1. k + 1 \in 0 .. MaxLane
    BY <1>3 DEF pack_realtime_data
  <2>2. info' \in [Lane -> {"zero", "this", "old"}]
    BY <1>3 DEF pack_realtime_data
  <2> QED
    BY <1>3, <2>1, <2>2 DEF pack_realtime_data
<1>4. CASE Change
  <2>1. alg_index' \in Alg \union {ALG_NULL}
    BY <1>4 DEF Change, Forces, Advises, Alg, ALG_DAYTIME, ALG_NIGHT, ALG_NULL
  <2> QED
    BY <1>4, <2>1 DEF Change
<1>5. CASE Keep \/ client_output \/ ResetCommand
  BY <1>5 DEF Keep, client_output, ResetCommand
<1>6. ASSUME NEW n \in 0 .. MaxLane, init_alg_dsp(n) PROVE TypeOK'
  BY <1>6 DEF init_alg_dsp, Alg, Section
<1>7. CASE open_alg \/ OpenElsewhere
  BY <1>7 DEF open_alg, OpenElsewhere, Wiped
<1>8. CASE ClockTicks
  BY <1>8 DEF ClockTicks
<1>9. CASE UNCHANGED vars
  BY <1>9 DEF vars
<1> QED
  BY <1>1, <1>2, <1>3, <1>4, <1>5, <1>6, <1>7, <1>8, <1>9 DEF Next, Frame, Reset

\* Every reachable state is well typed; tick stays within its interval.
THEOREM TypeCorrect == Spec => []TypeOK
<1>1. Init => TypeOK
  BY ConstantAssumption DEF Init, TypeOK
<1> QED
  BY <1>1, TypeStep, PTL DEF Spec

-----------------------------------------------------------------------------
\* Outside a reset the library has the chosen algorithm, and both are known.
AlgInv ==
    pc # "init" => seg.alg = alg_index /\ alg_index \in Alg /\ time_section \in Section

LEMMA AlgStep == TypeOK /\ AlgInv /\ [Next]_vars => AlgInv'
<1> SUFFICES ASSUME TypeOK, AlgInv, [Next]_vars PROVE AlgInv'
  OBVIOUS
<1> USE DEF AlgInv, sectionVars
<1>1. CASE FrameArrives
  <2>1. SectionAt(now) \in Section
    BY SectionType DEF TypeOK
  <2> QED
    BY <1>1, <2>1 DEF FrameArrives, TakeSection
<1>2. CASE AlgProcessFrameData \/ pack_realtime_data \/ Keep \/ client_output
  BY <1>2 DEF AlgProcessFrameData, pack_realtime_data, Keep, client_output
<1>3. CASE Change \/ ResetCommand
  BY <1>3 DEF Change, ResetCommand
<1>4. ASSUME NEW n \in 0 .. MaxLane, init_alg_dsp(n) PROVE AlgInv'
  BY <1>4 DEF init_alg_dsp, TypeOK, Alg, Section
<1>5. CASE open_alg \/ OpenElsewhere \/ ClockTicks
  BY <1>5 DEF open_alg, OpenElsewhere, ClockTicks
<1>6. CASE UNCHANGED vars
  BY <1>6 DEF vars
<1> QED
  BY <1>1, <1>2, <1>3, <1>4, <1>5, <1>6 DEF Next, Frame, Reset

LEMMA AlgAlways == Spec => []AlgInv
<1>1. Init => AlgInv
  BY DEF Init, AlgInv
<1> QED
  BY <1>1, AlgStep, TypeCorrect, PTL DEF Spec

\* Between two frames the library works with the chosen algorithm.
THEOREM AlgorithmInitialised == Spec => []AlgIsInitialised
<1>1. AlgInv => AlgIsInitialised
  BY DEF AlgInv, AlgIsInitialised
<1> QED
  BY <1>1, AlgAlways, PTL

-----------------------------------------------------------------------------
\* Only lanes of the present configuration have results; while a frame is packed
\* those below k are of this frame or wiped, the others are not of this frame.
ResultInv ==
    /\ pc \in {"idle", "process", "pack", "output"} =>
         \A l \in Lane : info[l] # "zero" => l < algNum
    /\ pc = "process" => \A l \in Lane : info[l] # "this"
    /\ pc = "pack" => k <= algNum /\ \A l \in Lane : l < k => info[l] # "old"
    /\ pc = "output" => \A l \in Lane : info[l] # "old"

LEMMA ResultStep == TypeOK /\ ResultInv /\ [Next]_vars => ResultInv'
<1> SUFFICES ASSUME TypeOK, ResultInv, [Next]_vars PROVE ResultInv'
  OBVIOUS
<1> USE DEF ResultInv, sectionVars
<1>t. /\ info \in [Lane -> {"zero", "this", "old"}] /\ k \in Nat /\ algNum \in Nat
      /\ algNum <= MaxLane /\ MaxLane \in Nat
  BY ConstantAssumption DEF TypeOK
<1>1. CASE FrameArrives
  BY <1>1, <1>t DEF FrameArrives
<1>2. CASE AlgProcessFrameData
  BY <1>2, <1>t DEF AlgProcessFrameData, Lane
<1>3. CASE pack_realtime_data
  <2>1. k \in Lane /\ pc = "pack" /\ k < algNum /\ k' = k + 1 /\ UNCHANGED <<pc, algNum>>
    BY <1>3, <1>t DEF pack_realtime_data, Lane
  <2>2. \A l \in Lane : info'[l] = IF l = k THEN "this" ELSE info[l]
    BY <1>3, <1>t DEF pack_realtime_data
  <2>3. \A l \in Lane : l < k + 1 => l < k \/ l = k
    BY <1>t DEF Lane
  <2> QED
    BY <1>t, <2>1, <2>2, <2>3
<1>4. CASE Change \/ ResetCommand
  BY <1>4 DEF Change, ResetCommand
<1>5. CASE Keep
  BY <1>5, <1>t DEF Keep, Lane
<1>6. CASE client_output \/ ClockTicks
  BY <1>6 DEF client_output, ClockTicks
<1>7. ASSUME NEW n \in 0 .. MaxLane, init_alg_dsp(n) PROVE ResultInv'
  BY <1>7 DEF init_alg_dsp
<1>8. CASE open_alg \/ OpenElsewhere
  BY <1>8, <1>t DEF open_alg, OpenElsewhere, Wiped
<1>9. CASE UNCHANGED vars
  BY <1>9 DEF vars
<1> QED
  BY <1>1, <1>2, <1>3, <1>4, <1>5, <1>6, <1>7, <1>8, <1>9 DEF Next, Frame, Reset

\* A client is sent results of this frame, or zeros, whenever open_alg of another
\* camera wipes them and whatever lanes the configuration loses.
THEOREM OutputCorrect == Spec => []OutputIsThisFrame
<1>1. Init => ResultInv
  BY DEF Init, ResultInv
<1>2. ResultInv => OutputIsThisFrame
  BY DEF ResultInv, OutputIsThisFrame
<1> QED
  BY <1>1, <1>2, ResultStep, TypeCorrect, PTL DEF Spec

-----------------------------------------------------------------------------
\* The algorithm a time section ends with.
Target == IF time_section \in {DUSK, NIGHT} THEN ALG_NIGHT ELSE ALG_DAYTIME

\* In a transition the first change may be wrong, made with the section the
\* library was initialised in; it initialises the library in the present one,
\* which votes only for the target.
SwitchInv ==
    /\ switches \in 0 .. 2
    /\ time_section = TIME_SECTION_NULL => switches = 0
    /\ time_section \in {NIGHT, DAYTIME} =>
         switches < 2 /\ (switches = 1 => alg_index = Target)
    /\ time_section \in {DUSK, MORNING} /\ pc # "init" =>
         /\ switches > 0 => seg.section = time_section
         /\ seg.section = time_section => bAuto \in {alg_index, Target}
    /\ switches = 2 => alg_index = Target

LEMMA SwitchStep == TypeOK /\ AlgInv /\ SwitchInv /\ [Next]_vars => SwitchInv'
<1> SUFFICES ASSUME TypeOK, AlgInv, SwitchInv, [Next]_vars PROVE SwitchInv'
  OBVIOUS
<1> USE DEF SwitchInv, sectionVars, Target, DUSK, NIGHT, MORNING, DAYTIME,
            TIME_SECTION_NULL, ALG_NULL, ALG_DAYTIME, ALG_NIGHT
<1>1. CASE FrameArrives
  <2>1. SectionAt(now) \in Section
    BY SectionType DEF TypeOK
  <2> QED
    BY <1>1, <2>1 DEF FrameArrives, TakeSection, AlgInv, Section
<1>2. CASE AlgProcessFrameData
  <2>1. Votes(DUSK, bAuto) \subseteq {bAuto, ALG_NIGHT}
    BY DEF Votes, Alg
  <2>2. Votes(MORNING, bAuto) \subseteq {bAuto, ALG_DAYTIME}
    BY DEF Votes, Alg
  <2>3. pc = "process" /\ pc' # "init" /\ bAuto' \in Votes(seg.section, bAuto)
        /\ UNCHANGED <<time_section, alg_index, seg, switches>>
    BY <1>2 DEF AlgProcessFrameData
  <2> QED
    BY <2>1, <2>2, <2>3
<1>3. CASE pack_realtime_data \/ Keep \/ client_output
  BY <1>3 DEF pack_realtime_data, Keep, client_output
<1>4. CASE Change
  BY <1>4 DEF Change, Forces, Advises, AlgInv, Alg, Section
<1>5. CASE ResetCommand
  BY <1>5 DEF ResetCommand
<1>6. ASSUME NEW n \in 0 .. MaxLane, init_alg_dsp(n) PROVE SwitchInv'
  <2>1. /\ alg_index' = IF alg_index = ALG_NULL THEN ALG_DAYTIME ELSE alg_index
        /\ time_section' = IF time_section = TIME_SECTION_NULL THEN DUSK ELSE time_section
        /\ seg'.section = time_section' /\ bAuto' = alg_index' /\ switches' = switches
    BY <1>6 DEF init_alg_dsp
  <2>2. time_section \in {0, 1, 2, 3, 4}
    BY DEF TypeOK, Section
  <2>3. CASE time_section = TIME_SECTION_NULL
    BY <2>1, <2>3
  <2>4. CASE time_section # TIME_SECTION_NULL
    <3>1. time_section' = time_section /\ Target' = Target
      BY <2>1, <2>4
    <3>2. alg_index = Target => alg_index' = Target
      BY <2>1
    <3> QED
      BY <2>1, <2>2, <3>1, <3>2
  <2> QED
    BY <2>3, <2>4
<1>7. CASE open_alg \/ OpenElsewhere \/ ClockTicks
  BY <1>7 DEF open_alg, OpenElsewhere, ClockTicks
<1>8. CASE UNCHANGED vars
  BY <1>8 DEF vars
<1> QED
  BY <1>1, <1>2, <1>3, <1>4, <1>5, <1>6, <1>7, <1>8 DEF Next, Frame, Reset

\* No time section sees more than two changes of the algorithm, whatever the
\* library votes and however often the camera is reset.
THEOREM SwitchesBounded == Spec => []NoOscillation
<1>1. Init => SwitchInv
  BY DEF Init, SwitchInv, TIME_SECTION_NULL, NIGHT, DAYTIME, DUSK, MORNING
<1>2. SwitchInv => NoOscillation
  BY DEF SwitchInv, NoOscillation
<1> QED
  BY <1>1, <1>2, SwitchStep, TypeCorrect, AlgAlways, PTL DEF Spec
=============================================================================
