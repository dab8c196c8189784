-------------------------- MODULE VideoSourceProofs --------------------------
(***************************************************************************)
(* Safety of VideoSource for any buffers, any length of the queue and any  *)
(* number of frames.                                                       *)
(***************************************************************************)
EXTENDS VideoSource, TLAPS

-----------------------------------------------------------------------------
\* A step of the reader, the user or the stream keeps types.
LEMMA TypeStep == TypeOK /\ [Next]_vars => TypeOK'
<1> SUFFICES ASSUME TypeOK, [Next]_vars PROVE TypeOK'
  OBVIOUS
<1> USE ConstantAssumption DEF TypeOK
<1>1. CASE OpenCapture \/ ReadFails \/ StreamChanges
  BY <1>1 DEF OpenCapture, ReadFails, StreamChanges
<1>2. CASE Read
  BY <1>2 DEF Read
<1>3. CASE Push
  <2>1. frame \in Buffer
    BY <1>3 DEF Push
  <2>2. frame_list' \in Seq(Buffer) /\ Len(frame_list') <= Limit
    BY <1>3, <2>1 DEF Push
  <2> QED
    BY <1>3, <2>2 DEF Push
<1>4. CASE get_frame
  <2>1. Head(frame_list) \in Buffer /\ Tail(frame_list) \in Seq(Buffer)
        /\ Len(Tail(frame_list)) <= Limit
    BY <1>4 DEF get_frame
  <2> QED
    BY <1>4, <2>1 DEF get_frame
<1>5. CASE UNCHANGED vars
  BY <1>5 DEF vars
<1> QED
  BY <1>1, <1>2, <1>3, <1>4, <1>5 DEF Next, Run

\* Every reachable state is well typed; the queue never exceeds its limit.
THEOREM TypeCorrect == Spec => []TypeOK
<1>1. Init => TypeOK
  BY ConstantAssumption DEF Init, TypeOK
<1> QED
  BY <1>1, TypeStep, PTL DEF Spec

-----------------------------------------------------------------------------
\* The queue is in order and not ahead of the stream; the frame just read is
\* newer than all of it, in a buffer the queue does not have.
OrderInv ==
    /\ QueueInOrder
    /\ last <= made
    /\ \A i \in 1 .. Len(frame_list) : content[frame_list[i]] <= made
    /\ pc = "push" =>
         /\ content[frame] = made /\ last < made
         /\ \A i \in 1 .. Len(frame_list) : content[frame_list[i]] < made

LEMMA OrderStep == TypeOK /\ OrderInv /\ [Next]_vars => OrderInv'
<1> SUFFICES ASSUME TypeOK, OrderInv, [Next]_vars PROVE OrderInv'
  OBVIOUS
<1> USE DEF OrderInv, QueueInOrder
<1>t. /\ frame_list \in Seq(Buffer) /\ Len(frame_list) \in Nat /\ made \in Nat /\ last \in Nat
      /\ content \in [Buffer -> Nat] /\ \A i \in 1 .. Len(frame_list) : frame_list[i] \in Buffer
  BY ConstantAssumption DEF TypeOK
<1>1. CASE OpenCapture \/ ReadFails \/ StreamChanges
  BY <1>1 DEF OpenCapture, ReadFails, StreamChanges
<1>2. CASE Read
  <2>1. PICK b \in Buffer \ Queued : frame' = b /\ content' = [content EXCEPT ![b] = made + 1]
    BY <1>2 DEF Read
  <2>2. /\ made' = made + 1 /\ frame_list' = frame_list /\ last' = last
    BY <1>2 DEF Read
  <2>3. \A i \in 1 .. Len(frame_list) : content'[frame_list[i]] = content[frame_list[i]]
    BY <1>t, <2>1 DEF Queued
  <2>4. content'[frame'] = made'
    BY <1>t, <2>1, <2>2
  <2>5. \A i \in 1 .. Len(frame_list) :
          /\ content[frame_list[i]] \in Nat /\ content[frame_list[i]] <= made
          /\ content'[frame_list[i]] < made' /\ last' < content'[frame_list[i]]
    BY <1>t, <2>2, <2>3
  <2>6. QueueInOrder'
    BY <2>2, <2>3, <2>5
  <2>7. last' < made' /\ last' <= made'
    BY <1>t, <2>2
  <2>8. \A i \in 1 .. Len(frame_list) : content'[frame_list[i]] <= made'
    BY <1>t, <2>2, <2>3, <2>5
  <2> QED
    BY <2>2, <2>4, <2>5, <2>6, <2>7, <2>8
<1>3. CASE Push
  <2>1. /\ pc = "push" /\ pc' = "loop" /\ UNCHANGED <<content, made, last>>
        /\ frame_list' = frame_list \/ frame_list' = Append(frame_list, frame)
    BY <1>3 DEF Push
  <2>2. CASE frame_list' = frame_list
    BY <2>1, <2>2
  <2>3. CASE frame_list' = Append(frame_list, frame)
    <3>1. Len(frame_list') = Len(frame_list) + 1
      BY <1>t, <2>3
    <3>2. \A i \in 1 .. Len(frame_list') :
            \/ i \in 1 .. Len(frame_list) /\ frame_list'[i] = frame_list[i]
            \/ i = Len(frame_list) + 1 /\ frame_list'[i] = frame
      BY <1>t, <2>3, <3>1
    <3>3. QueueInOrder'
      <4>1. \A i, j \in 1 .. Len(frame_list') :
              i < j => content[frame_list'[i]] < content[frame_list'[j]]
        <5> SUFFICES ASSUME NEW i \in 1 .. Len(frame_list'), NEW j \in 1 .. Len(frame_list'),
                            i < j
                     PROVE  content[frame_list'[i]] < content[frame_list'[j]]
          OBVIOUS
        <5>1. i \in 1 .. Len(frame_list) /\ frame_list'[i] = frame_list[i]
          BY <1>t, <3>1, <3>2
        <5>2. CASE j \in 1 .. Len(frame_list) /\ frame_list'[j] = frame_list[j]
          BY <5>1, <5>2
        <5>3. CASE frame_list'[j] = frame
          BY <2>1, <5>1, <5>3
        <5> QED
          BY <3>2, <5>2, <5>3
      <4>2. \A i \in 1 .. Len(frame_list') : last < content[frame_list'[i]]
        BY <2>1, <3>2
      <4> QED
        BY <2>1, <4>1, <4>2
    <3>4. \A i \in 1 .. Len(frame_list') : content[frame_list'[i]] <= made
      BY <1>t, <2>1, <3>2
    <3> QED
      BY <2>1, <3>3, <3>4
  <2> QED
    BY <2>1, <2>2, <2>3
<1>4. CASE get_frame
  <2>1. /\ frame_list # <<>> /\ frame_list' = Tail(frame_list)
        /\ last' = content[frame_list[1]]
        /\ UNCHANGED <<pc, frame, content, made>>
    BY <1>t, <1>4 DEF get_frame
  <2>2. Len(frame_list) > 0 /\ Len(frame_list') = Len(frame_list) - 1
    BY <1>t, <2>1
  <2>3. \A i \in 1 .. Len(frame_list') :
          i + 1 \in 1 .. Len(frame_list) /\ frame_list'[i] = frame_list[i + 1]
    BY <1>t, <2>1, <2>2
  <2>4. 1 \in 1 .. Len(frame_list)
    BY <1>t, <2>2
  <2> QED
    BY <1>t, <2>1, <2>3, <2>4
<1>5. CASE UNCHANGED vars
  BY <1>5 DEF vars
<1> QED
  BY <1>1, <1>2, <1>3, <1>4, <1>5 DEF Next, Run

\* The user gets the frames in the order of the stream and none twice: no buffer
\* the queue refers to is written again.
THEOREM FramesInOrder == Spec => []QueueInOrder
<1>1. Init => OrderInv
  BY DEF Init, OrderInv, QueueInOrder
<1>2. OrderInv => QueueInOrder
  BY DEF OrderInv
<1> QED
  BY <1>1, <1>2, OrderStep, TypeCorrect, PTL DEF Spec
=============================================================================
