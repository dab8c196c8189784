----------------------------- MODULE VideoSource -----------------------------
(***************************************************************************)
(* The frame source of Pvd (videosource.h, videosource.cpp): a thread that *)
(* reads a stream, opens it again when reading fails, and hands the frames *)
(* to its user through frame_list, a queue of at most three.               *)
(*                                                                         *)
(* A cv::Mat is a reference to a buffer.  push_back(frame) shares the      *)
(* buffer with the queue; vcap.read writes into the buffer frame refers to *)
(* unless frame was released, and then allocates one nobody refers to.     *)
(***************************************************************************)
EXTENDS Integers, Sequences

CONSTANTS
    Buffer,    (* memory for frames                                        *)
    Limit,     (* frames the queue holds                                   *)
    MaxFrame,  (* bound on the frames of the stream                        *)
    NULL

ASSUME ConstantAssumption == Limit \in Nat /\ MaxFrame \in Nat /\ NULL \notin Buffer

VARIABLES
    up,           \* the stream can be opened and read
    vcap,         \* "open" or "closed"
    pc,           \* the thread run
    frame,        \* the buffer run's Mat refers to, or NULL
    content,      \* the frame number in each buffer
    frame_list,   \* buffers
    made,         \* frames the stream has delivered
    last          \* history: the last frame get_frame returned

vars == <<up, vcap, pc, frame, content, frame_list, made, last>>

Queued == {frame_list[i] : i \in 1 .. Len(frame_list)}

-----------------------------------------------------------------------------
(* VideoSource::run.                                                       *)

\* Mutant: the capture is opened only once.
OpenCapture_Once ==
    /\ pc = "start"
    /\ vcap' = IF up THEN "open" ELSE "closed"
    /\ pc' = "loop"
    /\ UNCHANGED <<up, frame, content, frame_list, made, last>>

\* VideoCapture(url), when run starts and in the branch of a capture that is not
\* open; how long it sleeps before is left out.
OpenCapture ==
    /\ pc \in {"start", "loop"} /\ vcap = "closed"
    /\ vcap' = IF up THEN "open" ELSE "closed"
    /\ pc' = "loop"
    /\ UNCHANGED <<up, frame, content, frame_list, made, last>>

\* Mutant: without frame.release() read reuses the buffer frame refers to.
Read_NoRelease ==
    /\ pc = "loop" /\ vcap = "open" /\ up /\ made < MaxFrame
    /\ \E b \in Buffer :
        /\ IF frame # NULL THEN b = frame ELSE b \notin Queued
        /\ frame' = b
        /\ content' = [content EXCEPT ![b] = made + 1]
    /\ made' = made + 1
    /\ pc' = "push"
    /\ UNCHANGED <<up, vcap, frame_list, last>>

\* frame.release() and vcap.read(frame).
Read ==
    /\ pc = "loop" /\ vcap = "open" /\ up /\ made < MaxFrame
    /\ \E b \in Buffer \ Queued :
        /\ frame' = b
        /\ content' = [content EXCEPT ![b] = made + 1]
    /\ made' = made + 1
    /\ pc' = "push"
    /\ UNCHANGED <<up, vcap, frame_list, last>>

\* read fails: the capture is opened again, and released because the frame is
\* empty; the next turn opens it.
ReadFails ==
    /\ pc = "loop" /\ vcap = "open" /\ ~up
    /\ frame' = NULL
    /\ vcap' = "closed"
    /\ UNCHANGED <<up, pc, content, frame_list, made, last>>

\* Mutant: one frame too many.
Push_LessEqual ==
    /\ pc = "push"
    /\ frame_list' = IF Len(frame_list) <= Limit THEN Append(frame_list, frame) ELSE frame_list
    /\ pc' = "loop"
    /\ UNCHANGED <<up, vcap, frame, content, made, last>>

\* Under lock; a frame that finds the queue full is dropped.
Push ==
    /\ pc = "push"
    /\ frame_list' = IF Len(frame_list) < Limit THEN Append(frame_list, frame) ELSE frame_list
    /\ pc' = "loop"
    /\ UNCHANGED <<up, vcap, frame, content, made, last>>

-----------------------------------------------------------------------------
(* The user, and the stream.                                               *)

\* get_frame copies and removes the front, under lock.  Without a frame it
\* returns false and changes nothing.
get_frame ==
    /\ frame_list # <<>>
    /\ last' = content[Head(frame_list)]
    /\ frame_list' = Tail(frame_list)
    /\ UNCHANGED <<up, vcap, pc, frame, content, made>>

\* External: the stream breaks, the stream comes back.
StreamChanges ==
    /\ up' = ~up
    /\ UNCHANGED <<vcap, pc, frame, content, frame_list, made, last>>

Init ==
    /\ up \in BOOLEAN
    /\ vcap = "closed" /\ pc = "start" /\ frame = NULL
    /\ content = [b \in Buffer |-> 0]
    /\ frame_list = <<>> /\ made = 0 /\ last = 0

Run == OpenCapture \/ Read \/ ReadFails \/ Push

Next == Run \/ get_frame \/ StreamChanges

Spec == Init /\ [][Next]_vars

\* The thread runs, and the user asks every ten milliseconds.
FairSpec == Spec /\ WF_vars(Run) /\ WF_vars(get_frame)

-----------------------------------------------------------------------------
(* Properties.                                                             *)

\* The variables keep their types; frame_list never holds more than run may queue.
TypeOK ==
    /\ up \in BOOLEAN /\ vcap \in {"open", "closed"} /\ pc \in {"start", "loop", "push"}
    /\ frame \in Buffer \union {NULL} /\ (pc = "push" => frame # NULL)
    /\ content \in [Buffer -> 0 .. MaxFrame]
    /\ frame_list \in Seq(Buffer) /\ Len(frame_list) <= Limit
    /\ made \in 0 .. MaxFrame /\ last \in 0 .. MaxFrame

\* The queue holds different frames, in the order of the stream, all newer than
\* what the user has seen, so that it gets no frame twice or out of order: no
\* buffer in the queue is written again.
QueueInOrder ==
    /\ \A i, j \in 1 .. Len(frame_list) :
        i < j => content[frame_list[i]] < content[frame_list[j]]
    /\ \A i \in 1 .. Len(frame_list) : last < content[frame_list[i]]

\* A stream that stays up is read to its end, and the user gets every frame that
\* was queued, however often it broke before.
Recovers == <>[]up => <>[](made = MaxFrame /\ frame_list = <<>>)
=============================================================================
