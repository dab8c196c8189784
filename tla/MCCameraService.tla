-------------------------- MODULE MCCameraService --------------------------
(* Small instances of CameraService for TLC, and what comments of the code *)
(* say that the code does not keep.                                        *)
EXTENDS CameraService, TLC

CONSTANTS ch1, ch2
MCSymmetry == Permutations({ch1, ch2})

\* A frame finds the decoder and the algorithm camera_open prepares before it
\* opens the stream.  (camera_close frees them under a running frame.)
FrameFindsResources ==
    \A h \in Channel :
        /\ frame[h] = "decode" => decoder
        /\ frame[h] = "run_alg" => alg
=============================================================================
