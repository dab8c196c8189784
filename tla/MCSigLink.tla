----------------------------- MODULE MCSigLink -----------------------------
(* Small instances of SigLink for TLC, and what the comment of             *)
(* sig_service.h says that the code does not keep.                         *)
EXTENDS SigLink

CONSTANTS s1, s2, s3, i0, i1, i2, p1, p2

\* Both threads are between two commands.
Quiet == thread = "sleep" /\ client = "idle"

\* A link that rests in SIG_CONNECTED reported its status to the machine that
\* is configured now.  (reset_sig_machine between the last report and
\* sig_set_state leaves SIG_CONNECTED without a socket.)
ConnectedToConfigured ==
    Quiet /\ sig_state = "SIG_CONNECTED" =>
        sig_fd \in Socket /\ link[sig_fd].peer = signal
=============================================================================
