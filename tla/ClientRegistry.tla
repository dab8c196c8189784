--------------------------- MODULE ClientRegistry ---------------------------
(***************************************************************************)
(* What the client list of the detector promises (fvd-new/client_net.c):   *)
(* a map from the address of a client to the camera it watches.  Clients   *)
(* visit one at a time.  A visit changes the entry of the visitor and of   *)
(* nobody else, and does not end before the visitor is in the map with the *)
(* camera it named; a goodbye then takes it out, unless it was that very   *)
(* visit that put it in.  ClientList implements this with a linked list, a *)
(* lock and sockets.                                                       *)
(***************************************************************************)
CONSTANTS Addr,    (* client addresses                                     *)
          Camera,  (* camera indexes                                       *)
          NULL     (* nobody is visiting                                   *)

VARIABLES clients, (* the camera each registered client watches            *)
          visit,   (* the visit being handled, or NULL                     *)
          joined   (* the visitor was not registered when it came          *)

vars == <<clients, visit, joined>>

Visit == [type : {"GETCAMPARAM", "HEART", "SHUTDOWN"}, ip : Addr, index : Camera]

Init ==
    /\ clients = [a \in {} |-> NULL]
    /\ visit = NULL
    /\ joined = FALSE

Arrive ==
    /\ visit = NULL
    /\ visit' \in Visit
    /\ UNCHANGED <<clients, joined>>

Join ==
    /\ visit # NULL
    /\ visit.ip \notin DOMAIN clients
    /\ clients' = [a \in DOMAIN clients \union {visit.ip} |->
                     IF a = visit.ip THEN visit.index ELSE clients[a]]
    /\ joined' = TRUE
    /\ UNCHANGED visit

Follow ==
    /\ visit # NULL
    /\ visit.ip \in DOMAIN clients
    /\ clients' = [clients EXCEPT ![visit.ip] = visit.index]
    /\ UNCHANGED <<visit, joined>>

Depart ==
    /\ visit # NULL
    /\ visit.ip \in DOMAIN clients
    /\ clients[visit.ip] = visit.index
    /\ clients' = IF visit.type = "SHUTDOWN" /\ ~joined
                  THEN [a \in DOMAIN clients \ {visit.ip} |-> clients[a]]
                  ELSE clients
    /\ visit' = NULL
    /\ joined' = FALSE

Next == Arrive \/ Join \/ Follow \/ Depart

Spec == Init /\ [][Next]_vars
=============================================================================
