------------------------------ MODULE PvdServer ------------------------------
(***************************************************************************)
(* The command server of Pvd: Tcpserver and Session (Pvd/server.h), the    *)
(* framing of JSON objects on the byte stream (JsonStr of Pvd/tool.h), the *)
(* commands "set config" and "get config" (Pvd/app.h), the reader of their *)
(* JSON (Pvd/cppjson) and the file behind them (Pvd/configmanager.h).      *)
(* JsonTcpServer and SimpleTcpServer hold earlier copies of Session,       *)
(* Tcpserver and JsonStr.                                                  *)
(*                                                                         *)
(* The listening thread makes a Session, whose thread starts in the        *)
(* constructor, and only then sets the two callbacks and enters it in      *)
(* clients.  The sessions' threads share clients, str_stream and the file; *)
(* only the file has a lock.                                               *)
(***************************************************************************)
EXTENDS Integers, Sequences, FiniteSets

CONSTANTS
    Session,   (* connections that are ever made, numbered in their order  *)
    BUF_SIZE,  (* bytes one recv takes at most                             *)
    MaxSend,   (* bound on the commands sent                               *)
    NULL

ASSUME ConstantAssumption ==
    /\ Session \subseteq Nat /\ NULL \notin Session
    /\ BUF_SIZE \in Nat \ {0} /\ MaxSend \in Nat

\* Text, by what JsonStr looks at: an opening brace, the rest of an object up to its
\* closing brace (standing for the command in it) and a newline, with which a client
\* may end an object and for which try_get_obj_buf provides.
Command == {"set", "get"}
Char == {"open", "newline"} \union Command
Text == Seq(Char)
Object == [set |-> <<"open", "set", "newline">>, get |-> <<"open", "get">>]

Blank(t) == \A k \in 1 .. Len(t) : t[k] = "newline"

VARIABLES
    listener, cur,  \* the listening thread, and the session it is setting up
    life,           \* each Session object: none, live or freed
    thread,         \* the thread of each session
    has_end,        \* sessions whose end_this has been set
    has_process,    \* sessions whose process_data has been set
    clients, iter,  \* the vector of Tcpserver; what find has returned to quit_session
    deleting,       \* sessions a detached thread is deleting
    crashed,        \* the process has died
    wire,           \* bytes under way
    closed,         \* connections that have been closed or have failed
    str_stream,     \* App's buffer, shared by the sessions
    valid_buf,      \* what each session is processing
    lock,           \* FileDatabase::lock
    file, torn,     \* the file, and whether a load has met it empty
    \* History: commands of each client; texts of two commands may have met, see
    \* AppendData; before that, the commands each session has executed, and whose bytes
    \* were appended last.
    sent, mixed, executed, owner

sessionVars == <<life, has_end, has_process, clients, iter, deleting, crashed>>
textVars == <<str_stream, valid_buf, executed, owner>>
fileVars == <<lock, file, torn>>
clientVars == <<wire, closed, sent>>
vars == <<listener, cur, life, thread, has_end, has_process, clients, iter, deleting,
          crashed, wire, closed, str_stream, valid_buf, lock, file, torn,
          sent, executed, owner, mixed>>

-----------------------------------------------------------------------------
(* Tcpserver::listen.                                                      *)

\* WaitTcpConnect and new Session: the thread starts with default callbacks.
Accept(s) ==
    /\ listener = "wait" /\ life[s] = "none"
    /\ \A t \in Session : t < s => life[t] # "none"
    /\ listener' = "end_this" /\ cur' = s
    /\ life' = [life EXCEPT ![s] = "live"]
    /\ thread' = [thread EXCEPT ![s] = "recv"]
    /\ UNCHANGED <<has_end, has_process, clients, iter, deleting, crashed, textVars,
                   fileVars, clientVars, mixed>>

SetEndThis ==
    /\ listener = "end_this"
    /\ has_end' = has_end \union {cur}
    /\ listener' = "process_data"
    /\ UNCHANGED <<cur, life, thread, has_process, clients, iter, deleting, crashed,
                   textVars, fileVars, clientVars, mixed>>

SetProcessData ==
    /\ listener = "process_data"
    /\ has_process' = has_process \union {cur}
    /\ listener' = "push_back"
    /\ UNCHANGED <<cur, life, thread, has_end, clients, iter, deleting, crashed, textVars,
                   fileVars, clientVars, mixed>>

\* Mutant: the pointer is cleared before it is entered.
PushBack_Cleared ==
    /\ listener = "push_back"
    /\ clients' = Append(clients, NULL)
    /\ listener' = "wait" /\ cur' = NULL
    /\ UNCHANGED <<life, thread, has_end, has_process, iter, deleting, crashed, textVars,
                   fileVars, clientVars, mixed>>

\* push_back, which may move the vector: iterators into it are then worthless.
PushBack ==
    /\ listener = "push_back"
    /\ clients' = Append(clients, cur)
    /\ iter' = iter \/ iter' = [t \in Session |-> 0]
    /\ listener' = "wait" /\ cur' = NULL
    /\ UNCHANGED <<life, thread, has_end, has_process, deleting, crashed, textVars,
                   fileVars, clientVars, mixed>>

-----------------------------------------------------------------------------
(* Session::recv.                                                          *)

\* Mutant: the reading is tried again, as in the statements behind the break.
RecvEnd_Retry(s) ==
    /\ thread[s] = "recv" /\ wire[s] = <<>> /\ s \in closed
    /\ UNCHANGED vars

\* RecvDataByTcp1 returns 0, at the end of the stream or for an error of recv: the
\* loop is left.
RecvEnd(s) ==
    /\ thread[s] = "recv" /\ wire[s] = <<>> /\ s \in closed
    /\ thread' = [thread EXCEPT ![s] = "end"]
    /\ UNCHANGED <<listener, cur, sessionVars, textVars, fileVars, clientVars, mixed>>

\* recv returns some of the bytes, but process_data is not set yet: the default
\* callback drops them.
DropData(s, n) ==
    /\ thread[s] = "recv" /\ n <= Len(wire[s]) /\ s \notin has_process
    /\ wire' = [wire EXCEPT ![s] = SubSeq(@, n + 1, Len(@))]
    /\ mixed' = TRUE
    /\ UNCHANGED <<listener, cur, thread, sessionVars, textVars, fileVars, closed, sent>>

\* Before end_this is set the default callback does nothing: the session stays.
EndSilently(s) ==
    /\ thread[s] = "end" /\ s \notin has_end
    /\ thread' = [thread EXCEPT ![s] = "return"]
    /\ UNCHANGED <<listener, cur, sessionVars, textVars, fileVars, clientVars, mixed>>

\* quit_session, first its find: the place of s in clients, or end().
find(s) ==
    /\ thread[s] = "end" /\ s \in has_end
    /\ \/ /\ \E i \in 1 .. Len(clients) :
              /\ clients[i] = s /\ \A j \in 1 .. i - 1 : clients[j] # s
              /\ iter' = [iter EXCEPT ![s] = i]
       \/ /\ \A i \in 1 .. Len(clients) : clients[i] # s
          /\ iter' = [iter EXCEPT ![s] = Len(clients) + 1]
    /\ thread' = [thread EXCEPT ![s] = "erase"]
    /\ UNCHANGED <<listener, cur, life, has_end, has_process, clients, deleting, crashed,
                   textVars, fileVars, clientVars, mixed>>

Without(q, i) == SubSeq(q, 1, i - 1) \o SubSeq(q, i + 1, Len(q))

\* Then erase takes out whatever is at that place now, and the deletion of s is
\* started.  erase(end()) and erase of a worthless iterator are undefined.
erase(s) ==
    /\ thread[s] = "erase"
    /\ IF iter[s] \in 1 .. Len(clients)
       THEN /\ clients' = Without(clients, iter[s])
            /\ deleting' = deleting \union {s}
            /\ UNCHANGED crashed
       ELSE crashed' = TRUE /\ UNCHANGED <<clients, deleting>>
    /\ iter' = [iter EXCEPT ![s] = 0]
    /\ thread' = [thread EXCEPT ![s] = "return"]
    /\ UNCHANGED <<listener, cur, life, has_end, has_process, textVars, fileVars, clientVars,
                   mixed>>

Return(s) ==
    /\ thread[s] = "return"
    /\ thread' = [thread EXCEPT ![s] = "done"]
    /\ UNCHANGED <<listener, cur, sessionVars, textVars, fileVars, clientVars, mixed>>

\* Mutant: the destructor does not join.
Delete_NoJoin(s) ==
    /\ s \in deleting
    /\ deleting' = deleting \ {s}
    /\ life' = [life EXCEPT ![s] = "freed"]
    /\ UNCHANGED <<listener, cur, thread, has_end, has_process, clients, iter, crashed,
                   textVars, fileVars, clientVars, mixed>>

\* The detached thread: ~Session joins the session's thread.
Delete(s) ==
    /\ s \in deleting /\ thread[s] = "done"
    /\ deleting' = deleting \ {s}
    /\ life' = [life EXCEPT ![s] = "freed"]
    /\ UNCHANGED <<listener, cur, thread, has_end, has_process, clients, iter, crashed,
                   textVars, fileVars, clientVars, mixed>>

-----------------------------------------------------------------------------
(* App::process_data.                                                      *)

\* Bytes of C among the first i of t.
Count(t, i, C) == Cardinality({j \in 1 .. i : t[j] \in C})

\* Mutant: the depth is tested without flg.
ObjectEnds_NoFlag(t) == {i \in 1 .. Len(t) : Count(t, i, {"open"}) = Count(t, i, Command)}

\* Where try_get_obj_buf can stop: an opening brace seen, and the depth zero.
ObjectEnds(t) ==
    {i \in 1 .. Len(t) : Count(t, i, {"open"}) > 0 /\ Count(t, i, {"open"}) = Count(t, i, Command)}

\* Reader::parse takes the first value of a text, between white space, and ignores
\* the rest: the command in it, or NULL.
Parse(text) ==
    LET Token(n, c) == \E i \in 1 .. Len(text) :
                          text[i] = c /\ Count(text, i, Char \ {"newline"}) = n
    IN  IF \E c \in Command : Token(1, "open") /\ Token(2, c)
        THEN CHOOSE c \in Command : Token(2, c)
        ELSE NULL

\* Inside process_data, after the append.
Processing == {"scan", "cut", "execute", "save", "write", "load", "length", "reply"}

\* recv returns some of the bytes, which until then only this thread sees, and
\* process_data appends them to str_stream.  mixed notes that the texts of two
\* commands may have met: another session is inside process_data, or has brought a
\* part of an object.
AppendData(s, n) ==
    /\ thread[s] = "recv" /\ n <= Len(wire[s]) /\ s \in has_process
    /\ str_stream' = str_stream \o SubSeq(wire[s], 1, n)
    /\ wire' = [wire EXCEPT ![s] = SubSeq(@, n + 1, Len(@))]
    /\ thread' = [thread EXCEPT ![s] = "scan"]
    /\ mixed' = (\/ mixed
                 \/ owner # s /\ ~ Blank(str_stream)
                 \/ \E t \in Session \ {s} : thread[t] \in Processing)
    /\ owner' = IF mixed' THEN NULL ELSE s
    /\ UNCHANGED <<listener, cur, sessionVars, valid_buf, executed, fileVars, closed, sent>>

\* try_get_obj_buf: once an object is complete, dst is the whole of src (the result
\* of substr is not used).
try_get_obj_buf(s) ==
    /\ thread[s] = "scan"
    /\ IF ObjectEnds(str_stream) # {}
       THEN /\ valid_buf' = [valid_buf EXCEPT ![s] = str_stream]
            /\ thread' = [thread EXCEPT ![s] = "cut"]
       ELSE /\ thread' = [thread EXCEPT ![s] = "recv"]
            /\ UNCHANGED valid_buf
    /\ UNCHANGED <<listener, cur, sessionVars, str_stream, executed, owner, fileVars,
                   clientVars, mixed>>

\* get_valid_buf then cuts as many bytes off src; substr throws behind the end.
get_valid_buf(s) ==
    LET n == Len(valid_buf[s])
    IN  /\ thread[s] = "cut"
        /\ IF n <= Len(str_stream)
           THEN /\ str_stream' = SubSeq(str_stream, n + 1, Len(str_stream))
                /\ UNCHANGED crashed
           ELSE crashed' = TRUE /\ UNCHANGED str_stream
        /\ thread' = [thread EXCEPT ![s] = "execute"]
        /\ UNCHANGED <<listener, cur, life, has_end, has_process, clients, iter, deleting,
                       valid_buf, executed, owner, fileVars, clientVars, mixed>>

\* The command is looked at; anything else is ignored.
Execute(s) ==
    LET cmd == Parse(valid_buf[s])
        next == CASE cmd = "set" -> "save" [] cmd = "get" -> "load" [] OTHER -> "scan"
    IN  /\ thread[s] = "execute"
        /\ executed' = IF mixed THEN executed ELSE [executed EXCEPT ![s] = Append(@, cmd)]
        /\ valid_buf' = [valid_buf EXCEPT ![s] = <<>>]
        /\ thread' = [thread EXCEPT ![s] = next]
        /\ UNCHANGED <<listener, cur, sessionVars, str_stream, owner, fileVars,
                       clientVars, mixed>>

\* get_string throws where the root is no object, or its "cmd" or "data" is one (a
\* client may send that, and texts that have met may read so): nothing in the
\* session's thread catches it.
Throw(s) ==
    /\ thread[s] = "execute"
    /\ crashed' = TRUE
    /\ UNCHANGED <<listener, cur, thread, life, has_end, has_process, clients, iter, deleting,
                   textVars, fileVars, clientVars, mixed>>

\* Mutant: save does not take the lock.
save_NoLock(s) ==
    /\ thread[s] = "save"
    /\ file' = "empty"
    /\ thread' = [thread EXCEPT ![s] = "write"]
    /\ UNCHANGED <<listener, cur, sessionVars, textVars, lock, torn, clientVars,
                   mixed>>

\* FileDatabase::save: lock, and fopen "wb" empties the file;
save(s) ==
    /\ thread[s] = "save" /\ lock = NULL
    /\ lock' = s
    /\ file' = "empty"
    /\ thread' = [thread EXCEPT ![s] = "write"]
    /\ UNCHANGED <<listener, cur, sessionVars, textVars, torn, clientVars, mixed>>

\* then fwrite, fclose and unlock.
save_file(s) ==
    /\ thread[s] = "write"
    /\ file' = "whole" /\ lock' = NULL
    /\ thread' = [thread EXCEPT ![s] = "scan"]
    /\ UNCHANGED <<listener, cur, sessionVars, textVars, torn, clientVars, mixed>>

\* fopen fails (no descriptor of a connection is ever closed): fwrite gets NULL.
OpenFails(s) ==
    /\ thread[s] = "save" /\ lock = NULL
    /\ crashed' = TRUE
    /\ UNCHANGED <<listener, cur, thread, life, has_end, has_process, clients, iter, deleting,
                   textVars, fileVars, clientVars, mixed>>

\* get_config is called twice, for the data and for the length of the reply.
\* Where fopen fails load_file returns nothing.
load(s) ==
    /\ thread[s] \in {"load", "length"} /\ lock = NULL
    /\ torn' = torn \/ torn' = (torn \/ file = "empty")
    /\ thread' = [thread EXCEPT ![s] = IF @ = "load" THEN "length" ELSE "reply"]
    /\ UNCHANGED <<listener, cur, sessionVars, textVars, lock, file, clientVars, mixed>>

\* Session::send.  SIGPIPE is not ignored: when the client is gone the process
\* may die of it.
Reply(s) ==
    /\ thread[s] = "reply"
    /\ thread' = [thread EXCEPT ![s] = "scan"]
    /\ (crashed' = FALSE \/ (s \in closed /\ crashed' = TRUE))
    /\ UNCHANGED <<listener, cur, life, has_end, has_process, clients, iter, deleting,
                   textVars, fileVars, clientVars, mixed>>

\* Threads about to use str_stream, and threads about to use clients.
AtStream(s) == 
    \/ thread[s] \in {"scan", "cut"}
    \/ thread[s] = "recv" /\ wire[s] # <<>> /\ s \in has_process
AtClients(s) == thread[s] = "erase" \/ (thread[s] = "end" /\ s \in has_end)

\* Neither has a lock.  Two threads in one of them at once, one of them writing, is
\* undefined: apart from the orders of their steps, the process may die.
Race ==
    /\ \E s \in Session :
         \/ \E t \in Session \ {s} : /\ AtStream(s) /\ AtStream(t)
                                     /\ thread[s] # "scan"
         \/ AtClients(s) /\ (\/ listener = "push_back"
                             \/ \E t \in Session \ {s} : AtClients(t) /\ thread[s] = "erase")
    /\ crashed' = TRUE
    /\ UNCHANGED <<listener, cur, thread, life, has_end, has_process, clients, iter, deleting,
                   textVars, fileVars, clientVars, mixed>>

-----------------------------------------------------------------------------
(* The clients.                                                            *)

\* External: a client sends a command, at any time after it has connected.  mixed
\* notes one that is sent before the client's last one was executed.
Send(s, cmd) ==
    /\ life[s] = "live" /\ s \notin closed
    /\ Cardinality(UNION {{t} \X DOMAIN sent[t] : t \in Session}) < MaxSend
    /\ wire' = [wire EXCEPT ![s] = @ \o Object[cmd]]
    /\ sent' = [sent EXCEPT ![s] = Append(@, cmd)]
    /\ mixed' = (mixed \/ executed[s] # sent[s])
    /\ UNCHANGED <<listener, cur, thread, sessionVars, textVars, fileVars, closed>>

\* External: the client closes its connection; what it has sent still arrives.
Close(s) ==
    /\ life[s] = "live" /\ s \notin closed
    /\ closed' = closed \union {s}
    /\ UNCHANGED <<listener, cur, thread, sessionVars, textVars, fileVars, wire, sent,
                   mixed>>

\* External: the connection fails, and TCP reports it: the bytes not delivered yet
\* are lost.  The last command, when it is not whole, counts as not sent.
Break(s) ==
    /\ life[s] = "live" /\ s \notin closed
    /\ closed' = closed \union {s}
    /\ wire' = [wire EXCEPT ![s] = <<>>]
    /\ sent' = IF Blank(wire[s]) THEN sent
               ELSE [sent EXCEPT ![s] = SubSeq(@, 1, Len(@) - 1)]
    /\ UNCHANGED <<listener, cur, thread, sessionVars, textVars, fileVars, mixed>>

Init ==
    /\ listener = "wait" /\ cur = NULL
    /\ life = [s \in Session |-> "none"]
    /\ thread = [s \in Session |-> "none"]
    /\ has_end = {} /\ has_process = {} /\ deleting = {}
    /\ clients = <<>> /\ iter = [s \in Session |-> 0]
    /\ crashed = FALSE
    /\ wire = [s \in Session |-> <<>>] /\ closed = {}
    /\ valid_buf = [s \in Session |-> <<>>]
    /\ str_stream = <<>>
    /\ lock = NULL /\ file = "whole" /\ torn = FALSE
    /\ sent = [s \in Session |-> <<>>] /\ executed = [s \in Session |-> <<>>]
    /\ owner = NULL /\ mixed = FALSE

Listen == (\E s \in Session : Accept(s)) \/ SetEndThis \/ SetProcessData \/ PushBack

SetUp == SetEndThis \/ SetProcessData \/ PushBack

SessionThread(s) ==
    \/ \E n \in 1 .. BUF_SIZE : DropData(s, n) \/ AppendData(s, n)
    \/ RecvEnd(s) \/ try_get_obj_buf(s) \/ get_valid_buf(s)
    \/ Execute(s) \/ Throw(s) \/ save(s) \/ save_file(s) \/ OpenFails(s) \/ load(s) \/ Reply(s)
    \/ EndSilently(s) \/ find(s) \/ erase(s) \/ Return(s)

Next ==
    /\ ~crashed
    /\ \/ Listen \/ Race
       \/ \E s \in Session :
            \/ SessionThread(s) \/ Delete(s)
            \/ (\E cmd \in Command : Send(s, cmd)) \/ Close(s) \/ Break(s)

Spec == Init /\ [][Next]_vars

\* Threads run, the one that deletes a session once the session's own has ended.
\* The file lock is held for one save and is obtained eventually.
FairSpec ==
    /\ Spec
    /\ WF_vars(~crashed /\ SetUp)
    /\ \A s \in Session : SF_vars(~crashed /\ (SessionThread(s) \/ Delete(s)))

-----------------------------------------------------------------------------
(* Properties.                                                             *)

\* The variables keep their types; clients holds sessions only, never the null pointer.
TypeOK ==
    /\ listener \in {"wait", "end_this", "process_data", "push_back"}
    /\ cur \in Session \union {NULL}
    /\ life \in [Session -> {"none", "live", "freed"}]
    /\ thread \in [Session -> {"none", "recv", "scan", "cut", "execute", "save",
                               "write", "load", "length", "reply", "end", "erase", "return",
                               "done"}]
    /\ has_end \subseteq Session /\ has_process \subseteq Session
    /\ clients \in Seq(Session) /\ iter \in [Session -> Nat]
    /\ deleting \subseteq Session /\ crashed \in BOOLEAN
    /\ wire \in [Session -> Text] /\ closed \subseteq Session
    /\ valid_buf \in [Session -> Text]
    /\ str_stream \in Text
    /\ lock \in Session \union {NULL}
    /\ file \in {"whole", "empty"} /\ torn \in BOOLEAN
    /\ sent \in [Session -> Seq(Command)]
    /\ executed \in [Session -> Seq(Command \union {NULL})]
    /\ owner \in Session \union {NULL} /\ mixed \in BOOLEAN

\* A Session is freed only when its own thread has ended, although that thread
\* starts the deletion (the join in ~Session), and never while the listening thread
\* is still setting it up, although its thread may end before that: a session that
\* is not in clients yet gets no further than erase.
NoUseAfterFree ==
    \A s \in Session : life[s] = "freed" => /\ thread[s] = "done"
                                            /\ ~ (listener # "wait" /\ cur = s)

\* As long as the texts of two commands have not met in str_stream (mixed), a
\* session executes the commands of its own client, in order and none twice, and
\* none is missing once the bytes have been read: however TCP cuts the text, whatever
\* other sessions do meanwhile, and when connections fail inside an object.
CommandsFramed ==
    ~ mixed =>
        \A s \in Session :
            /\ Len(executed[s]) <= Len(sent[s])
            /\ executed[s] = SubSeq(sent[s], 1, Len(executed[s]))
            /\ /\ wire[s] = <<>> /\ valid_buf[s] = <<>> /\ thread[s] # "scan"
               => executed[s] = sent[s]

\* "get config" never meets the file between fopen and fwrite of a "set config"
\* of another session.
LoadsWhole == ~ torn

\* Once end_this is set, the end of a connection, closed by the client or reported
\* as failed by TCP, leads to the deletion of the session (or the server has died).
SessionEnds ==
    \A s \in Session :
        s \in has_end /\ thread[s] = "recv" /\ s \in closed
            ~> life[s] = "freed" \/ crashed
=============================================================================
