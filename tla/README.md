# TLA+ models of the traffic video detector (fvd-new and Pvd)

The repository holds a traffic video detector, `zenith` (`fvd-new/`), its later
C++ rewrite (`Pvd/`), earlier copies of the rewrite's TCP server
(`JsonTcpServer/`, `SimpleTcpServer/`), a small ARP tool (`ipsearch/`) and
third-party programs. Most models are of `fvd-new`, the program that runs on
the road side: several threads share cameras, a client list and the link to the
traffic signal machine, with few locks. Two are of the parts of `Pvd` that its
build contains: the command server and the video source.

Sources in `fvd-new` are GBK encoded; quotations below are converted.

## 1. Inventory

| Component | State | Operations | Who calls it |
|---|---|---|---|
| Client list (`common.c` list, `client_net.c`) | doubly linked list with a cursor `cur`, `list_lock`; a record per client: address, camera, UDP socket | seek, add at tail, change camera, delete at cursor, walk | TCP server thread; the stream thread of every camera walks it after each frame |
| TCP command server (`tcp_server.c`, `handle_buffer`) | the command being handled | GET*, SET*, HEART, SHUTDOWN, REBOOTZEN | remote clients, one connection at a time |
| Camera service (`camera_service.c`, `cam_net.c`) | per camera `open_flg`, `cam_running_state`, a command slot under `cmd_lock`, `watchdog_value`, the SDK's channel handle | open, close, ctrl; `camera_main` (1 ms), `watchdog_func` (10 s), `process_fun` (per frame) | server thread, two timer threads, the SDK's stream threads |
| Algorithm (`cam_alg.c`), decoder (`cam_codec.c`) | memory of the detection library and of ffmpeg per camera; time section and algorithm index | open, run, reset, release | `camera_service.c` |
| Device configuration (`client_net.c`, `client_file.c`, `file_op.c`) | `g_dev_cfg`, `g_cam_cfg`, three files in `cfg/` | load at start, change, sync, save | server thread |
| Signal machine link (`sig_service.c`, `csocket.c`) | `sig_state`, `sig_fd`, `sig_ip`, `sig_port` (no lock) | connect and report thread, `reset_sig_machine`, `reboot_cmd`, timed callbacks | its own thread, timers, server thread |
| Signal frame codec (`sig_service.c`) | none | escape, CRC, header | the link |
| Guard script (`bin/wardens`) | none | restarts the process | the system |
| Pvd command server (`server.h`, `tool.h`, `app.h`, `configmanager.h`) | sessions with a thread each, the vector `clients`, one `str_stream` for all, `config.json` under a lock | accept, receive, frame, set config, get config, delete a session | remote clients, any number at a time |
| Pvd video source (`videosource.*`) | the capture, `frame_list` under a lock | open, read, reopen, queue, fetch | its own thread; the processing thread |

What is hard in this code: threads that use a pointer, a descriptor or a flag
while another thread replaces it; records published before they are filled;
commands in a one-place slot; a watchdog that must bring a lost stream back;
connections that fail at any step and are retried for ever; sockets that are
not closed; a configuration kept in memory, in three files and in the parts of
the program that were started with it, while the process may die at any point;
sessions that have themselves deleted; buffers shared between a queue and the
thread that fills it. `PROJECT.json` lists these hazards with their lines and the
properties that cover them.

## 2. Modules

| Module | Models | Role |
|---|---|---|
| `ClientRegistry` | what the client list promises: a map from client to camera, changed only by the client's own visits | abstract specification |
| `ClientList` | the list, the server thread's use of it, the walks, sockets and ports | implements `ClientRegistry` |
| `CameraService` | one camera and its four kinds of threads | core component |
| `SigLink` | the link's thread against the client thread, machines that come and go, restarts | core component |
| `DeviceConfig` | SET and GET commands, memory, files, crash and restart, and what cameras, algorithms and link were given | connects server, cameras and link |
| `AlgSwitch` | the choice of the day or night algorithm of one camera, and the results sent to clients | core component |
| `SigFrame` | the frames of the signal link, byte by byte | algorithm against a reference definition |
| `PvdServer` | sessions, framing, commands and file of `Pvd` | core component |
| `VideoSource` | the reading thread and frame queue of `Pvd` | core component |
| `MCx` | instances for TLC, and the two statements of comments the code does not keep | runs |
| `xProofs` | theorems about module `x` | TLAPS |

### ClientList

One action per statement group that another thread can see. `list_lock` holds
its owner: the server, a camera (its stream thread), or `NULL`. Operations that
run completely under the lock and touch nothing outside it
(`list_node_alloc_tail`, `list_node_del_cur`) are one step; `list_node_seek`
and the walk take one step per node because others run meanwhile (the server
writes fields without the lock). `add_client` is five actions: allocate (the
record becomes visible, zeroed), index, address, descriptor, and one turn of
the socket loop. `HandleType` is the switch of `handle_buffer` with the close of
the connection that follows. Accepting (`WaitTcpConnect`) and receiving
(`recv_buf`) are two steps: `recv` has no timeout, so the server may stay
between them for ever; `NoVisit` is a connection that ends without a command.

Data: an address is the 16 bytes the code compares. `recv_buf` does not
initialise them, so an address is a host and the rest of the buffer; the model
value is the pair. A descriptor is the port it is bound to. `chain` is a history
variable (the nodes in list order) that no guard reads. What freed memory
contains is not modelled: `NoUseAfterFree` says nobody looks.

Types of commands other than GETCAMPARAM, HEART and SHUTDOWN do not touch the
list (the `else` of `handle_buffer` belongs to the inner `if`).

### CameraService

`client` is the client thread inside `camera_open`, `camera_close` and
`handle_change`; `main`, `dog` and `frame[h]` are the positions of
`camera_main`, `watchdog_func` and `process_fun` for channel `h`. Turns of
`camera_main` that find no command are stuttering. The cameras do not share
this state, so one is modelled.

The SDK is external, known only from its use: a logon or an open may fail, an open
channel delivers frames until it is closed or dies, `NET_CloseChannel` does not
wait for a callback that is running (nothing in the code relies on that, and no
document in the repository promises it). A failed logon leaves `channel_handle` as it
was, as in `login_camera`. Data races on flags are interleavings of single
reads and writes.

`camstatus` is a byte of the command that nobody checks. The code tests it for 0
and for 1, so a third value neither opens nor closes; the constant `Status` has
such a value, here and in `DeviceConfig`. `odd` is a history variable: such a value
has been stored since the camera was last opened, closed or moved.

### SigLink

`main` starts `init_sig_service1` (`init_sig_service` is commented out), so the
timed callbacks are those of lines 736-786. They change nothing: the two send functions
always return 1 and `out_car_flag` is never set. The module has the thread's turn
step by step, `reset_sig_machine` and `reboot_cmd` statement by statement, and
the kernel's view of each socket. `connect_sig` returns an uninitialised
variable when `sig_fd` was cleared under it: both outcomes are possible.
`reset_sig_machine` starts connecting whatever the new address is, while the
start of the program checks it for a leading `0`. `connect()` is atomic, and
descriptors of other parts of the program do not reuse a closed `sig_fd`.

### DeviceConfig

An object (`mDetectDeviceConfig`, `mCamParam`, `mCamDetectParam`) is a function
from its parts to what the program compares: an address and a status. A part
is the unit in which an object is received, copied by `sync_obj` and written by
`save_buf`, so a command can arrive in part, a camera's thread can read a half
copied object, and a crash can tear a write. `handle_change` is one action per
class of object, one step per camera for the device configuration;
`camera_open` and `camera_close` appear only by `open_flg` and the parameters the
algorithm gets, their inner steps are in `CameraService`, and those of
`reset_sig_machine` in `SigLink`. The algorithm is initialised from two objects,
`mCamDetectParam` and `mCamParam` (`cam_alg.c:463`). `Crash` zeroes the globals; `LoadDevice`,
`LoadCamera` and `StartServices` are the order of `main`. Opening a
file may fail at any time, for reading and for writing: it is missing (`"rb+"` never
creates it) or the process has no descriptor left, which `ClientList` shows to
happen. So may `fwrite` (`WriteFails`). The program starts for the first time with
empty files and without a configuration.
A write that reached `fwrite` is taken to be on disk, part by part and in order:
the loss of a page cache on power failure is not modelled.

`seen`, `before`, `sets` and `crashes` are history variables, and so are three
that say where the code itself leaves memory, file and effects apart, so that the
properties can say that it happens nowhere else: `apart` (an object not loaded or
saved since the start or since it was last SET), `odd` (see above) and `stale`
(`mCamParam` was SET since the algorithm read it). `Request` is the set of SET
commands; the proofs hold for any.

### AlgSwitch

One camera. A frame and a reset of the same camera exclude each other
(`OneAtATime` of `CameraService`, proved there), so one `pc` serves both; another
camera's `open_alg` may zero `static_info` at any time (`OpenElsewhere`). The
library is translated where the program reads it back: its vote (`Votes`, from
`m_arith.cpp`) is any result the counters it keeps may lead to, and
`transform_arg_ctrl_DSP_VC` restores its copy of the algorithm. Results of a lane
are abstracted to the frame they come from: none, this one or an older one.

### SigFrame

The buffer of `ReportedRealStatic` with its indices. Nobody checks the number of
lanes in the configuration, and a frame has ten bytes for each, so the data may have
any of the `Lengths` and need not fit: a step that writes behind the buffer leads to
`"overrun"`, after which nothing is known. In the code's numbers: eight bytes of header, one
of data, ten per lane, a check byte and two tags, every data and check byte
perhaps doubled; four lanes need at most 94 of the 100 bytes of `mysbuf`, five up to 114.
The codec's `buff` is one byte into `mysbuf`. Each turn of the escaping and unescaping loops is a step with the
growing or shrinking `size`. The reference definitions say what must be in the
buffer without recursion: `Place(s, j)` is where the escaping of the `j`-th byte of
`s` begins, `Escaped` what stands there, and the exclusive or is the parity of each
bit. `ReferenceAssumption` of `MCSigFrame`, which TLC evaluates, compares them on
short sequences with a fold of `^^` and with the escaped bytes joined one after
the other. `ReportedRealStatic` is reached from `init_sig_service`, which
`main` does not call in this version; it is modelled because it uses one buffer
for several frames, and the two reports that are sent end with the same three
calls. `RequestPro` has no caller; its decoding is applied to the frames that are
sent. The header's bytes are never special: link ids and types are small
constants and the device byte is `0x10` to `0x1F`.

### PvdServer

`thread[s]` is the position of the thread of session `s`, `listener` that of
`Tcpserver::listen`, `deleting` the detached threads of `quit_session`. Nothing but
the file has a lock, so every use of `clients` and of `str_stream` is a step of its
own: `find` and `erase` of `quit_session` are two, and so are the copy
(`try_get_obj_buf`) and the cut (`get_valid_buf`) of `str_stream`. What happens
between them is what the code does with it: an iterator that now points at another
session or behind the end, a `substr` behind the end of the string. Two threads in
one of these objects at the same time, one of them writing, are a data race: besides
any order of the steps the process may die (`Race`).

Text is what `JsonStr` and the reader look at: an opening brace, the rest of an object
up to its closing brace, which stands for the command in it, and newlines. TCP
delivers it in pieces of any size up to `BUF_SIZE`; a client sends whenever it likes,
closes (`Close`: what it has sent still arrives) or its connection fails (`Break`: what
is under way is lost, perhaps in the middle of an object).
`Parse` and `Throw` are the reader and its exceptions (`Pvd/cppjson`, which
`pvd.pro` compiles in): the first value of a text, and a value of the wrong type, for
which nobody catches the exception. A client that is gone when it is answered may end
the process (SIGPIPE), and so does a failing `fopen` in `save`.

`mixed`, `owner`, `sent` and `executed` are history variables. `mixed` is set by
the first step after which the texts of two commands may have met: bytes appended while
another session is inside `process_data` or has left part of an object, a command sent
before the client's last one was executed, bytes dropped before the callback is set.

### VideoSource

A `cv::Mat` is a reference to a buffer; `release` before `read` makes `read`
allocate a buffer nobody refers to, which is what keeps queued frames unchanged.

## 3. Runs

Passing runs:

| Run | Properties | Instance |
|---|---|---|
| `MCClientList` | `TypeOK`, `ListWellFormed`, `NoUseAfterFree`, `RecordsDistinct`, `OnlyVisitorLeaves`, `RegistrySpec` | 3 nodes, 3 addresses of 2 hosts, 2 cameras, 4 ports, 6 descriptors |
| `MCClientListLive` | `WalkEnds`, `VisitEnds` | 2 nodes, 2 addresses, 2 cameras, 2 ports, 5 descriptors |
| `MCCameraService` | `TypeOK`, `OneAtATime`, `SlotHoldsCommand`, `OpenAsConfigured` | 2 channels, 3 statuses |
| `MCCameraServiceLive` | `Reconnects` | 1 channel |
| `MCSigLink` | `TypeOK`, `HandshakeComplete`, `RetryKeepsOneSocket`, `LinkComesUp` | 3 sockets, 2 addresses (one unset), 2 ports, 2 changes |
| `MCDeviceConfig` | `TypeOK`, `FileIsMemory`, `AnswerIsDurable`, `TornAtOnePlace`, `CamerasAsConfigured`, `AlgAsConfigured`, `LinkAsConfigured` | 2 cameras, 2 parts, 2 addresses, 3 statuses, 2 SETs, 1 crash, files that may fail |
| `MCAlgSwitch` | `TypeOK`, `AlgIsInitialised`, `OutputIsThisFrame`, `NoOscillation`, `AlgFollowsTime` | a day of 5 minutes with all sections, 2 lanes, clock every 3rd frame |
| `MCPvdServer` | `TypeOK`, `NoUseAfterFree`, `CommandsFramed`, `LoadsWhole`, `SessionEnds` | 2 sessions, 2 commands, 1 or 2 characters a receive |
| `MCVideoSource` | `TypeOK`, `QueueInOrder`, `Recovers` | queue of 3 (as in the code), 5 buffers, 6 frames |
| `MCSigFrame` | `OverrunOnlyIfTooLong`, `FrameIsEscaped`, `RoundTrip` | up to 7 data bytes of 3 values, a buffer of 8 in which the shortest always and the longest never fit |

Why the bounds are enough to be interesting: three nodes make a head, a middle
and a tail, so all three deletion cases happen; four ports and six descriptors
let clients join, leave and come back and still reach exhaustion; two cameras
give two walkers and a client that changes its mind; two channels let a frame of
the old channel overlap the new one; `MaxChange` bounds address changes, reboots
and crashes of the link, and two of them let a reset meet a reset in progress or a
restart. `MaxFd` and `Port` are limits the program really has. In
`MCDeviceConfig` two commands let the second meet what a torn or shortened first
one has left, and two parts give a torn object; in `MCAlgSwitch` every section
follows every other at some look at the clock; two sessions of `MCPvdServer` can
hold parts of the shared string and the lock at once, and send a second command
before the first is executed or from the other session (a third session, needed for
`erase` to meet another session's entry in `clients`, was checked without commands); six frames fill a queue of
three twice; the three values of `MCSigFrame` are the tag, the escape byte and
the second byte of an escaped tag, so that escapes follow escapes, and as the
check byte is a sum over such bytes other values occur too. Frames follow frames in the
same buffer. In `MCClientListLive` five descriptors let clients join twice before
the sockets are used up.

`MCPvdServer` does not check for deadlock: `Next` stops when the process has
died, and clients need not come.

Runs that show a disagreement between a comment and the code (expected
violations; the findings in `PROJECT.json` quote the comment):

| Run | Property | What happens |
|---|---|---|
| `MCCameraServiceFrame` | `FrameFindsResources` | decoder or algorithm is freed under a frame |
| `MCSigLinkReset` | `ConnectedToConfigured` | a reset is overwritten by `sig_set_state(SIG_CONNECTED)` |

### Fairness

* `ClientList`: weak fairness of a walk (it holds the lock and only reads);
  strong fairness of the server, since a pthread mutex that is released again
  and again is eventually obtained. None for `WaitTcpConnect`, `recv_buf` and
  `NoVisit`: a client need not come, and one that has come need not send anything.
* `CameraService`: the timer threads run for ever and obtain `cmd_lock`; the
  SDK continues the frames of a live channel; a camera that answers does not
  refuse every logon. One assumption is about speed: `camera_main` polls every
  millisecond and the watchdog posts every ten seconds, so a RESET posted again
  and again is eventually seen before it is replaced.
* `SigLink`: both threads keep running; `socket()` and `connect()` to a machine
  that answers do not fail for ever.

* `AlgSwitch`: the stream of an open camera goes on, and a reset that has begun
  ends. `AlgFollowsTime` assumes that `camera_main` is not told to reset for ever,
  since every reset starts the count of frames again.
* `PvdServer`: the listener finishes the set-up of a session it has accepted, and
  the threads run; strong fairness for a session's thread and the one that deletes it,
  because the file lock, held for one save, is obtained eventually. `SessionEnds` is
  about connections whose end TCP reports; without keep-alive it may never do so.
* `VideoSource`: the thread runs and its user asks again and again
  (`testprocess.h:36`).

Beyond this nothing is assumed about clients, cameras or machines: they need
never act.

## 4. Theorems

Each is proved by TLAPS for every value of the constants that satisfies the
module's `ConstantAssumption` (and, in `ClientList`, `VisitAssumption`: the null
pointer is not a visit).

`ClientListProofs`
: `TypeCorrect`, `ListCorrect`, `MemorySafe`, `VisitorLeaves`, `RecordsCorrect`,
`ListImplementsRegistry`.
The type invariant needs to know that the record being handled exists
(`Handling`, `Sending`). `ListWellFormed` alone is not inductive: an action that
frees or follows `cur` or `tmp` needs those pointers to be on the list. `ListInv`
adds who owns the lock (`LockOwner`), that the nodes the seek has passed do not
carry the visitor's address (`SeekPast`), that a found node carries it (`Found`),
and that a walk stands on the list while it owns the lock (`Walking`). Use after
free then follows in one step, and so does `OnlyVisitorLeaves`, because the node
at `cur` is the one that was found. `RecordsDistinct` needs in addition that the
socket of every record is bound (`SocketsBound`): a port that can be bound is in
no record. `ListImplementsRegistry` is the refinement: `ClientList` implements
`ClientRegistry` under the mapping `RegistryMap`. The step simulation needs one
more invariant, `Served`: a record being filled has the visitor's camera from
`AddIndex` on, and at the switch of `handle_buffer` the visitor has a record with
the camera it named, which is `cur` unless the visitor has just joined. The last
turn of the socket loop is then `Join`, the unlocked store of `handle_buffer` is
`Follow`, the switch is `Depart`, and every other step, all walks included, leaves
the map alone. Distinct addresses make the map independent of what `CHOOSE` picks.

`CameraServiceProofs`
: `TypeCorrect`, `LockCorrect`, `Exclusion`, `CommandStays`, `Configured`. `cmd_lock`
has the owner that is in its critical section (`LockOwner`); exclusion follows.
`Configured` goes through `ClientFlags`, which says for every position of the
client thread what `open_flg` and `camstatus` are. For a camera that was given a
status other than 0 and 1 it says nothing until the camera is opened, closed or moved.

`SigLinkProofs`
: `TypeCorrect`, `Handshake`, `SocketsBounded`. The invariant `OneSocketPerAttempt` says that the
reports made so far in this attempt went over the socket `sig_fd` still names,
or that `sig_fd` has been cleared and the next report must fail. `SocketsBounded`
(`RetryKeepsOneSocket`) is about a number, and the number of open sockets says
nothing about the next step. `SocketsAccounted` counts instead the lost ones, those
open that `sig_fd` does not name, together with the clearings the client thread
still has ahead of it (`ClearsAhead`): each change of the configuration adds at most
two to this sum, a clearing moves one from the second part to the first, and no
step of the service thread, failing or not, adds to it.

`DeviceConfigProofs`
: `TypeCorrect`, `FilesCorrect`, `AnswersDurable`, `TornWrites`, `CamerasCorrect`,
`AlgorithmsCorrect`, `LinkCorrect`. None of the properties is inductive, since
they speak of the moments when the server waits. `StoreInv` says for every
position of the server which objects agree between memory and file and how far
the copies have come, whichever `fopen` and `fwrite` have failed: only the objects
in `apart` may differ; `AnswerInv` that no command at work is about the object a
client was told; `TornInv` that the parts written are those below `k`. `CamInv`
relates, camera by camera, what `handle_change` has done so far to the new object
and the old memory; `AlgInv` and `LinkInv` say that a parameter that differs
from the one in memory has its reset pending, or its flag set and the end of the
command still to come. The order sync, save, effects of `handle_buffer` is what
these proofs use; resetting in `handle_change`, as lines that are commented out there
did, breaks them (two of the mutants).

`AlgSwitchProofs`
: `TypeCorrect`, `AlgorithmInitialised`, `OutputCorrect`, `SwitchesBounded`. `AlgInv`
says that outside a reset the library has the chosen algorithm. `ResultInv` says
which lanes can hold a result while a frame is packed. `SwitchInv` is why the
algorithm does not oscillate: after the first change in a section the reset has
given the library that section, in which it votes only towards the section's
target.

`PvdServerProofs`
: `TypeCorrect`, `MemorySafe`, `FileWhole`, `FramedCommands`. `LifeInv` follows a session
from its constructor to its end: one that is being deleted has been through `erase`,
which a session that is not in `clients` yet does not survive, so neither its thread nor
the listener still uses it; which entry of `clients` the unlocked `find` and `erase`
take out plays no part. `FileInv` says that only the holder of the lock can find the
file empty. `FramedCommands` needs to know, session by session, where the text of the
last command is. `Framing` says that `mixed` is set, or that each session is in one of
four states: all its commands are executed and only newlines are about (`Quiet`); its
part of `str_stream` and the bytes under way, joined in this order, are one object
between newlines, and the thread will scan once the object is complete (`Coming`); its
connection has failed inside an object, whose beginning stays in `str_stream`
(`Stuck`); or it has taken the whole object and everything else of it is newlines
(`Held`). Receiving only moves the cut in the joined text (`FrameShift`), which is why the
size of the pieces does not matter, and a session that is not the owner of `str_stream`
has nothing in it. The lemmas `PartEnds`, `FrameEnds` and `FrameParse` say that the
counts of braces find an end exactly in a complete object and that the reader gets the
command out of it. The theorem has no assumption about when clients send.

`SigFrameProofs`
: `OverrunsExplained`, `FramesEscaped`, `RoundTrips`, for every header without special
bytes that fits, any data of any length and any buffer. `CodecInv` holds the
state of the two loops: after `j` bytes the first `j` are escaped at their places,
the rest follows unescaped, and the index is at the next byte or at the second byte
of the escape just made (`Encoding`); `Decoding` is its mirror image. That the
place of a byte is its index plus the number of special bytes before it makes
each turn of a loop a statement about one byte, so no induction over the frame is
needed. `HeaderKept` and `Filled` say that a frame starts from clean bytes although the
buffer still holds the frame before. `OverrunsExplained` follows from the count of
special bytes: until the last tag is written `size` never exceeds what the finished frame
needs, so a step that does not fit means a frame that does not fit.

`VideoSourceProofs`
: `TypeCorrect`, `FramesInOrder`, for any limit and any number of buffers.
`OrderInv` adds that the frame just read is newer than all that are queued, and
that nothing queued is newer than the stream.

Every invariant and every action property of the passing runs is thus proved, and
so is the refinement. Only model-checked: the liveness properties `WalkEnds`, `VisitEnds`,
`Reconnects`, `LinkComesUp`, `AlgFollowsTime`, `SessionEnds` and `Recovers`, since
fairness is outside this prover, and `ReferenceAssumption`, which speaks of recursive
definitions.

## 5. Where the code falls short, and what is left out

### Known deviations

The models contain the following behaviours because the code has them. No run
is kept for them; TLC reaches each one in the module named.

* `ClientList`: `add_client` links a zeroed record and fills it afterwards without
  the lock; the stream thread of camera 0 can send through descriptor 0 or to an
  empty address in between.
* `ClientList`: the 16 bytes compared as an address include bytes `recv_buf` never
  initialised, so the same host can hold two records.
* `ClientList`: sockets of departed clients and of failed binds are never closed.
  When the descriptors are used up `add_client` loops for ever and the server
  accepts nobody; `VisitEnds` says that this is the only way a visit whose command has
  arrived does not end. A client that connects and sends nothing blocks the server, and
  with it all other clients, for as long as it likes.
  A client that vanishes without SHUTDOWN is never removed (`time` in its record
  is unused, although `tcp_server.c:7` speaks of "a certain time").
* `CameraService`: a RESET pending or running when the client closes the camera
  connects it again, and nothing closes it. RESET_ALG can replace a RESET in the
  one-place slot (the watchdog posts another, which is what `Reconnects` rests on).
* `CameraService`, `DeviceConfig`: a camera whose status goes 1, 2, 0 stays open and
  one whose status goes 0, 2, 1 stays closed.
* `SigLink`: nothing is sent after `SIG_CONNECTED`, so a machine that goes away
  is not noticed (`sig_service.h:478` lists the disconnection as an event).
* `AlgSwitch`: the library is told a new time section only by the next
  initialisation (`cam_alg.h:32` says every ten seconds).
* `DeviceConfig`: a command that arrives in part is applied and saved with zeros
  in place of the rest; a torn write is read back as it is. When `fopen` or `fwrite`
  fails in a save, the client is answered with the new object and the next restart
  brings the old one back; when it fails at the start, the program runs with zeros
  in place of the object. SETCAMPARAM does not reset the
  algorithm, which goes on with the camera's old parameters until something else does.
* `AlgSwitch`: `open_alg` of one camera zeroes the results of all, so that a client can
  be sent a mixture of zeros and this frame's results (`OutputIsThisFrame` accepts it).
* `SigFrame`: with five lanes or more in the configuration the frame can be longer than
  `mysbuf` (and `Eachchannel[4]`, `sig_service.h:440`, shorter than the lanes).
* `SigFrame`: `externalProtocolCheckCrc` never rejects a frame: the exclusive or
  is compared as a signed `char` with `0xC0`, and equality, the only outcome
  `RequestPro` takes for an error, cannot happen. The conjunct `accepted` of `RoundTrip`
  is true for that reason and tests nothing of the check byte.
* `PvdServer`, sessions: what a client sends before its callbacks are set is dropped; a
  connection that ends before `end_this` is set is never deleted, and one that ends
  before `push_back` makes `quit_session` erase `end()`. With three sessions an `erase`
  between `find` and `erase` of another takes the wrong entry out of `clients`, where the
  pointer to a freed session then stays (nobody follows it in this version).
* `PvdServer`, text: commands that arrive together are taken for one and all but the
  first are lost, whichever session they came from; two sessions between copy and cut can
  take the same text twice or cut behind its end, which throws; the answer goes to the
  session whose thread found the text complete; the beginning of an object whose
  connection failed stays in `str_stream` and spoils the next command of any client.
  `CommandsFramed` says that nothing is lost, repeated or misrouted before that.
* `PvdServer`, process: an exception of the JSON reader, SIGPIPE, a failing `fopen` in
  `save` and any of the data races end it; `"wb"` loses the file when that happens between
  `fopen` and `fclose`; the data and the length of an answer come from two loads; sockets
  are never closed.
* `VideoSource`: the timer's `check_point` uses `vcap` while `run` replaces it, and
  the destructor does not wait for the detached `run`; both are outside the model.

### Not modelled

* byte order conversion and packing of commands and replies; contents of traffic
  data; what `RequestPro` answers;
* detection, decoding, display: computation on images. `alg-mutilthread` and
  Pvd's processors are most of the program's own lines outside the models, and
  apart from the vote for day or night their results steer nothing;
* memory exhaustion (`malloc` is not tested by the code);
* `Pvd`'s `Camera` and `CameraManager` (`camera.cpp` and `cameramanager.cpp` are not
  in `pvd.pro`), the earlier copies of its server, and `ipsearch`, a loop that
  answers one packet after the other and keeps nothing in between;
* third-party code, which is the bulk of the repository: openssh, linux-ftpd,
  wmstickynotes, and the headers of OpenCV, TBB, OpenGL, ffmpeg and the
  camera SDK. Of the repository's half million lines about 6000 are the C
  files of `fvd-new` and 4500 those of `Pvd`; the definitions stand for 2400 of
  them, and most of the rest is conversion of data, decoding and image processing.

## 6. Plan

What remains, in order of use:

1. `CameraService` and `DeviceConfig` composed, so that the one-place command slot
   and the configuration are checked together instead of through `pending`;
2. the safety part of the liveness arguments as theorems: what a walk, a visit or a
   reconnection can still be waiting for at each step.
