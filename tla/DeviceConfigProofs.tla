------------------------- MODULE DeviceConfigProofs -------------------------
(***************************************************************************)
(* Safety of DeviceConfig for any number of cameras, parts of an object,   *)
(* addresses, commands and crashes.                                        *)
(***************************************************************************)
EXTENDS DeviceConfig, TLAPS

-----------------------------------------------------------------------------
\* The slots: what they are, and that they differ.
LEMMA SlotFacts ==
    /\ 0 \in Camera /\ 0 \in Part /\ Camera \subseteq Part
    /\ Dev \in Slot /\ FileOf(Dev) = "dev"
    /\ \A c \in Camera :
         /\ Cam(c) \in Slot /\ FileOf(Cam(c)) = "cam" /\ Cam(c)[2] = c
         /\ Det(c) \in Slot /\ FileOf(Det(c)) = "det" /\ Det(c)[2] = c
    /\ \A s \in Slot :
         /\ s[2] \in Camera
         /\ FileOf(s) = "dev" => s = Dev
         /\ FileOf(s) = "cam" => s = Cam(s[2])
         /\ FileOf(s) = "det" => s = Det(s[2])
         /\ FileOf(s) \in {"dev", "cam", "det"}
  BY ConstantAssumption DEF Camera, Part, Slot, Dev, Cam, Det, FileOf

LEMMA ZeroType == Zero \in Word /\ ZeroObject \in Object
  BY ConstantAssumption DEF Zero, Word, ZeroObject, Object

\* An object of which one part is replaced is an object.
LEMMA PutType ==
    ASSUME NEW f \in [Slot -> Object], NEW s \in Slot, NEW p \in Part, NEW w \in Word
    PROVE  [f EXCEPT ![s][p] = w] \in [Slot -> Object]
  BY DEF Object

-----------------------------------------------------------------------------
\* One step of the server, of a camera's thread or of the restart keeps types.
LEMMA TypeStep == TypeOK /\ [Next]_vars => TypeOK'
<1> SUFFICES ASSUME TypeOK, [Next]_vars PROVE TypeOK'
  OBVIOUS
<1> USE SlotFacts, ZeroType, ConstantAssumption
    DEF TypeOK, Goto, storeVars, effectVars, historyVars
<1>k. \A i \in Part : i + 1 \in Camera => i + 1 \in Part
  OBVIOUS
<1>1. ASSUME NEW r \in Request, NEW n \in 0 .. NPart, SetCommand(r.slot, r.obj, n)
      PROVE  TypeOK'
  <2>0. r.slot \in Slot /\ r.obj \in Object
    BY RequestAssumption DEF Command
  <2>1. Received(r.obj, n) \in Object
    BY <2>0 DEF Received, Object
  <2>2. cmd' \in Command
    BY <1>1, <2>0, <2>1 DEF SetCommand, Command
  <2>3. before' \in Object
    BY <1>1, <2>0 DEF SetCommand
  <2> QED
    BY <1>1, <2>2, <2>3 DEF SetCommand
<1>2. ASSUME NEW s \in Slot, GetCommand(s) PROVE TypeOK'
  <2>0. (s \notin apart) \in BOOLEAN /\ mem[s] \in Object
    OBVIOUS
  <2>1. seen' \in Answer
    BY <1>2, <2>0, Zenon DEF GetCommand, Answer
  <2> QED
    BY <1>2, <2>1 DEF GetCommand
<1>3. CASE ChangeCamParam \/ ChangeDetectParam
  BY <1>3 DEF ChangeCamParam, ChangeDetectParam
<1>4. CASE ChangeDevice
  <2>1. k \in Camera /\ mem[Dev][k] \in Word
    BY <1>4 DEF ChangeDevice, Object
  <2>2. mem' \in [Slot -> Object]
    <3> DEFINE b == IF mem[Dev][k].ip # cmd.obj[k].ip THEN "closed" ELSE mem[Dev][k].camstatus
    <3>1. [mem[Dev][k] EXCEPT !.camstatus = b] \in Word
      BY <2>1 DEF Word
    <3>2. mem' = [mem EXCEPT ![Dev][k] = [mem[Dev][k] EXCEPT !.camstatus = b]]
      BY <1>4 DEF ChangeDevice
    <3> HIDE DEF b
    <3> QED
      BY <2>1, <3>1, <3>2, PutType
  <2>3. /\ opened' \subseteq Camera /\ pending' \subseteq Camera
        /\ stale' \subseteq Camera /\ odd' \subseteq Camera
    BY <1>4, <2>1 DEF ChangeDevice, camera_open, camera_close, open_alg
  <2>5. alg' \in [Camera -> [det : Object, cam : Object]]
    BY <1>4, <2>1 DEF ChangeDevice, camera_open, camera_close, open_alg
  <2>4. pc' \in {"change", "sync"} /\ k' \in Camera
    BY <1>4, <2>1 DEF ChangeDevice
  <2> QED
    BY <1>4, <2>2, <2>3, <2>4, <2>5 DEF ChangeDevice
<1>5. CASE sync_obj
  <2>1. mem' \in [Slot -> Object]
    BY <1>5, PutType DEF sync_obj, Command, Object
  <2>2. stale' \subseteq Camera
    BY <1>5 DEF sync_obj, Command
  <2> QED
    BY <1>5, <2>1, <2>2 DEF sync_obj
<1>6. CASE save_buf
  <2>1. disk' \in [Slot -> Object]
    BY <1>6, PutType DEF save_buf, Command, Object
  <2> QED
    BY <1>6, <2>1 DEF save_buf
<1>7. CASE save_obj \/ WriteFails
  <2>1. cmd.slot \in Slot
    BY DEF Command
  <2> QED
    BY <1>7, <2>1 DEF save_obj, WriteFails
<1>8. CASE FinishSet
  <2>1. mem[Cam(0)][0].ip \in Ip /\ cmd.slot[2] \in Camera
    BY DEF Object, Word, Command
  <2> QED
    BY <1>8, <2>1 DEF FinishSet
<1>9. ASSUME NEW c \in Camera, MainResets(c) \/ FrameResets(c) PROVE TypeOK'
  BY <1>9 DEF MainResets, FrameResets, open_alg
<1>10. CASE Crash
  BY <1>10 DEF Crash
<1>11. CASE LoadDevice \/ LoadCamera
  <2>1. \A s \in Slot, ok \in SUBSET Slot : Loaded(s, ok) \in Object
    BY DEF Loaded
  <2>2. CASE LoadDevice
    BY <2>1, <2>2 DEF LoadDevice
  <2>3. CASE LoadCamera
    <3>1. mem' \in [Slot -> Object] /\ apart' \subseteq Slot
      BY <2>1, <2>3 DEF LoadCamera
    <3>2. opened' \subseteq Camera /\ odd' \subseteq Camera
      BY <2>3 DEF LoadCamera
    <3>3. alg' \in [Camera -> [det : Object, cam : Object]]
      <4>1. PICK ok \in SUBSET {Cam(k), Det(k)} :
              \/ alg' = [alg EXCEPT ![k] = [det |-> Loaded(Det(k), ok),
                                            cam |-> Loaded(Cam(k), ok)]]
              \/ alg' = alg
        BY <2>3 DEF LoadCamera
      <4>2. k \in Camera
        BY <2>3 DEF LoadCamera
      <4>3. Loaded(Det(k), ok) \in Object /\ Loaded(Cam(k), ok) \in Object
        BY <2>1, <4>2
      <4> QED
        BY <4>1, <4>2, <4>3
    <3> QED
      BY <2>3, <3>1, <3>2, <3>3 DEF LoadCamera
  <2> QED
    BY <1>11, <2>2, <2>3
<1>12. CASE StartServices
  <2>1. mem[Cam(0)][0].ip \in Ip
    BY DEF Object, Word
  <2> QED
    BY <1>12, <2>1 DEF StartServices
<1>13. CASE UNCHANGED vars
  BY <1>13 DEF vars
<1> QED
  BY <1>1, <1>2, <1>3, <1>4, <1>5, <1>6, <1>7, <1>8, <1>9, <1>10, <1>11, <1>12, <1>13
  DEF Next

LEMMA TypeInit == Init => TypeOK
<1>1. [slot |-> Dev, obj |-> ZeroObject] \in Command
  BY SlotFacts, ZeroType DEF Command
<1> QED
  BY <1>1, SlotFacts, ZeroType, ConstantAssumption DEF Init, TypeOK

\* Every reachable state of the configuration is well typed; in particular no
\* part of an object is ever uninitialised, however little of a command arrived.
THEOREM TypeCorrect == Spec => []TypeOK
  BY TypeInit, TypeStep, PTL DEF Spec

-----------------------------------------------------------------------------
(* Memory and files.                                                       *)

Busy == {"change", "sync", "save", "write", "finish"}
Copied == {"save", "write", "finish"}

Agrees(s) == s \notin apart => disk[s] = mem[s]

\* Memory and files agree on the objects that are not apart, except on the object
\* of the command at work, and that is new up to part k.
StoreInv ==
    /\ pc \notin Busy => \A s \in Slot : Agrees(s)
    /\ pc \in Busy => \A s \in Slot : s # cmd.slot => Agrees(s)
    /\ pc = "sync" => \A p \in Part : p < k => mem[cmd.slot][p] = cmd.obj[p]
    /\ pc \in Copied => mem[cmd.slot] = cmd.obj
    /\ pc = "write" => /\ cmd.slot \in apart
                       /\ \A p \in Part : p < k => disk[cmd.slot][p] = cmd.obj[p]
    /\ pc = "finish" /\ cmd.slot \notin apart => disk[cmd.slot] = cmd.obj

LEMMA ObjectEqual ==
    ASSUME NEW f \in Object, NEW g \in Object, \A p \in Part : f[p] = g[p]
    PROVE  f = g
  BY DEF Object

\* The loops over parts and cameras reach their last index.
LEMMA LastIndex ==
    /\ \A i, p \in Part : i + 1 \notin Part /\ p # i => p < i
    /\ \A i, p \in Part : i + 1 \in Part /\ p < i + 1 /\ p # i => p < i
    /\ \A i, c \in Camera : i + 1 \notin Camera /\ c # i => c < i
    /\ \A i, c \in Camera : i + 1 \in Camera /\ c < i + 1 /\ c # i => c < i
    /\ \A p \in Part : ~(p < 0)
    /\ \A c \in Camera : ~(c < 0) /\ ~(c < c)
  BY ConstantAssumption DEF Part, Camera

\* sync_obj and save_buf leave the other objects alone and finish the copy.
LEMMA StoreStep == TypeOK /\ TypeOK' /\ StoreInv /\ [Next]_vars => StoreInv'
<1> SUFFICES ASSUME TypeOK, TypeOK', StoreInv, [Next]_vars PROVE StoreInv'
  OBVIOUS
<1> USE SlotFacts DEF StoreInv, Busy, Copied, Agrees, Goto, storeVars, effectVars,
                      historyVars
<1>t. /\ mem \in [Slot -> Object] /\ disk \in [Slot -> Object] /\ k \in Part
      /\ mem' \in [Slot -> Object] /\ disk' \in [Slot -> Object]
      /\ cmd.slot \in Slot /\ cmd.obj \in Object
      /\ pc \in {"change", "load"} => k \in Camera
  BY DEF TypeOK, Command
<1>1. ASSUME NEW r \in Request, NEW n \in 0 .. NPart, SetCommand(r.slot, r.obj, n)
      PROVE  StoreInv'
  BY <1>1 DEF SetCommand
<1>2. ASSUME NEW s \in Slot, GetCommand(s) PROVE StoreInv'
  BY <1>2 DEF GetCommand
<1>3. CASE ChangeCamParam \/ ChangeDetectParam
  BY <1>3, LastIndex DEF ChangeCamParam, ChangeDetectParam
<1>4. CASE ChangeDevice
  <2>1. \A s \in Slot : s # cmd.slot => mem'[s] = mem[s]
    BY <1>t, <1>4 DEF ChangeDevice
  <2>2. pc' \in {"change", "sync"} /\ (pc' = "sync" => k' = 0)
    BY <1>4 DEF ChangeDevice
  <2>3. UNCHANGED <<cmd, disk, apart>>
    BY <1>4 DEF ChangeDevice
  <2>4. pc = "change"
    BY <1>4 DEF ChangeDevice
  <2> QED
    BY <1>t, <2>1, <2>2, <2>3, <2>4, LastIndex
<1>5. CASE sync_obj
  <2>1. /\ \A s \in Slot : s # cmd.slot => mem'[s] = mem[s]
        /\ mem'[cmd.slot][k] = cmd.obj[k]
        /\ \A p \in Part : p # k => mem'[cmd.slot][p] = mem[cmd.slot][p]
    <3>1. mem' = [mem EXCEPT ![cmd.slot][k] = cmd.obj[k]]
      BY <1>5 DEF sync_obj
    <3> QED
      BY <1>t, <3>1 DEF Object
  <2>2. pc = "sync" /\ UNCHANGED <<cmd, disk, apart>>
    BY <1>5 DEF sync_obj
  <2>3. CASE k + 1 \in Part
    BY <1>5, <1>t, <2>1, <2>2, <2>3, LastIndex DEF sync_obj
  <2>4. CASE k + 1 \notin Part
    <3>1. \A p \in Part : mem'[cmd.slot][p] = cmd.obj[p]
      <4> SUFFICES ASSUME NEW p \in Part, p # k PROVE mem'[cmd.slot][p] = cmd.obj[p]
        BY <2>1
      <4>1. p < k
        BY <1>t, <2>4, LastIndex
      <4> QED
        BY <2>1, <2>2, <4>1
    <3>2. mem'[cmd.slot] = cmd.obj
      <4> DEFINE f == mem'[cmd.slot]
                 g == cmd.obj
      <4>1. f \in Object /\ g \in Object /\ \A p \in Part : f[p] = g[p]
        BY <1>t, <3>1
      <4> HIDE DEF f, g
      <4>2. f = g
        BY <4>1, ObjectEqual
      <4> QED
        BY <4>2 DEF f, g
    <3> QED
      BY <1>5, <2>1, <2>2, <2>4, <3>2 DEF sync_obj
  <2> QED
    BY <2>3, <2>4
<1>6. CASE save_obj \/ WriteFails
  BY <1>6, <1>t, LastIndex DEF save_obj, WriteFails
<1>7. CASE save_buf
  <2>1. /\ \A s \in Slot : s # cmd.slot => disk'[s] = disk[s]
        /\ disk'[cmd.slot][k] = cmd.obj[k]
        /\ \A p \in Part : p # k => disk'[cmd.slot][p] = disk[cmd.slot][p]
    <3>1. disk' = [disk EXCEPT ![cmd.slot][k] = cmd.obj[k]]
      BY <1>7 DEF save_buf
    <3> QED
      BY <1>t, <3>1 DEF Object
  <2>2. /\ pc = "write" /\ UNCHANGED <<cmd, mem>>
        /\ \A s \in Slot : s # cmd.slot => (s \in apart' <=> s \in apart)
    BY <1>7 DEF save_buf
  <2>3. CASE k + 1 \in Part
    BY <1>7, <1>t, <2>1, <2>2, <2>3, LastIndex DEF save_buf
  <2>4. CASE k + 1 \notin Part
    <3>1. \A p \in Part : disk'[cmd.slot][p] = cmd.obj[p]
      <4> SUFFICES ASSUME NEW p \in Part, p # k PROVE disk'[cmd.slot][p] = cmd.obj[p]
        BY <2>1
      <4>1. p < k
        BY <1>t, <2>4, LastIndex
      <4> QED
        BY <2>1, <2>2, <4>1
    <3>2. disk'[cmd.slot] = cmd.obj
      <4> DEFINE f == disk'[cmd.slot]
                 g == cmd.obj
      <4>1. f \in Object /\ g \in Object /\ \A p \in Part : f[p] = g[p]
        BY <1>t, <3>1
      <4> HIDE DEF f, g
      <4>2. f = g
        BY <4>1, ObjectEqual
      <4> QED
        BY <4>2 DEF f, g
    <3> QED
      BY <1>7, <2>1, <2>2, <2>4, <3>2 DEF save_buf
  <2> QED
    BY <2>3, <2>4
<1>8. CASE FinishSet
  BY <1>8, <1>t DEF FinishSet
<1>9. ASSUME NEW c \in Camera, MainResets(c) \/ FrameResets(c) PROVE StoreInv'
  BY <1>9 DEF MainResets, FrameResets
<1>10. CASE Crash
  BY <1>10 DEF Crash
<1>11. CASE LoadDevice
  <2>1. PICK ok \in SUBSET {Dev} : /\ mem' = [mem EXCEPT ![Dev] = Loaded(Dev, ok)]
                                   /\ apart' = apart \ ok
    BY <1>11 DEF LoadDevice
  <2>2. \A s \in Slot : mem'[s] = Loaded(s, ok)
    BY <1>t, <2>1 DEF Loaded
  <2>3. pc = "load_dev" /\ pc' = "load" /\ disk' = disk
    BY <1>11 DEF LoadDevice
  <2> QED
    BY <2>1, <2>2, <2>3 DEF Loaded
<1>12. CASE LoadCamera
  <2>1. PICK ok \in SUBSET {Cam(k), Det(k)} :
          /\ mem' = [mem EXCEPT ![Cam(k)] = Loaded(Cam(k), ok),
                                ![Det(k)] = Loaded(Det(k), ok)]
          /\ apart' = apart \ ok
    BY <1>12 DEF LoadCamera
  <2>2. pc = "load" /\ k \in Camera /\ pc' \in {"load", "start"} /\ disk' = disk
    BY <1>12, <1>t DEF LoadCamera
  <2>3. \A s \in Slot : mem'[s] = Loaded(s, ok)
    BY <1>t, <2>1, <2>2 DEF Loaded
  <2>4. \A s \in Slot : s \notin apart => disk[s] = mem[s]
    BY <2>2
  <2>5. \A s \in Slot : s \notin apart' => disk'[s] = mem'[s]
    <3> SUFFICES ASSUME NEW s \in Slot, s \notin apart' PROVE disk'[s] = mem'[s]
      OBVIOUS
    <3>1. s \in ok \/ s \notin apart
      BY <2>1
    <3>2. disk'[s] = disk[s] /\ mem'[s] = Loaded(s, ok)
      BY <2>2, <2>3
    <3> QED
      BY <2>4, <3>1, <3>2 DEF Loaded
  <2> QED
    BY <2>2, <2>5
<1>13. CASE StartServices
  BY <1>13 DEF StartServices
<1>14. CASE UNCHANGED vars
  BY <1>14 DEF vars
<1> QED
  BY <1>1, <1>2, <1>3, <1>4, <1>5, <1>6, <1>7, <1>8, <1>9, <1>10, <1>11, <1>12, <1>13,
     <1>14
  DEF Next

LEMMA StoreInit == Init => StoreInv
  BY DEF Init, StoreInv, Busy, Copied, Agrees

\* Memory and files are related by StoreInv in every reachable state.
LEMMA StoreAlways == Spec => []StoreInv
  BY TypeCorrect, StoreInit, StoreStep, PTL DEF Spec

\* Whenever the server waits for a client, the files hold what is in memory, after
\* any commands, partial receives, crashes and restarts, except for the objects
\* whose last fopen or fwrite failed.
THEOREM FilesCorrect == Spec => []FileIsMemory
<1>1. StoreInv => FileIsMemory
  BY DEF StoreInv, FileIsMemory, Agrees, Busy
<1> QED
  BY <1>1, StoreAlways, PTL

-----------------------------------------------------------------------------
(* Answers.                                                                *)

\* The answer to a GET of a saved object is in the file, and no command at work
\* is about that object.
AnswerInv ==
    seen # NULL /\ seen.saved =>
        /\ disk[seen.slot] = seen.obj
        /\ pc \in Busy => cmd.slot # seen.slot

LEMMA AnswerStep ==
    TypeOK /\ StoreInv /\ AnswerInv /\ [Next]_vars => AnswerInv'
<1> SUFFICES ASSUME TypeOK, StoreInv, AnswerInv, [Next]_vars PROVE AnswerInv'
  OBVIOUS
<1> USE DEF AnswerInv, Busy, Goto, storeVars, effectVars, historyVars
<1>t. disk \in [Slot -> Object] /\ cmd.slot \in Slot /\ (seen # NULL => seen.slot \in Slot)
  BY DEF TypeOK, Command, Answer
<1>1. ASSUME NEW r \in Request, NEW n \in 0 .. NPart, SetCommand(r.slot, r.obj, n)
      PROVE  AnswerInv'
  BY <1>1 DEF SetCommand
<1>2. ASSUME NEW s \in Slot, GetCommand(s) PROVE AnswerInv'
  BY <1>2 DEF GetCommand, StoreInv, Agrees
<1>3. CASE ChangeCamParam \/ ChangeDetectParam
  BY <1>3 DEF ChangeCamParam, ChangeDetectParam
<1>4. CASE ChangeDevice
  BY <1>4 DEF ChangeDevice
<1>5. CASE sync_obj
  BY <1>5 DEF sync_obj
<1>6. CASE save_obj \/ WriteFails
  BY <1>6 DEF save_obj, WriteFails
<1>7. CASE save_buf
  BY <1>7, <1>t DEF save_buf
<1>8. CASE FinishSet
  BY <1>8 DEF FinishSet
<1>9. ASSUME NEW c \in Camera, MainResets(c) \/ FrameResets(c) PROVE AnswerInv'
  BY <1>9 DEF MainResets, FrameResets
<1>10. CASE Crash
  BY <1>10 DEF Crash
<1>11. CASE LoadDevice \/ LoadCamera \/ StartServices
  BY <1>11 DEF LoadDevice, LoadCamera, StartServices
<1>12. CASE UNCHANGED vars
  BY <1>12 DEF vars
<1> QED
  BY <1>1, <1>2, <1>3, <1>4, <1>5, <1>6, <1>7, <1>8, <1>9, <1>10, <1>11, <1>12 DEF Next

\* What a client has read of a saved object is in the file, and in memory after
\* every restart that can read the file, until that object is SET.
THEOREM AnswersDurable == Spec => []AnswerIsDurable
<1>1. Init => AnswerInv
  BY DEF Init, AnswerInv
<1>2. TypeOK /\ StoreInv /\ AnswerInv => AnswerIsDurable
  <2> SUFFICES ASSUME TypeOK, StoreInv, AnswerInv, seen # NULL, seen.saved
               PROVE  /\ disk[seen.slot] = seen.obj
                      /\ pc = "accept" /\ seen.slot \notin apart => mem[seen.slot] = seen.obj
    BY DEF AnswerIsDurable
  <2>1. seen.slot \in Slot
    BY DEF TypeOK, Answer
  <2> QED
    BY <2>1 DEF AnswerInv, StoreInv, Agrees, Busy
<1> QED
  BY <1>1, <1>2, AnswerStep, TypeCorrect, StoreAlways, PTL DEF Spec

-----------------------------------------------------------------------------
(* The effects of the configuration.                                       *)

\* A camera is open as memory says, or as the command at work says once its
\* turn of the loop of handle_change is over.
Settled(c, w) ==
    /\ w.camstatus \in {"closed", "opened"}
    /\ c \in opened <=> w.camstatus = "opened"

CamInv ==
    /\ pc \in {"accept", "start"} \/ (pc \in Busy /\ cmd.slot # Dev) =>
         \A c \in Camera \ odd : Settled(c, mem[Dev][c])
    /\ pc = "change" /\ cmd.slot = Dev =>
         \A c \in Camera \ odd : /\ c < k => Settled(c, cmd.obj[c])
                                 /\ ~(c < k) => Settled(c, mem[Dev][c])
    /\ pc \in Busy \ {"change"} /\ cmd.slot = Dev =>
         \A c \in Camera \ odd : Settled(c, cmd.obj[c])
    /\ pc = "load" => /\ \A c \in opened : c < k
                      /\ \A c \in Camera \ odd : c < k => Settled(c, mem[Dev][c])
    /\ pc = "load_dev" => opened = {}

LEMMA CamStep ==
    TypeOK /\ TypeOK' /\ StoreInv /\ CamInv /\ [Next]_vars => CamInv'
<1> SUFFICES ASSUME TypeOK, TypeOK', StoreInv, CamInv, [Next]_vars PROVE CamInv'
  OBVIOUS
<1> USE SlotFacts DEF CamInv, Settled, Busy, Goto, storeVars, effectVars, historyVars
<1>t. /\ mem \in [Slot -> Object] /\ cmd.slot \in Slot /\ cmd.obj \in Object /\ k \in Part
      /\ opened \subseteq Camera /\ (pc \in {"change", "load"} => k \in Camera)
  BY DEF TypeOK, Command
<1> DEFINE Set(c, w) == /\ w.camstatus \in {"closed", "opened"}
                        /\ c \in opened' <=> w.camstatus = "opened"
<1>1. ASSUME NEW r \in Request, NEW n \in 0 .. NPart, SetCommand(r.slot, r.obj, n)
      PROVE  CamInv'
  BY <1>1, LastIndex DEF SetCommand
<1>2. ASSUME NEW s \in Slot, GetCommand(s) PROVE CamInv'
  BY <1>2 DEF GetCommand
<1>3. CASE ChangeCamParam \/ ChangeDetectParam
  BY <1>3 DEF ChangeCamParam, ChangeDetectParam
<1>4. CASE ChangeDevice
  <2>1. pc = "change" /\ cmd.slot = Dev /\ k \in Camera /\ cmd' = cmd
    BY <1>4, <1>t DEF ChangeDevice
  <2>2. \A c \in Camera : c # k => /\ (c \in opened' <=> c \in opened)
                                 /\ (c \in odd' <=> c \in odd)
                                 /\ mem'[Dev][c] = mem[Dev][c]
    BY <1>4, <1>t DEF ChangeDevice, camera_open, camera_close, Object
  <2>3. k \notin odd' => Set(k, cmd.obj[k])
    <3>1. k \notin odd => Settled(k, mem[Dev][k])
      BY <2>1, LastIndex
    <3> DEFINE old == mem[Dev][k]
               new == cmd.obj[k]
               a == old.camstatus
               b == new.camstatus
               moved == old.ip # new.ip
               base == IF moved THEN opened \ {k} ELSE opened
               status == IF moved THEN "closed" ELSE a
               opens == status = "closed" /\ b = "opened"
               closes == status = "opened" /\ b = "closed"
    <3>2. k \notin odd => a \in {"closed", "opened"} /\ (k \in opened <=> a = "opened")
      BY <3>1
    <3>3. /\ opens => k \in opened'
          /\ closes => k \notin opened'
          /\ ~opens /\ ~closes => opened' = base
      BY <1>4 DEF ChangeDevice, camera_open, camera_close
    <3>4. odd' = IF b \notin {"closed", "opened"} THEN odd \union {k}
                 ELSE IF moved \/ opens \/ closes THEN odd \ {k} ELSE odd
      BY <1>4 DEF ChangeDevice
    <3> HIDE DEF old, new, a, b, moved, opens, closes
    <3>5. k \notin odd' => b \in {"closed", "opened"} /\ (k \in opened' <=> b = "opened")
      BY <3>2, <3>3, <3>4 DEF moved, opens, closes
    <3> QED
      BY <2>1, <3>5 DEF b, new
  <2>4. CASE k + 1 \in Camera
    <3>1. pc' = "change" /\ k' = k + 1
      BY <1>4, <2>1, <2>4 DEF ChangeDevice
    <3>2. \A c \in Camera : c # k => (c < k' <=> c < k)
      BY <2>1, <3>1 DEF Camera
    <3>3. k < k'
      BY <2>1, <3>1 DEF Camera
    <3>4. \A c \in Camera \ odd' : /\ c < k' => Set(c, cmd.obj[c])
                                   /\ ~(c < k') => Set(c, mem'[Dev][c])
      BY <2>1, <2>2, <2>3, <3>2, <3>3
    <3> QED
      BY <2>1, <3>1, <3>4
  <2>5. CASE k + 1 \notin Camera
    <3>1. pc' = "sync"
      BY <1>4, <2>1, <2>5 DEF ChangeDevice
    <3>2. \A c \in Camera : c # k => c < k
      BY <2>1, <2>5, LastIndex
    <3>3. \A c \in Camera \ odd' : Set(c, cmd.obj[c])
      BY <2>1, <2>2, <2>3, <3>2
    <3> QED
      BY <2>1, <3>1, <3>3
  <2> QED
    BY <2>4, <2>5
<1>5. CASE sync_obj
  <2>1. cmd.slot # Dev => mem'[Dev] = mem[Dev]
    BY <1>5, <1>t DEF sync_obj
  <2> QED
    BY <1>5, <2>1 DEF sync_obj
<1>6. CASE save_obj \/ save_buf \/ WriteFails
  BY <1>6 DEF save_obj, save_buf, WriteFails
<1>7. CASE FinishSet
  BY <1>7, <1>t DEF FinishSet, StoreInv, Copied
<1>8. ASSUME NEW c \in Camera, MainResets(c) \/ FrameResets(c) PROVE CamInv'
  BY <1>8 DEF MainResets, FrameResets
<1>9. CASE Crash
  BY <1>9 DEF Crash
<1>10. CASE LoadDevice
  BY <1>10, LastIndex DEF LoadDevice
<1>11. CASE LoadCamera
  <2>1. pc = "load" /\ k \in Camera /\ mem'[Dev] = mem[Dev]
    BY <1>11, <1>t DEF LoadCamera
  <2>2. /\ \A c \in opened' : c \in Camera /\ (c < k \/ c = k)
        /\ \A c \in Camera \ odd' : c < k \/ c = k => Set(c, mem'[Dev][c])
    <3>1. k \notin opened
      BY <2>1 DEF Camera
    <3>2. \A c \in Camera : c # k => (c \in opened' <=> c \in opened)
                                   /\ (c \in odd' <=> c \in odd)
      BY <1>11, <2>1 DEF LoadCamera
    <3>3. k \notin odd' => Set(k, mem'[Dev][k])
      <4> DEFINE a == mem[Dev][k].camstatus
      <4>1. k \notin odd' => a \in {"closed", "opened"}
        BY <1>11 DEF LoadCamera
      <4>2. IF a = "opened" THEN opened' = opened \union {k} ELSE opened' = opened
        BY <1>11 DEF LoadCamera
      <4>3. mem'[Dev][k].camstatus = a
        BY <2>1
      <4> HIDE DEF a
      <4>4. k \in opened' <=> a = "opened"
        BY <3>1, <4>2
      <4> QED
        BY <4>1, <4>3, <4>4
    <3>4. opened' \subseteq Camera
      BY <1>11, <1>t, <2>1 DEF LoadCamera
    <3>5. \A c \in opened' : c \in Camera /\ (c < k \/ c = k)
      BY <2>1, <3>2, <3>4
    <3>6. \A c \in Camera \ odd' : c < k => Set(c, mem'[Dev][c])
      BY <2>1, <3>2, LastIndex
    <3> QED
      BY <3>3, <3>5, <3>6
  <2>3. CASE k + 1 \in Camera
    <3>1. pc' = "load" /\ k' = k + 1
      BY <1>11, <2>1, <2>3 DEF LoadCamera
    <3>2. \A c \in Camera : c < k' <=> c < k \/ c = k
      BY <2>1, <3>1 DEF Camera
    <3> QED
      BY <2>1, <2>2, <3>1, <3>2
  <2>4. CASE k + 1 \notin Camera
    <3>1. pc' = "start"
      BY <1>11, <2>4 DEF LoadCamera
    <3>2. \A c \in Camera : c < k \/ c = k
      BY <2>1, <2>4, LastIndex
    <3> QED
      BY <2>1, <2>2, <3>1, <3>2
  <2> QED
    BY <2>3, <2>4
<1>12. CASE StartServices
  BY <1>12 DEF StartServices
<1>13. CASE UNCHANGED vars
  BY <1>13 DEF vars
<1> QED
  BY <1>1, <1>2, <1>3, <1>4, <1>5, <1>6, <1>7, <1>8, <1>9, <1>10, <1>11, <1>12, <1>13
  DEF Next

\* The open cameras are those the configuration says whenever the server waits,
\* whatever addresses changed, and after every restart, except for a camera whose
\* last status was neither open nor closed.
THEOREM CamerasCorrect == Spec => []CamerasAsConfigured
<1>1. Init => CamInv
  BY SlotFacts DEF Init, CamInv, Settled, Busy, ZeroObject, Zero
<1>2. TypeOK /\ CamInv => CamerasAsConfigured
  BY DEF TypeOK, CamInv, Settled, CamerasAsConfigured
<1> QED
  BY <1>1, <1>2, CamStep, TypeCorrect, StoreAlways, PTL DEF Spec

\* The algorithm of an open camera has the parameters in memory, a command
\* waits for it, or sync_obj is at work on them and CHANGE_ALG is noted.
AlgInv ==
    /\ pc \in {"accept", "start", "change"} =>
         \A c \in opened \ pending : alg[c].det = mem[Det(c)]
    /\ pc \in Busy \ {"change"} =>
         /\ \A c \in opened \ pending : Det(c) # cmd.slot => alg[c].det = mem[Det(c)]
         /\ FileOf(cmd.slot) = "det" => flag = "CHANGE_ALG"
    /\ pc = "load" => \A c \in opened : c < k /\ alg[c].det = mem[Det(c)]
    /\ pc = "load_dev" => opened = {}
    /\ \A c \in opened \ stale : alg[c].cam = mem[Cam(c)]

LEMMA AlgStep == TypeOK /\ AlgInv /\ [Next]_vars => AlgInv'
<1> SUFFICES ASSUME TypeOK, AlgInv, [Next]_vars PROVE AlgInv'
  OBVIOUS
<1> USE SlotFacts DEF AlgInv, Busy, Goto, storeVars, effectVars, historyVars
<1>t. /\ mem \in [Slot -> Object] /\ cmd.slot \in Slot /\ k \in Part
      /\ alg \in [Camera -> [det : Object, cam : Object]] /\ opened \subseteq Camera
      /\ (pc \in {"change", "load"} => k \in Camera)
  BY DEF TypeOK, Command
<1>1. ASSUME NEW r \in Request, NEW n \in 0 .. NPart, SetCommand(r.slot, r.obj, n)
      PROVE  AlgInv'
  BY <1>1 DEF SetCommand
<1>2. ASSUME NEW s \in Slot, GetCommand(s) PROVE AlgInv'
  BY <1>2 DEF GetCommand
<1>3. CASE ChangeCamParam \/ ChangeDetectParam
  BY <1>3 DEF ChangeCamParam, ChangeDetectParam
<1>4. CASE ChangeDevice
  <2>1. pc = "change" /\ cmd.slot = Dev /\ k \in Camera /\ cmd' = cmd /\ flag' = flag
    BY <1>4, <1>t DEF ChangeDevice
  <2>2. \A c \in Camera : mem'[Det(c)] = mem[Det(c)] /\ mem'[Cam(c)] = mem[Cam(c)]
    BY <1>4, <1>t DEF ChangeDevice
  <2>3. \A c \in Camera : c # k => /\ (c \in opened' <=> c \in opened)
                                 /\ alg'[c] = alg[c]
                                 /\ (c \in pending' <=> c \in pending)
                                 /\ (c \in stale' <=> c \in stale)
    BY <1>4, <1>t DEF ChangeDevice, camera_open, camera_close, open_alg
  <2>4. k \in opened' \ pending' => alg'[k].det = mem[Det(k)]
    BY <1>4, <1>t, <2>1 DEF ChangeDevice, camera_open, camera_close, open_alg
  <2>7. k \in opened' \ stale' => alg'[k].cam = mem[Cam(k)]
    BY <1>4, <1>t, <2>1 DEF ChangeDevice, camera_open, camera_close, open_alg
  <2>5. opened' \subseteq Camera
    BY <1>4, <1>t, <2>1 DEF ChangeDevice, camera_open, camera_close
  <2>6. pc' \in {"change", "sync"}
    BY <1>4 DEF ChangeDevice
  <2> QED
    BY <2>1, <2>2, <2>3, <2>4, <2>5, <2>6, <2>7
<1>5. CASE sync_obj
  <2>1. \A s \in Slot : s # cmd.slot => mem'[s] = mem[s]
    BY <1>5, <1>t DEF sync_obj
  <2>2. \A c \in Camera : c \notin stale' => Cam(c) # cmd.slot /\ c \notin stale
    BY <1>5 DEF sync_obj
  <2> QED
    BY <1>5, <1>t, <2>1, <2>2 DEF sync_obj
<1>6. CASE save_obj \/ save_buf \/ WriteFails
  BY <1>6 DEF save_obj, save_buf, WriteFails
<1>7. CASE FinishSet
  BY <1>7, <1>t DEF FinishSet
<1>8. ASSUME NEW c \in Camera, MainResets(c) \/ FrameResets(c) PROVE AlgInv'
  <2>1. /\ alg'[c].det = mem[Det(c)] /\ alg'[c].cam = mem[Cam(c)]
        /\ \A d \in Camera : d # c => alg'[d] = alg[d] /\ (d \in pending' <=> d \in pending)
                                      /\ (d \in stale' <=> d \in stale)
    BY <1>8, <1>t DEF MainResets, FrameResets, open_alg
  <2>2. UNCHANGED <<mem, pc, k, cmd, flag, opened>>
    BY <1>8 DEF MainResets, FrameResets
  <2> QED
    BY <1>t, <2>1, <2>2
<1>9. CASE Crash
  BY <1>9 DEF Crash
<1>10. CASE LoadDevice
  BY <1>10 DEF LoadDevice
<1>11. CASE LoadCamera
  <2>1. pc = "load" /\ k \in Camera /\ k \notin opened
    BY <1>11, <1>t DEF LoadCamera, Camera
  <2>2. PICK ok \in SUBSET {Cam(k), Det(k)} :
          /\ mem' = [mem EXCEPT ![Cam(k)] = Loaded(Cam(k), ok),
                                ![Det(k)] = Loaded(Det(k), ok)]
          /\ IF mem[Dev][k].camstatus = "opened"
             THEN /\ opened' = opened \union {k}
                  /\ alg' = [alg EXCEPT ![k] = [det |-> Loaded(Det(k), ok),
                                                cam |-> Loaded(Cam(k), ok)]]
             ELSE UNCHANGED <<opened, alg>>
    BY <1>11 DEF LoadCamera
  <2>3. \A c \in Camera : c # k => mem'[Det(c)] = mem[Det(c)] /\ mem'[Cam(c)] = mem[Cam(c)]
    <3>1. \A c \in Camera : c # k => {Det(c), Cam(c)} \intersect {Cam(k), Det(k)} = {}
      BY <2>1
    <3> QED
      BY <1>t, <2>1, <2>2, <3>1
  <2>8. mem'[Det(k)] = Loaded(Det(k), ok) /\ mem'[Cam(k)] = Loaded(Cam(k), ok)
    BY <1>t, <2>1, <2>2
  <2>4. /\ \A c \in opened' : (c < k \/ c = k) /\ c \in Camera /\ alg'[c].det = mem'[Det(c)]
        /\ \A c \in opened' \ stale' : alg'[c].cam = mem'[Cam(c)]
    <3>1. stale' = stale
      BY <1>11 DEF LoadCamera
    <3> QED
      BY <1>t, <2>1, <2>2, <2>3, <2>8, <3>1
  <2>5. k + 1 \in Camera => \A c \in Camera : c < k + 1 <=> c < k \/ c = k
    BY <2>1 DEF Camera
  <2>6. CASE k + 1 \in Camera
    <3>1. pc' = "load" /\ k' = k + 1
      BY <1>11, <2>1, <2>6 DEF LoadCamera
    <3> QED
      BY <2>4, <2>5, <2>6, <3>1
  <2>7. CASE k + 1 \notin Camera
    <3>1. pc' = "start"
      BY <1>11, <2>7 DEF LoadCamera
    <3> QED
      BY <2>4, <3>1
  <2> QED
    BY <2>6, <2>7
<1>12. CASE StartServices
  BY <1>12 DEF StartServices
<1>13. CASE UNCHANGED vars
  BY <1>13 DEF vars
<1> QED
  BY <1>1, <1>2, <1>3, <1>4, <1>5, <1>6, <1>7, <1>8, <1>9, <1>10, <1>11, <1>12, <1>13
  DEF Next

\* Whenever the server waits, the algorithm of an open camera has the configured
\* detection parameters or a reset waits for it, although a camera's thread may
\* have read them in the middle of sync_obj; and it has the configured camera
\* parameters unless they were SET after it was initialised.
THEOREM AlgorithmsCorrect == Spec => []AlgAsConfigured
<1>1. Init => AlgInv
  BY DEF Init, AlgInv, Busy
<1>2. AlgInv => AlgAsConfigured
  BY DEF AlgInv, AlgAsConfigured
<1> QED
  BY <1>1, <1>2, AlgStep, TypeCorrect, PTL DEF Spec

\* The service has the address in memory, or the command at work is about it and
\* either notes CHANGE_SIG_IP or brings the address the service has.
LinkInv ==
    /\ pc = "accept" \/ (pc \in Busy /\ (cmd.slot # Cam(0) \/ pc = "change")) =>
         sig = mem[Cam(0)][0].ip
    /\ pc = "change" => flag = "CHANGE_NOTHING"
    /\ pc \in Busy \ {"change"} /\ cmd.slot = Cam(0) =>
         flag = "CHANGE_SIG_IP" \/ sig = cmd.obj[0].ip

LEMMA LinkStep == TypeOK /\ StoreInv /\ LinkInv /\ [Next]_vars => LinkInv'
<1> SUFFICES ASSUME TypeOK, StoreInv, LinkInv, [Next]_vars PROVE LinkInv'
  OBVIOUS
<1> USE SlotFacts DEF LinkInv, Busy, Goto, storeVars, effectVars, historyVars
<1>t. mem \in [Slot -> Object] /\ cmd.slot \in Slot /\ k \in Part
  BY DEF TypeOK, Command
<1>1. ASSUME NEW r \in Request, NEW n \in 0 .. NPart, SetCommand(r.slot, r.obj, n)
      PROVE  LinkInv'
  BY <1>1 DEF SetCommand
<1>2. ASSUME NEW s \in Slot, GetCommand(s) PROVE LinkInv'
  BY <1>2 DEF GetCommand
<1>3. CASE ChangeCamParam
  BY <1>3 DEF ChangeCamParam
<1>4. CASE ChangeDetectParam
  BY <1>4 DEF ChangeDetectParam
<1>5. CASE ChangeDevice
  <2>1. mem'[Cam(0)] = mem[Cam(0)]
    BY <1>5, <1>t DEF ChangeDevice
  <2>2. pc = "change" /\ pc' \in {"change", "sync"} /\ cmd.slot = Dev
        /\ cmd' = cmd /\ flag' = flag /\ sig' = sig
    BY <1>5 DEF ChangeDevice
  <2> QED
    BY <2>1, <2>2
<1>6. CASE sync_obj
  <2>1. cmd.slot # Cam(0) => mem'[Cam(0)] = mem[Cam(0)]
    BY <1>6, <1>t DEF sync_obj
  <2> QED
    BY <1>6, <2>1 DEF sync_obj
<1>7. CASE save_obj \/ save_buf \/ WriteFails
  BY <1>7 DEF save_obj, save_buf, WriteFails
<1>8. CASE FinishSet
  BY <1>8 DEF FinishSet, StoreInv, Copied
<1>9. ASSUME NEW c \in Camera, MainResets(c) \/ FrameResets(c) PROVE LinkInv'
  BY <1>9 DEF MainResets, FrameResets
<1>10. CASE Crash
  BY <1>10 DEF Crash
<1>11. CASE LoadDevice
  BY <1>11 DEF LoadDevice
<1>12. CASE LoadCamera
  <2>1. pc' \in {"load", "start"}
    BY <1>12 DEF LoadCamera
  <2> QED
    BY <2>1
<1>13. CASE StartServices
  BY <1>13 DEF StartServices
<1>14. CASE UNCHANGED vars
  BY <1>14 DEF vars
<1> QED
  BY <1>1, <1>2, <1>3, <1>4, <1>5, <1>6, <1>7, <1>8, <1>9, <1>10, <1>11, <1>12, <1>13,
     <1>14
  DEF Next

\* Whenever the server waits, the signal service has the configured address.
THEOREM LinkCorrect == Spec => []LinkAsConfigured
<1>1. Init => LinkInv
  BY SlotFacts DEF Init, LinkInv, Busy, ZeroObject, Zero
<1>2. LinkInv => LinkAsConfigured
  BY DEF LinkInv, LinkAsConfigured
<1> QED
  BY <1>1, <1>2, LinkStep, TypeCorrect, StoreAlways, PTL DEF Spec

-----------------------------------------------------------------------------
(* Torn writes.                                                            *)

\* disk[cmd.slot] is the new object up to part n and the old one behind it.
TornAt(n) == disk[cmd.slot] = [p \in Part |-> IF p < n THEN cmd.obj[p] ELSE before[p]]

TornInv ==
    /\ pc \in {"change", "sync", "save"} => TornAt(0)
    /\ pc = "write" => TornAt(k)
    /\ TornAtOnePlace

LEMMA TornStep == TypeOK /\ TornInv /\ [Next]_vars => TornInv'
<1> SUFFICES ASSUME TypeOK, TornInv, [Next]_vars PROVE TornInv'
  OBVIOUS
<1> USE DEF TornInv, Goto, storeVars, effectVars, historyVars
<1>n. 0 \in 0 .. NPart /\ k \in 0 .. NPart /\ k + 1 \in 0 .. NPart
  BY ConstantAssumption DEF TypeOK, Part
<1>t. /\ disk \in [Slot -> Object] /\ cmd.slot \in Slot /\ cmd.obj \in Object
      /\ k \in Part /\ before \in Object
  BY DEF TypeOK, Command
<1>1. ASSUME NEW r \in Request, NEW n \in 0 .. NPart, SetCommand(r.slot, r.obj, n)
      PROVE  TornInv'
  <2> DEFINE s == r.slot
  <2>0. s \in Slot
    BY RequestAssumption DEF Command
  <2> HIDE DEF s
  <2>1. disk' = disk /\ cmd'.slot = s /\ before' = disk[s] /\ pc' = "change"
    BY <1>1 DEF SetCommand, s
  <2>2. disk[s] = [p \in Part |-> disk[s][p]]
    BY <1>t, <2>0 DEF Object
  <2>3. \A p \in Part : ~(p < 0)
    BY DEF Part
  <2>4. TornAt(0)'
    BY <2>1, <2>2, <2>3 DEF TornAt
  <2> QED
    BY <1>n, <2>1, <2>4 DEF TornAt, TornAtOnePlace
<1>2. CASE save_buf
  <2>1. disk' = [disk EXCEPT ![cmd.slot][k] = cmd.obj[k]] /\ UNCHANGED <<cmd, before>>
        /\ pc = "write"
    BY <1>2 DEF save_buf
  <2>2. \A p \in Part : p < k + 1 <=> p < k \/ p = k
    BY <1>t DEF Part
  <2>3. disk'[cmd.slot] = [p \in Part |-> IF p < k + 1 THEN cmd.obj[p] ELSE before[p]]
    BY <1>t, <2>1, <2>2 DEF TornAt, Object
  <2>4. TornAtOnePlace'
    BY <1>n, <2>1, <2>3 DEF TornAtOnePlace
  <2>5. pc' = "write" => k' = k + 1
    BY <1>2 DEF save_buf
  <2>6. pc' \in {"write", "finish"}
    BY <1>2 DEF save_buf
  <2> QED
    BY <2>1, <2>3, <2>4, <2>5, <2>6 DEF TornAt
<1>3. CASE save_obj \/ WriteFails
  BY <1>3 DEF save_obj, WriteFails, TornAt, TornAtOnePlace
<1>4. CASE UNCHANGED <<disk, cmd, before>> /\ pc' # "write"
           /\ (pc' \in {"change", "sync", "save"} => pc \in {"change", "sync"})
  BY <1>4 DEF TornAt, TornAtOnePlace
<1>5. CASE UNCHANGED <<disk, cmd, before, pc, k>>
  BY <1>5 DEF TornAt, TornAtOnePlace
<1>6. ASSUME NEW s \in Slot, GetCommand(s) PROVE TornInv'
  BY <1>5, <1>6 DEF GetCommand
<1>7. CASE ChangeCamParam \/ ChangeDetectParam
  BY <1>4, <1>7 DEF ChangeCamParam, ChangeDetectParam
<1>8. CASE ChangeDevice
  BY <1>4, <1>8 DEF ChangeDevice
<1>9. CASE sync_obj
  BY <1>4, <1>9 DEF sync_obj
<1>10. CASE FinishSet \/ Crash \/ StartServices
  BY <1>4, <1>10 DEF FinishSet, Crash, StartServices
<1>11. CASE LoadDevice \/ LoadCamera
  BY <1>4, <1>11 DEF LoadDevice, LoadCamera
<1>12. ASSUME NEW c \in Camera, MainResets(c) \/ FrameResets(c) PROVE TornInv'
  BY <1>5, <1>12 DEF MainResets, FrameResets
<1>13. CASE UNCHANGED vars
  BY <1>5, <1>13 DEF vars
<1> QED
  BY <1>1, <1>2, <1>3, <1>6, <1>7, <1>8, <1>9, <1>10, <1>11, <1>12, <1>13 DEF Next

\* Whenever and wherever the process dies, the object on disk is the new one up
\* to some part and the old one behind it.
THEOREM TornWrites == Spec => []TornAtOnePlace
<1>1. Init => TornInv
  <2> SUFFICES ASSUME Init PROVE TornInv
    OBVIOUS
  <2>1. disk[cmd.slot] = ZeroObject /\ before = ZeroObject /\ cmd.obj = ZeroObject
        /\ pc = "accept"
    BY SlotFacts DEF Init
  <2>2. TornAt(0)
    BY <2>1 DEF TornAt, ZeroObject
  <2> QED
    BY <2>1, <2>2, ConstantAssumption DEF TornInv, TornAt, TornAtOnePlace
<1>2. TornInv => TornAtOnePlace
  BY DEF TornInv
<1> QED
  BY <1>1, <1>2, TornStep, TypeCorrect, PTL DEF Spec
=============================================================================
