--------------------------- MODULE PvdServerProofs ---------------------------
(***************************************************************************)
(* Safety of PvdServer for any number of sessions, any size of receives    *)
(* and any number of commands.                                             *)
(***************************************************************************)
EXTENDS PvdServer, FiniteSetTheorems, TLAPS

-----------------------------------------------------------------------------
LEMMA ParseType == ASSUME NEW t \in Text PROVE Parse(t) \in Command \union {NULL}
  BY DEF Parse

LEMMA TextFacts ==
    /\ \A s \in Text, n \in Nat : n <= Len(s) => SubSeq(s, 1, n) \in Text
                                             /\ SubSeq(s, n + 1, Len(s)) \in Text
    /\ \A s, t \in Text : s \o t \in Text
    /\ <<>> \in Text
    /\ \A cmd \in Command : Object[cmd] \in Text
<1>1. \A s \in Text, n \in Nat : n <= Len(s) => SubSeq(s, 1, n) \in Text
                                            /\ SubSeq(s, n + 1, Len(s)) \in Text
  BY DEF Text
<1>2. \A cmd \in Command : Object[cmd] \in Text
  <2>1. Object.set \in Text /\ Object.get \in Text
    BY DEF Object, Text, Char, Command
  <2> QED
    BY <2>1 DEF Command
<1>3. \A s, t \in Text : s \o t \in Text
  BY DEF Text
<1>4. <<>> \in Text
  BY DEF Text
<1> QED
  BY <1>1, <1>2, <1>3, <1>4

\* The vector without the entry at place i.
LEMMA EraseFacts ==
    ASSUME NEW q \in Seq(Session), NEW i \in 1 .. Len(q)
    PROVE  /\ Without(q, i) \in Seq(Session) /\ Len(Without(q, i)) = Len(q) - 1
           /\ \A k \in 1 .. Len(Without(q, i)) :
                 \E j \in 1 .. Len(q) : Without(q, i)[k] = q[j]
<1> DEFINE x == SubSeq(q, 1, i - 1)
           y == SubSeq(q, i + 1, Len(q))
           r == Without(q, i)
<1>1. /\ x \in Seq(Session) /\ Len(x) = i - 1
      /\ \A k \in 1 .. i - 1 : x[k] = q[k]
  OBVIOUS
<1>2. /\ y \in Seq(Session) /\ Len(y) = Len(q) - i
      /\ \A k \in 1 .. Len(q) - i : y[k] = q[i + k]
  OBVIOUS
<1>3. r = x \o y
  BY DEF Without
<1>4. \A a, b \in Nat :
        a \in 1 .. b =>
            /\ a - 1 \in Nat /\ b - a \in Nat
            /\ (a - 1) + (b - a) = b - 1
            /\ \A k \in 1 .. a - 1 : k \in 1 .. b
            /\ \A k \in 1 .. b - a : a + k \in 1 .. b
  OBVIOUS
<1>5. Len(q) \in Nat /\ i \in Nat
  OBVIOUS
<1> HIDE DEF x, y, r
<1>6. ASSUME NEW u \in Seq(Session), NEW v \in Seq(Session)
      PROVE  /\ u \o v \in Seq(Session) /\ Len(u \o v) = Len(u) + Len(v)
             /\ \A k \in 1 .. Len(u \o v) : (\E j \in 1 .. Len(u) : (u \o v)[k] = u[j])
                                             \/ (\E j \in 1 .. Len(v) : (u \o v)[k] = v[j])
  <2>1. ASSUME NEW k \in 1 .. Len(u \o v), k > Len(u)
        PROVE  k - Len(u) \in 1 .. Len(v) /\ (u \o v)[k] = v[k - Len(u)]
    BY <2>1
  <2>2. ASSUME NEW k \in 1 .. Len(u \o v), k <= Len(u)
        PROVE  k \in 1 .. Len(u) /\ (u \o v)[k] = u[k]
    BY <2>2
  <2>3. u \o v \in Seq(Session) /\ Len(u \o v) = Len(u) + Len(v) /\ Len(u) \in Nat
    OBVIOUS
  <2>4. \A k \in 1 .. Len(u \o v) : k > Len(u) \/ k <= Len(u)
    BY <2>3
  <2> QED
    BY <2>1, <2>2, <2>3, <2>4
<1>7. r \in Seq(Session) /\ Len(r) = Len(x) + Len(y)
  BY <1>1, <1>2, <1>3, <1>6
<1>8. Len(r) = Len(q) - 1
  BY <1>1, <1>2, <1>4, <1>5, <1>7
<1>9. ASSUME NEW k \in 1 .. Len(r) PROVE \E j \in 1 .. Len(q) : r[k] = q[j]
  <2>1. (\E j \in 1 .. Len(x) : r[k] = x[j]) \/ (\E j \in 1 .. Len(y) : r[k] = y[j])
    <3>1. \A m \in 1 .. Len(x \o y) : (\E j \in 1 .. Len(x) : (x \o y)[m] = x[j])
                                     \/ (\E j \in 1 .. Len(y) : (x \o y)[m] = y[j])
      BY <1>1, <1>2, <1>6
    <3> QED
      BY <1>3, <3>1
  <2>2. ASSUME NEW j \in 1 .. Len(x) PROVE \E m \in 1 .. Len(q) : x[j] = q[m]
    BY <1>1, <1>4, <1>5
  <2>3. ASSUME NEW j \in 1 .. Len(y) PROVE \E m \in 1 .. Len(q) : y[j] = q[m]
    BY <1>2, <1>4, <1>5
  <2> QED
    BY <2>1, <2>2, <2>3
<1> QED
  BY <1>7, <1>8, <1>9 DEF r

\* While the listening thread sets a session up, cur is that session.
TypeInv == TypeOK /\ (listener # "wait" => cur \in Session)

LEMMA TypeStep == TypeInv /\ [Next]_vars => TypeInv'
<1> SUFFICES ASSUME TypeInv, [Next]_vars PROVE TypeInv'
  OBVIOUS
<1> USE ConstantAssumption
    DEF TypeInv, TypeOK, sessionVars, textVars, fileVars, clientVars
<1>1. ASSUME NEW s \in Session, Accept(s) PROVE TypeInv'
  BY <1>1 DEF Accept
<1>2. CASE SetEndThis \/ SetProcessData
  BY <1>2 DEF SetEndThis, SetProcessData
<1>3. CASE PushBack
  <2>1. clients' \in Seq(Session)
    BY <1>3 DEF PushBack
  <2>2. iter' \in [Session -> Nat]
    BY <1>3 DEF PushBack
  <2> QED
    BY <1>3, <2>1, <2>2 DEF PushBack
<1>4. ASSUME NEW s \in Session, RecvEnd(s) \/ EndSilently(s) \/ Return(s) PROVE TypeInv'
  BY <1>4 DEF RecvEnd, EndSilently, Return
<1>5. ASSUME NEW s \in Session, NEW n \in 1 .. BUF_SIZE, DropData(s, n) \/ AppendData(s, n)
      PROVE  TypeInv'
  <2>1. wire[s] \in Text /\ n \in Nat /\ n <= Len(wire[s])
    <3>1. n <= Len(wire[s])
      BY <1>5 DEF DropData, AppendData
    <3> QED
      BY <3>1
  <2>2. SubSeq(wire[s], 1, n) \in Text /\ SubSeq(wire[s], n + 1, Len(wire[s])) \in Text
    BY <2>1, TextFacts
  <2>3. str_stream \o SubSeq(wire[s], 1, n) \in Text
    BY <2>2, TextFacts
  <2>4. wire' \in [Session -> Text]
    <3>1. wire' = [wire EXCEPT ![s] = SubSeq(@, n + 1, Len(@))]
      BY <1>5 DEF DropData, AppendData
    <3> QED
      BY <2>2, <3>1
  <2>5. str_stream' \in Text
    BY <1>5, <2>3 DEF DropData, AppendData
  <2>6. mixed' \in BOOLEAN
    BY <1>5 DEF DropData, AppendData
  <2>7. owner' \in Session \union {NULL}
    BY <1>5 DEF DropData, AppendData
  <2>8. thread' = thread \/ thread' = [thread EXCEPT ![s] = "scan"]
    BY <1>5 DEF DropData, AppendData
  <2> QED
    BY <1>5, <2>4, <2>5, <2>6, <2>7, <2>8 DEF DropData, AppendData
<1>6. ASSUME NEW s \in Session, try_get_obj_buf(s) PROVE TypeInv'
  <2>1. valid_buf' \in [Session -> Text]
    <3>1. valid_buf' = valid_buf \/ valid_buf' = [valid_buf EXCEPT ![s] = str_stream]
      BY <1>6 DEF try_get_obj_buf
    <3>2. str_stream \in Text /\ valid_buf \in [Session -> Text]
      OBVIOUS
    <3> QED
      BY ONLY <3>1, <3>2
  <2>2. thread' \in [Session -> {"none", "recv", "scan", "cut", "execute", "save", "write",
                                 "load", "length", "reply", "end", "erase", "return", "done"}]
    BY <1>6 DEF try_get_obj_buf
  <2> QED
    BY <1>6, <2>1, <2>2 DEF try_get_obj_buf
<1>7. ASSUME NEW s \in Session, get_valid_buf(s) PROVE TypeInv'
  <2>1. str_stream' \in Text
    <3> DEFINE m == Len(valid_buf[s])
    <3>1. m \in Nat
      BY DEF Text
    <3>2. str_stream' = str_stream
            \/ (m <= Len(str_stream) /\ str_stream' = SubSeq(str_stream, m + 1, Len(str_stream)))
      BY <1>7 DEF get_valid_buf
    <3> HIDE DEF m
    <3>3. str_stream \in Text
      OBVIOUS
    <3> QED
      BY ONLY <3>1, <3>2, <3>3, TextFacts
  <2>2. crashed' \in BOOLEAN
    BY <1>7 DEF get_valid_buf
  <2> QED
    BY <1>7, <2>1, <2>2 DEF get_valid_buf
<1>8. ASSUME NEW s \in Session, Execute(s) PROVE TypeInv'
  <2>1. Parse(valid_buf[s]) \in Command \union {NULL}
    BY ParseType
  <2>2. executed' \in [Session -> Seq(Command \union {NULL})]
    <3>1. \A q \in Seq(Command \union {NULL}), c \in Command \union {NULL} :
             Append(q, c) \in Seq(Command \union {NULL})
      OBVIOUS
    <3>2. Append(executed[s], Parse(valid_buf[s])) \in Seq(Command \union {NULL})
      BY <2>1, <3>1
    <3>3. executed' = executed
            \/ executed' = [executed EXCEPT ![s] = Append(executed[s], Parse(valid_buf[s]))]
      BY <1>8 DEF Execute
    <3> QED
      BY <3>2, <3>3
  <2>3. valid_buf' \in [Session -> Text]
    BY <1>8, TextFacts DEF Execute
  <2>4. thread' \in [Session -> {"none", "recv", "scan", "cut", "execute", "save", "write",
                                 "load", "length", "reply", "end", "erase", "return", "done"}]
    BY <1>8 DEF Execute
  <2> QED
    BY <1>8, <2>2, <2>3, <2>4 DEF Execute
<1>9. ASSUME NEW s \in Session, save(s) \/ save_file(s) PROVE TypeInv'
  BY <1>9 DEF save, save_file
<1>10. ASSUME NEW s \in Session, load(s) PROVE TypeInv'
  <2>1. torn' \in BOOLEAN
    BY <1>10 DEF load
  <2>2. thread' \in [Session -> {"none", "recv", "scan", "cut", "execute", "save", "write",
                                 "load", "length", "reply", "end", "erase", "return", "done"}]
    BY <1>10 DEF load
  <2> QED
    BY <1>10, <2>1, <2>2 DEF load
<1>11. ASSUME NEW s \in Session, Throw(s) \/ OpenFails(s) \/ Reply(s) PROVE TypeInv'
  BY <1>11 DEF Throw, OpenFails, Reply
<1>12. ASSUME NEW s \in Session, find(s) PROVE TypeInv'
  <2>1. iter' \in [Session -> Nat]
    <3>1. Len(clients) + 1 \in Nat /\ 1 .. Len(clients) \subseteq Nat
      OBVIOUS
    <3>2. \E i \in Nat : iter' = [iter EXCEPT ![s] = i]
      BY <1>12, <3>1 DEF find
    <3> QED
      BY <3>2
  <2> QED
    BY <1>12, <2>1 DEF find
<1>13. ASSUME NEW s \in Session, erase(s) PROVE TypeInv'
  <2>1. clients' \in Seq(Session)
    BY <1>13, EraseFacts DEF erase
  <2>2. crashed' \in BOOLEAN /\ deleting' \subseteq Session
    BY <1>13 DEF erase
  <2> QED
    BY <1>13, <2>1, <2>2 DEF erase
<1>14. ASSUME NEW s \in Session, Delete(s) PROVE TypeInv'
  BY <1>14 DEF Delete
<1>15. CASE Race
  BY <1>15 DEF Race
<1>16. ASSUME NEW s \in Session, NEW cmd \in Command, Send(s, cmd) PROVE TypeInv'
  <2>1. wire' \in [Session -> Text]
    <3>1. wire[s] \o Object[cmd] \in Text
      BY TextFacts
    <3> QED
      BY <1>16, <3>1 DEF Send
  <2>2. sent' \in [Session -> Seq(Command)]
    BY <1>16 DEF Send
  <2>3. mixed' \in BOOLEAN
    BY <1>16 DEF Send
  <2> QED
    BY <1>16, <2>1, <2>2, <2>3 DEF Send
<1>17. ASSUME NEW s \in Session, Close(s) PROVE TypeInv'
  BY <1>17 DEF Close
<1>18. ASSUME NEW s \in Session, Break(s) PROVE TypeInv'
  <2>1. wire' \in [Session -> Text]
    BY <1>18, TextFacts DEF Break
  <2>2. sent' \in [Session -> Seq(Command)]
    <3>1. \A q \in Seq(Command) : SubSeq(q, 1, Len(q) - 1) \in Seq(Command)
      OBVIOUS
    <3> QED
      BY <1>18, <3>1 DEF Break
  <2> QED
    BY <1>18, <2>1, <2>2 DEF Break
<1>19. CASE UNCHANGED vars
  BY <1>19 DEF vars
<1> QED
  BY <1>1, <1>2, <1>3, <1>4, <1>5, <1>6, <1>7, <1>8, <1>9, <1>10, <1>11, <1>12, <1>13,
     <1>14, <1>15, <1>16, <1>17, <1>18, <1>19
  DEF Next, Listen, SessionThread

LEMMA TypeAlways == Spec => []TypeInv
<1>1. Init => TypeInv
  <2> SUFFICES ASSUME Init PROVE TypeInv
    OBVIOUS
  <2>1. wire \in [Session -> Text] /\ valid_buf \in [Session -> Text] /\ str_stream \in Text
    BY TextFacts DEF Init
  <2>2. /\ sent \in [Session -> Seq(Command)]
        /\ executed \in [Session -> Seq(Command \union {NULL})]
        /\ clients \in Seq(Session)
    BY DEF Init
  <2>3. life \in [Session -> {"none", "live", "freed"}] /\ iter \in [Session -> Nat]
    BY DEF Init
  <2> QED
    BY <2>1, <2>2, <2>3 DEF Init, TypeInv, TypeOK
<1> QED
  BY <1>1, TypeStep, PTL DEF Spec

\* Every reachable state is well typed; clients never holds a null pointer.
THEOREM TypeCorrect == Spec => []TypeOK
<1>1. TypeInv => TypeOK
  BY DEF TypeInv
<1> QED
  BY <1>1, TypeAlways, PTL

-----------------------------------------------------------------------------
\* The life of a session.  While it is being set up clients does not have it, so that
\* its thread, should it end that early, finds end() and comes no further; the
\* entries of clients have been made, but may be others than those that live.
LifeInv ==
    /\ \A s \in deleting : life[s] = "live" /\ thread[s] \in {"return", "done"}
    /\ \A s \in Session : /\ life[s] = "freed" => thread[s] = "done"
                          /\ life[s] = "none" => thread[s] = "none"
    /\ \A i \in 1 .. Len(clients) : life[clients[i]] # "none"
    /\ listener # "wait" => /\ life[cur] = "live" /\ cur \notin deleting
                            /\ \A i \in 1 .. Len(clients) : clients[i] # cur
                            /\ thread[cur] = "erase" => iter[cur] > Len(clients)

\* A session's thread that moves on, without ending the session.
LEMMA LifeThread ==
    ASSUME TypeInv, LifeInv, NEW s \in Session, NEW l,
           thread[s] \notin {"none", "return", "done"}, l # "erase",
           thread' = [thread EXCEPT ![s] = l],
           UNCHANGED <<listener, cur, life, clients, iter, deleting>>
    PROVE  LifeInv'
  BY DEF LifeInv, TypeInv, TypeOK

\* Steps that do not concern the life of a session.
LEMMA LifeSame ==
    ASSUME LifeInv, UNCHANGED <<listener, cur, thread, life, clients, iter, deleting>>
    PROVE  LifeInv'
  BY DEF LifeInv

LEMMA LifeStep == TypeInv /\ LifeInv /\ [Next]_vars => LifeInv'
<1> SUFFICES ASSUME TypeInv, LifeInv, [Next]_vars PROVE LifeInv'
  OBVIOUS
<1> USE DEF sessionVars, textVars, fileVars, clientVars
<1>1. ASSUME NEW s \in Session, Accept(s) PROVE LifeInv'
  <2>1. /\ listener' # "wait" /\ cur' = s /\ life[s] = "none" /\ life'[s] = "live"
        /\ thread'[s] = "recv"
        /\ \A t \in Session \ {s} : life'[t] = life[t] /\ thread'[t] = thread[t]
        /\ UNCHANGED <<clients, iter, deleting>>
    BY <1>1 DEF Accept, TypeInv, TypeOK
  <2>2. deleting \subseteq Session /\ \A i \in 1 .. Len(clients) : clients[i] \in Session
    BY DEF TypeInv, TypeOK
  <2>3. s \notin deleting /\ \A i \in 1 .. Len(clients) : clients[i] # s
    BY <2>1 DEF LifeInv
  <2> QED
    BY <2>1, <2>2, <2>3 DEF LifeInv
<1>2. CASE SetEndThis \/ SetProcessData
  BY <1>2 DEF SetEndThis, SetProcessData, LifeInv, TypeInv, TypeOK
<1>3. CASE PushBack
  <2>1. \A i \in 1 .. Len(clients') : life[clients'[i]] # "none"
    <3>1. clients' = Append(clients, cur) /\ clients \in Seq(Session) /\ cur \in Session
          /\ life[cur] = "live"
      BY <1>3 DEF PushBack, LifeInv, TypeInv, TypeOK
    <3>2. \A i \in 1 .. Len(clients') :
            (i \in 1 .. Len(clients) /\ clients'[i] = clients[i]) \/ clients'[i] = cur
      BY <3>1
    <3> QED
      BY <3>1, <3>2 DEF LifeInv
  <2> QED
    BY <1>3, <2>1 DEF PushBack, LifeInv
<1>4. ASSUME NEW s \in Session, RecvEnd(s) \/ EndSilently(s) PROVE LifeInv'
  BY <1>4, LifeThread DEF RecvEnd, EndSilently
<1>5. ASSUME NEW s \in Session, NEW n \in 1 .. BUF_SIZE, DropData(s, n) \/ AppendData(s, n)
      PROVE  LifeInv'
  BY <1>5, LifeThread, LifeSame DEF DropData, AppendData
<1>6. ASSUME NEW s \in Session, try_get_obj_buf(s) \/ get_valid_buf(s) PROVE LifeInv'
  BY <1>6, LifeThread DEF try_get_obj_buf, get_valid_buf
<1>7. ASSUME NEW s \in Session, Execute(s) PROVE LifeInv'
  <2> DEFINE l == CASE Parse(valid_buf[s]) = "set" -> "save"
                    [] Parse(valid_buf[s]) = "get" -> "load"
                    [] OTHER -> "scan"
  <2>1. thread' = [thread EXCEPT ![s] = l] /\ thread[s] = "execute"
        /\ UNCHANGED <<listener, cur, life, clients, iter, deleting>>
    BY <1>7 DEF Execute
  <2>2. l # "erase"
    OBVIOUS
  <2> HIDE DEF l
  <2> QED
    BY <2>1, <2>2, LifeThread
<1>8. ASSUME NEW s \in Session, save(s) \/ save_file(s) PROVE LifeInv'
  BY <1>8, LifeThread DEF save, save_file
<1>9. ASSUME NEW s \in Session, load(s) PROVE LifeInv'
  <2>1. CASE thread[s] = "load"
    BY <1>9, <2>1, LifeThread DEF load
  <2>2. CASE thread[s] = "length"
    BY <1>9, <2>2, LifeThread DEF load
  <2> QED
    BY <1>9, <2>1, <2>2 DEF load
<1>10. ASSUME NEW s \in Session, Reply(s) PROVE LifeInv'
  BY <1>10, LifeThread DEF Reply
<1>11. ASSUME NEW s \in Session, find(s) PROVE LifeInv'
  <2>1. ASSUME listener # "wait", cur = s PROVE iter'[s] > Len(clients)
    <3>1. \A i \in 1 .. Len(clients) : clients[i] # s
      BY <2>1 DEF LifeInv
    <3>2. iter' = [iter EXCEPT ![s] = Len(clients) + 1]
      BY <1>11, <3>1, Zenon DEF find
    <3>3. iter'[s] = Len(clients) + 1 /\ Len(clients) \in Nat
      BY <3>2 DEF TypeInv, TypeOK
    <3> QED
      BY <3>2, <3>3
  <2>2. \A t \in Session \ {s} : iter'[t] = iter[t] /\ thread'[t] = thread[t]
    BY <1>11 DEF find, TypeInv, TypeOK
  <2>3. /\ thread[s] = "end" /\ thread'[s] = "erase"
        /\ UNCHANGED <<listener, cur, life, clients, deleting>>
    BY <1>11 DEF find, TypeInv, TypeOK
  <2>4. deleting \subseteq Session /\ (listener # "wait" => cur \in Session)
    BY DEF TypeInv, TypeOK
  <2>5. \A t \in deleting : life'[t] = "live" /\ thread'[t] \in {"return", "done"}
    BY <2>2, <2>3, <2>4 DEF LifeInv
  <2>6. \A t \in Session : /\ life'[t] = "freed" => thread'[t] = "done"
                           /\ life'[t] = "none" => thread'[t] = "none"
    BY <2>2, <2>3 DEF LifeInv
  <2>7. listener' # "wait" => (thread'[cur'] = "erase" => iter'[cur'] > Len(clients'))
    BY <2>1, <2>2, <2>3, <2>4 DEF LifeInv
  <2> QED
    BY <2>3, <2>5, <2>6, <2>7 DEF LifeInv
<1>12. ASSUME NEW s \in Session, erase(s) PROVE LifeInv'
  <2>1. /\ thread[s] = "erase" /\ thread'[s] = "return"
        /\ \A t \in Session \ {s} : iter'[t] = iter[t] /\ thread'[t] = thread[t]
        /\ UNCHANGED <<listener, cur, life>>
    BY <1>12 DEF erase, TypeInv, TypeOK
  <2>2. deleting \subseteq Session /\ (listener # "wait" => cur \in Session)
        /\ clients \in Seq(Session) /\ iter \in [Session -> Nat]
        /\ life \in [Session -> {"none", "live", "freed"}]
    BY DEF TypeInv, TypeOK
  <2>3. life[s] = "live"
    BY <2>1, <2>2 DEF LifeInv
  <2>4. \A t \in Session : /\ life'[t] = "freed" => thread'[t] = "done"
                           /\ life'[t] = "none" => thread'[t] = "none"
    BY <2>1, <2>3 DEF LifeInv
  <2>5. CASE iter[s] \in 1 .. Len(clients)
    <3>1. /\ clients' = Without(clients, iter[s])
          /\ deleting' = deleting \union {s}
      BY <1>12, <2>5 DEF erase
    <3>2. /\ Len(clients') = Len(clients) - 1
          /\ \A k \in 1 .. Len(clients') : \E j \in 1 .. Len(clients) : clients'[k] = clients[j]
      BY <2>2, <2>5, <3>1, EraseFacts
    <3>3. listener # "wait" => cur # s
      BY <2>1, <2>2, <2>5 DEF LifeInv
    <3>4. \A i \in 1 .. Len(clients') : life'[clients'[i]] # "none"
      BY <2>1, <3>2 DEF LifeInv
    <3>5. listener' # "wait" => \A i \in 1 .. Len(clients') : clients'[i] # cur'
      BY <2>1, <3>2 DEF LifeInv
    <3>6. ASSUME listener' # "wait", thread'[cur'] = "erase" PROVE iter'[cur'] > Len(clients')
      <4>1. iter[cur] > Len(clients) /\ iter'[cur'] = iter[cur]
        BY <2>1, <2>2, <3>3, <3>6 DEF LifeInv
      <4>2. Len(clients) \in Nat /\ iter[cur] \in Nat
        BY <2>1, <2>2, <3>6
      <4> QED
        BY <3>2, <4>1, <4>2
    <3>7. listener' # "wait" => life'[cur'] = "live" /\ cur' \notin deleting'
      BY <2>1, <3>1, <3>3 DEF LifeInv
    <3>8. \A t \in deleting' : life'[t] = "live" /\ thread'[t] \in {"return", "done"}
      BY <2>1, <2>2, <2>3, <3>1 DEF LifeInv
    <3> QED
      BY <2>4, <3>4, <3>5, <3>6, <3>7, <3>8 DEF LifeInv
  <2>6. CASE iter[s] \notin 1 .. Len(clients)
    <3>1. UNCHANGED <<clients, deleting>>
      BY <1>12, <2>6 DEF erase
    <3>2. \A t \in deleting : life'[t] = "live" /\ thread'[t] \in {"return", "done"}
      BY <2>1, <2>2 DEF LifeInv
    <3>3. listener' # "wait" => (thread'[cur'] = "erase" => iter'[cur'] > Len(clients'))
      BY <2>1, <2>2, <3>1 DEF LifeInv
    <3> QED
      BY <2>1, <2>4, <3>1, <3>2, <3>3 DEF LifeInv
  <2> QED
    BY <2>5, <2>6
<1>13. ASSUME NEW s \in Session, Return(s) PROVE LifeInv'
  BY <1>13 DEF Return, LifeInv, TypeInv, TypeOK
<1>14. ASSUME NEW s \in Session, Delete(s) PROVE LifeInv'
  <2>1. /\ s \in deleting /\ thread[s] = "done" /\ deleting' = deleting \ {s}
        /\ life'[s] = "freed" /\ \A t \in Session \ {s} : life'[t] = life[t]
        /\ UNCHANGED <<listener, cur, thread, clients, iter>>
    BY <1>14 DEF Delete, TypeInv, TypeOK
  <2>2. /\ deleting \subseteq Session /\ \A i \in 1 .. Len(clients) : clients[i] \in Session
        /\ listener # "wait" => cur \in Session
    BY DEF TypeInv, TypeOK
  <2>3. listener # "wait" => cur # s
    BY <2>1 DEF LifeInv
  <2> QED
    BY <2>1, <2>2, <2>3 DEF LifeInv
<1>15. ASSUME NEW s \in Session, NEW cmd \in Command, Send(s, cmd) PROVE LifeInv'
  BY <1>15, LifeSame DEF Send
<1>16. ASSUME NEW s \in Session, Close(s) \/ Break(s) \/ Throw(s) \/ OpenFails(s) PROVE LifeInv'
  BY <1>16, LifeSame DEF Close, Break, Throw, OpenFails
<1>17. CASE Race
  BY <1>17, LifeSame DEF Race
<1>18. CASE UNCHANGED vars
  BY <1>18, LifeSame DEF vars
<1> QED
  BY <1>1, <1>2, <1>3, <1>4, <1>5, <1>6, <1>7, <1>8, <1>9, <1>10, <1>11, <1>12, <1>13,
     <1>14, <1>15, <1>16, <1>17, <1>18
  DEF Next, Listen, SessionThread

LEMMA LifeAlways == Spec => []LifeInv
<1>1. Init => LifeInv
  BY DEF Init, LifeInv
<1> QED
  BY <1>1, LifeStep, TypeAlways, PTL DEF Spec

\* No Session is freed under its own thread or under the listening thread that is
\* setting it up, although find and erase of quit_session are two steps without a
\* lock, and may erase another session's entry or one that is not there.
THEOREM MemorySafe == Spec => []NoUseAfterFree
<1>1. LifeInv => NoUseAfterFree
  BY DEF LifeInv, NoUseAfterFree
<1> QED
  BY <1>1, LifeAlways, PTL

-----------------------------------------------------------------------------
\* Only the holder of the lock finds the file empty.
FileInv ==
    /\ lock = NULL => file = "whole"
    /\ \A s \in Session : thread[s] = "write" => lock = s
    /\ LoadsWhole

\* A thread that moves on without touching the file.
LEMMA FileThread ==
    ASSUME TypeInv, FileInv, NEW s \in Session, NEW l,
           l # "write", thread' = [thread EXCEPT ![s] = l], UNCHANGED fileVars
    PROVE  FileInv'
  BY DEF FileInv, TypeInv, TypeOK, LoadsWhole, fileVars

LEMMA FileSame ==
    ASSUME FileInv, UNCHANGED <<thread, fileVars>>
    PROVE  FileInv'
  BY DEF FileInv, LoadsWhole, fileVars

LEMMA FileStep == TypeInv /\ FileInv /\ [Next]_vars => FileInv'
<1> SUFFICES ASSUME TypeInv, FileInv, [Next]_vars PROVE FileInv'
  OBVIOUS
<1>1. ASSUME NEW s \in Session, Accept(s) PROVE FileInv'
  BY <1>1, FileThread DEF Accept
<1>2. CASE SetEndThis \/ SetProcessData \/ PushBack
  BY <1>2, FileSame DEF SetEndThis, SetProcessData, PushBack
<1>3. ASSUME NEW s \in Session, NEW n \in 1 .. BUF_SIZE, DropData(s, n) \/ AppendData(s, n)
      PROVE  FileInv'
  BY <1>3, FileThread, FileSame DEF DropData, AppendData
<1>4. ASSUME NEW s \in Session, RecvEnd(s) \/ EndSilently(s) PROVE FileInv'
  BY <1>4, FileThread DEF RecvEnd, EndSilently
<1>5. ASSUME NEW s \in Session, try_get_obj_buf(s) \/ get_valid_buf(s) PROVE FileInv'
  BY <1>5, FileThread DEF try_get_obj_buf, get_valid_buf
<1>6. ASSUME NEW s \in Session, Execute(s) PROVE FileInv'
  <2> DEFINE l == CASE Parse(valid_buf[s]) = "set" -> "save"
                    [] Parse(valid_buf[s]) = "get" -> "load"
                    [] OTHER -> "scan"
  <2>1. thread' = [thread EXCEPT ![s] = l] /\ UNCHANGED fileVars
    BY <1>6 DEF Execute
  <2>2. l # "write"
    OBVIOUS
  <2> HIDE DEF l
  <2> QED
    BY <2>1, <2>2, FileThread
<1>7. ASSUME NEW s \in Session, save(s) PROVE FileInv'
  BY <1>7, ConstantAssumption DEF save, FileInv, LoadsWhole, TypeInv, TypeOK
<1>8. ASSUME NEW s \in Session, save_file(s) PROVE FileInv'
  BY <1>8, ConstantAssumption DEF save_file, FileInv, LoadsWhole, TypeInv, TypeOK
<1>9. ASSUME NEW s \in Session, load(s) PROVE FileInv'
  <2>1. file = "whole"
    BY <1>9 DEF load, FileInv
  <2>2. ~ torn'
    BY <1>9, <2>1 DEF load, FileInv, LoadsWhole
  <2> QED
    BY <1>9, <2>2 DEF load, FileInv, LoadsWhole, TypeInv, TypeOK
<1>10. ASSUME NEW s \in Session, Reply(s) \/ find(s) \/ erase(s) \/ Return(s) PROVE FileInv'
  BY <1>10, FileThread DEF Reply, find, erase, Return
<1>11. ASSUME NEW s \in Session, Delete(s) \/ Close(s) \/ Break(s) \/ Throw(s) \/ OpenFails(s)
       PROVE  FileInv'
  BY <1>11, FileSame DEF Delete, Close, Break, Throw, OpenFails
<1>12. ASSUME NEW s \in Session, NEW cmd \in Command, Send(s, cmd) PROVE FileInv'
  BY <1>12, FileSame DEF Send
<1>13. CASE Race
  BY <1>13, FileSame DEF Race
<1>14. CASE UNCHANGED vars
  BY <1>14, FileSame DEF vars, fileVars
<1> QED
  BY <1>1, <1>2, <1>3, <1>4, <1>5, <1>6, <1>7, <1>8, <1>9, <1>10, <1>11, <1>12, <1>13, <1>14
  DEF Next, Listen, SessionThread

\* No "get config" sees the file while a "set config" has it open and empty.
THEOREM FileWhole == Spec => []LoadsWhole
<1>1. Init => FileInv
  BY ConstantAssumption DEF Init, FileInv, LoadsWhole
<1>2. FileInv => LoadsWhole
  BY DEF FileInv
<1> QED
  BY <1>1, <1>2, FileStep, TypeAlways, PTL DEF Spec

-----------------------------------------------------------------------------
\* Between newlines, the object of command c behind p bytes.
IsFrame(t, c, p) ==
    /\ p + 2 <= Len(t) /\ t[p + 1] = "open" /\ t[p + 2] = c
    /\ \A k \in 1 .. Len(t) : k # p + 1 /\ k # p + 2 => t[k] = "newline"

\* The beginning of an object, behind p newlines.
IsPart(t, p) ==
    /\ Len(t) = p + 1 /\ t[p + 1] = "open"
    /\ \A k \in 1 .. p : t[k] = "newline"

LEMMA CountNone ==
    ASSUME NEW t, NEW i \in Nat, NEW C, \A j \in 1 .. i : t[j] \notin C
    PROVE  Count(t, i, C) = 0
<1>1. {j \in 1 .. i : t[j] \in C} = {}
  OBVIOUS
<1> QED
  BY <1>1, FS_EmptySet DEF Count

LEMMA CountOne ==
    ASSUME NEW t, NEW i \in Nat, NEW C, NEW k \in 1 .. i, t[k] \in C,
           \A j \in 1 .. i : t[j] \in C => j = k
    PROVE  Count(t, i, C) = 1
<1>1. {j \in 1 .. i : t[j] \in C} = {k}
  OBVIOUS
<1> QED
  BY <1>1, FS_Singleton DEF Count

\* Newlines hold no object.
LEMMA BlankEnds ==
    ASSUME NEW t \in Text, Blank(t)
    PROVE  ObjectEnds(t) = {}
<1>1. Len(t) \in Nat
  BY DEF Text
<1>2. ASSUME NEW i \in 1 .. Len(t) PROVE Count(t, i, {"open"}) = 0
  BY <1>1, CountNone DEF Blank
<1> QED
  BY <1>2 DEF ObjectEnds

\* Nor does the beginning of an object.
LEMMA PartEnds ==
    ASSUME NEW t \in Text, NEW p \in Nat, IsPart(t, p)
    PROVE  ObjectEnds(t) = {}
<1>1. Len(t) \in Nat
  BY DEF Text
<1>2. ASSUME NEW i \in 1 .. Len(t) PROVE Count(t, i, Command) = 0
  <2>1. \A j \in 1 .. i : j \in 1 .. p \/ j = p + 1
    BY <1>1 DEF IsPart
  <2>2. \A j \in 1 .. i : t[j] \notin Command
    BY <2>1 DEF IsPart, Command
  <2> QED
    BY <1>1, <2>2, CountNone
<1>3. ASSUME NEW i \in 1 .. Len(t), Count(t, i, {"open"}) > 0
      PROVE  Count(t, i, {"open"}) # Count(t, i, Command)
  BY <1>2, <1>3
<1> QED
  BY <1>3 DEF ObjectEnds

\* A whole object is found.
LEMMA FrameEnds ==
    ASSUME NEW t \in Text, NEW c \in Command, NEW p \in Nat, IsFrame(t, c, p)
    PROVE  ObjectEnds(t) # {}
<1>1. Len(t) \in Nat /\ p + 2 \in 1 .. Len(t)
  BY DEF Text, IsFrame
<1>2. \A j \in 1 .. p + 2 : j \in 1 .. Len(t)
  BY <1>1
<1>3. /\ \A j \in 1 .. p + 2 : t[j] \in {"open"} => j = p + 1
      /\ \A j \in 1 .. p + 2 : t[j] \in Command => j = p + 2
  BY <1>2 DEF IsFrame, Command
<1>4. Count(t, p + 2, {"open"}) = 1
  BY <1>3, CountOne, p + 1 \in 1 .. p + 2 DEF IsFrame
<1>5. Count(t, p + 2, Command) = 1
  BY <1>3, CountOne, p + 2 \in 1 .. p + 2 DEF IsFrame
<1> QED
  BY <1>1, <1>4, <1>5 DEF ObjectEnds

\* And the reader takes its command out of it.
LEMMA FrameParse ==
    ASSUME NEW t \in Text, NEW c \in Command, NEW p \in Nat, IsFrame(t, c, p)
    PROVE  Parse(t) = c
<1> DEFINE Solid == Char \ {"newline"}
           Token(n, d) == \E i \in 1 .. Len(t) : t[i] = d /\ Count(t, i, Solid) = n
<1>1. Len(t) \in Nat /\ p + 1 \in 1 .. Len(t) /\ p + 2 \in 1 .. Len(t)
  BY DEF Text, IsFrame
<1>2. \A j \in 1 .. Len(t) : t[j] \in Solid <=> j = p + 1 \/ j = p + 2
  BY <1>1 DEF IsFrame, Command, Char
<1>3. Count(t, p + 1, Solid) = 1
  <2>1. \A j \in 1 .. p + 1 : t[j] \in Solid => j = p + 1
    BY <1>1, <1>2
  <2> HIDE DEF Solid
  <2> QED
    BY <1>1, <1>2, <2>1, CountOne, p + 1 \in 1 .. p + 1
<1>4. Count(t, p + 2, Solid) = 2
  <2>1. {j \in 1 .. p + 2 : t[j] \in Solid} = {p + 1} \union {p + 2}
    BY <1>1, <1>2
  <2>2. IsFiniteSet({p + 1}) /\ Cardinality({p + 1}) = 1
    BY FS_Singleton
  <2>3. Cardinality({p + 1} \union {p + 2}) = 2
    BY <2>2, FS_AddElement, p + 2 \notin {p + 1}, 1 + 1 = 2
  <2> QED
    BY <2>1, <2>3 DEF Count
<1> HIDE DEF Solid
<1>5. Token(1, "open") /\ Token(2, c)
  BY <1>1, <1>3, <1>4 DEF IsFrame
<1>6. ASSUME NEW d \in Command, Token(2, d) PROVE d = c
  <2>1. PICK i \in 1 .. Len(t) : t[i] = d /\ Count(t, i, Solid) = 2
    BY <1>6
  <2>2. d \in Solid
    BY DEF Command, Char, Solid
  <2>3. i = p + 1 \/ i = p + 2
    BY <2>1, <2>2, <1>2
  <2>4. i = p + 2
    BY <2>1, <2>3, <1>3
  <2> QED
    BY <2>1, <2>4 DEF IsFrame
<1>7. Parse(t) = IF \E d \in Command : Token(1, "open") /\ Token(2, d)
                 THEN CHOOSE d \in Command : Token(2, d)
                 ELSE NULL
  BY DEF Parse, Solid
<1> HIDE DEF Token
<1> QED
  BY <1>5, <1>6, <1>7

LEMMA JoinFacts ==
    /\ \A s, t \in Text : /\ Len(s) \in Nat /\ Len(t) \in Nat /\ Len(s \o t) = Len(s) + Len(t)
                          /\ \A k \in 1 .. Len(s) : (s \o t)[k] = s[k]
                          /\ \A k \in 1 .. Len(t) : (s \o t)[Len(s) + k] = t[k]
                          /\ \A k \in 1 .. Len(s) + Len(t) :
                               k \in 1 .. Len(s) \/ (\E j \in 1 .. Len(t) : k = Len(s) + j)
    /\ \A s \in Text : s \o <<>> = s /\ <<>> \o s = s
    /\ \A s, t, u \in Text : (s \o t) \o u = s \o (t \o u)
    /\ \A w \in Text, n \in Nat : n <= Len(w) => SubSeq(w, 1, n) \o SubSeq(w, n + 1, Len(w)) = w
<1>1. ASSUME NEW s \in Text, NEW t \in Text
      PROVE  /\ Len(s) \in Nat /\ Len(t) \in Nat /\ Len(s \o t) = Len(s) + Len(t)
             /\ \A k \in 1 .. Len(s) : (s \o t)[k] = s[k]
             /\ \A k \in 1 .. Len(t) : (s \o t)[Len(s) + k] = t[k]
  BY DEF Text
<1>2. ASSUME NEW s \in Text, NEW t \in Text, NEW k \in 1 .. Len(s) + Len(t)
      PROVE  k \in 1 .. Len(s) \/ (\E j \in 1 .. Len(t) : k = Len(s) + j)
  <2>1. Len(s) \in Nat /\ Len(t) \in Nat
    BY DEF Text
  <2>2. \A a, b \in Nat : \A x \in 1 .. a + b : x \in 1 .. a \/ (x - a \in 1 .. b /\ x = a + (x - a))
    OBVIOUS
  <2> QED
    BY <2>1, <2>2
<1>3. \A s \in Text : s \o <<>> = s /\ <<>> \o s = s
  BY DEF Text
<1>4. ASSUME NEW s \in Text, NEW t \in Text, NEW u \in Text PROVE (s \o t) \o u = s \o (t \o u)
  BY DEF Text
<1>5. ASSUME NEW w \in Text, NEW n \in Nat, n <= Len(w)
      PROVE  SubSeq(w, 1, n) \o SubSeq(w, n + 1, Len(w)) = w
  <2> DEFINE x == SubSeq(w, 1, n)
             y == SubSeq(w, n + 1, Len(w))
  <2>1. x \in Text /\ y \in Text /\ x \o y \in Text
    BY <1>5, TextFacts
  <2>2. Len(w) \in Nat /\ Len(x) = n /\ Len(y) = Len(w) - n
    BY <1>5 DEF Text
  <2>3. \A k \in 1 .. n : x[k] = w[k]
    BY <1>5 DEF Text
  <2>4. \A k \in 1 .. Len(w) - n : y[k] = w[n + k]
    BY <1>5 DEF Text
  <2> HIDE DEF x, y
  <2>5. Len(x \o y) = Len(w)
    <3>1. \A a, b \in Nat : a + (b - a) = b
      OBVIOUS
    <3>2. Len(x \o y) = Len(x) + Len(y)
      BY <1>1, <2>1
    <3>3. Len(x) + Len(y) = n + (Len(w) - n)
      BY <2>2
    <3> QED
      BY <2>2, <3>1, <3>2, <3>3
  <2>6. ASSUME NEW k \in 1 .. Len(w) PROVE (x \o y)[k] = w[k]
    <3>1. CASE k <= n
      BY <1>1, <2>1, <2>2, <2>3, <3>1
    <3>2. CASE k > n
      <4>1. k - n \in 1 .. Len(w) - n /\ k = n + (k - n)
        BY <2>2, <3>2
      <4>2. (x \o y)[n + (k - n)] = y[k - n]
        BY <1>1, <2>1, <2>2, <4>1
      <4> QED
        BY <2>4, <4>1, <4>2
    <3> QED
      BY <2>2, <3>1, <3>2
  <2>7. x \o y = w
    <3> DEFINE z == x \o y
    <3>1. z \in Seq(Char) /\ w \in Seq(Char) /\ Len(z) = Len(w)
          /\ \A k \in 1 .. Len(w) : z[k] = w[k]
      BY <2>1, <2>5, <2>6 DEF Text
    <3> HIDE DEF z
    <3>2. z = w
      BY <3>1
    <3> QED
      BY <3>2 DEF z
  <2> QED
    BY <2>7 DEF x, y
<1> QED
  BY <1>1, <1>2, <1>3, <1>4, <1>5

LEMMA BlankFacts ==
    /\ Blank(<<>>)
    /\ \A s, t \in Text : Blank(s \o t) <=> Blank(s) /\ Blank(t)
    /\ \A w \in Text, n \in Nat : n <= Len(w) /\ Blank(w) =>
            Blank(SubSeq(w, 1, n)) /\ Blank(SubSeq(w, n + 1, Len(w)))
<1>1. Blank(<<>>)
  BY DEF Blank
<1>2. ASSUME NEW s \in Text, NEW t \in Text PROVE Blank(s \o t) <=> Blank(s) /\ Blank(t)
  <2>1. ASSUME Blank(s), Blank(t) PROVE Blank(s \o t)
    BY <2>1, JoinFacts DEF Blank
  <2>2. ASSUME Blank(s \o t) PROVE Blank(s) /\ Blank(t)
    <3>1. \A a, b \in Nat : /\ \A x \in 1 .. a : x \in 1 .. a + b
                            /\ \A x \in 1 .. b : a + x \in 1 .. a + b
      OBVIOUS
    <3>2. Len(s) \in Nat /\ Len(t) \in Nat /\ Len(s \o t) = Len(s) + Len(t)
      BY JoinFacts
    <3>3. ASSUME NEW k \in 1 .. Len(s) PROVE s[k] = "newline"
      <4>1. k \in 1 .. Len(s \o t)
        BY <3>1, <3>2
      <4> QED
        BY <2>2, <4>1, JoinFacts DEF Blank
    <3>4. ASSUME NEW k \in 1 .. Len(t) PROVE t[k] = "newline"
      <4>1. Len(s) + k \in 1 .. Len(s \o t)
        BY <3>1, <3>2
      <4>2. (s \o t)[Len(s) + k] = t[k]
        BY JoinFacts
      <4> QED
        BY <2>2, <4>1, <4>2 DEF Blank
    <3> QED
      BY <3>3, <3>4 DEF Blank
  <2> QED
    BY <2>1, <2>2
<1>3. ASSUME NEW w \in Text, NEW n \in Nat, n <= Len(w), Blank(w)
      PROVE  Blank(SubSeq(w, 1, n)) /\ Blank(SubSeq(w, n + 1, Len(w)))
  <2> DEFINE x == SubSeq(w, 1, n)
             y == SubSeq(w, n + 1, Len(w))
  <2>1. x \in Text /\ y \in Text
    BY <1>3, TextFacts
  <2>2. x \o y = w
    BY <1>3, JoinFacts
  <2> HIDE DEF x, y
  <2>3. Blank(x) /\ Blank(y)
    BY <1>2, <1>3, <2>1, <2>2
  <2> QED
    BY <2>3 DEF x, y
<1> QED
  BY <1>1, <1>2, <1>3

\* What is there of an object whose bytes are x so far, with y to come.
LEMMA FramePrefix ==
    ASSUME NEW x \in Text, NEW y \in Text, NEW c \in Command, NEW p \in Nat,
           IsFrame(x \o y, c, p)
    PROVE  \/ Len(x) >= p + 2 /\ IsFrame(x, c, p) /\ Blank(y)
           \/ Len(x) < p + 2 /\ Blank(x) /\ ~ Blank(y)
           \/ Len(x) < p + 2 /\ IsPart(x, p) /\ ~ Blank(y)
<1>1. /\ Len(x) \in Nat /\ Len(y) \in Nat /\ Len(x \o y) = Len(x) + Len(y)
      /\ \A k \in 1 .. Len(x) : (x \o y)[k] = x[k]
      /\ \A k \in 1 .. Len(y) : (x \o y)[Len(x) + k] = y[k]
  BY JoinFacts
<1>2. \A k \in 1 .. Len(x) : k \in 1 .. Len(x \o y)
  BY <1>1
<1>3. ASSUME Len(x) >= p + 2 PROVE IsFrame(x, c, p)
  <2>1. p + 1 \in 1 .. Len(x) /\ p + 2 \in 1 .. Len(x)
    BY <1>1, <1>3
  <2> QED
    BY <1>1, <1>2, <1>3, <2>1 DEF IsFrame
<1>4. ASSUME Len(x) >= p + 2 PROVE Blank(y)
  <2>1. \A a, b \in Nat : a >= p + 2 => \A k \in 1 .. b : /\ a + k \in 1 .. a + b
                                                        /\ a + k # p + 1 /\ a + k # p + 2
    OBVIOUS
  <2>2. ASSUME NEW k \in 1 .. Len(y) PROVE y[k] = "newline"
    <3>1. Len(x) + k \in 1 .. Len(x \o y) /\ Len(x) + k # p + 1 /\ Len(x) + k # p + 2
      BY <1>1, <1>4, <2>1
    <3>2. (x \o y)[Len(x) + k] = "newline"
      BY <3>1 DEF IsFrame
    <3> QED
      BY <1>1, <3>2
  <2> QED
    BY <2>2 DEF Blank
<1>5. ASSUME Len(x) < p + 2 PROVE ~ Blank(y)
  <2>1. \A a, b \in Nat : a < p + 2 /\ p + 2 <= a + b => /\ (p + 2) - a \in 1 .. b
                                                      /\ a + ((p + 2) - a) = p + 2
    OBVIOUS
  <2>2. (p + 2) - Len(x) \in 1 .. Len(y) /\ Len(x) + ((p + 2) - Len(x)) = p + 2
    BY <1>1, <1>5, <2>1 DEF IsFrame
  <2>3. y[(p + 2) - Len(x)] = c
    BY <1>1, <2>2 DEF IsFrame
  <2> QED
    BY <2>2, <2>3 DEF Blank, Command
<1>6. ASSUME Len(x) < p + 1 PROVE Blank(x)
  BY <1>1, <1>2, <1>6 DEF IsFrame, Blank
<1>7. ASSUME Len(x) = p + 1 PROVE IsPart(x, p)
  <2>1. p + 1 \in 1 .. Len(x) /\ \A k \in 1 .. p : k \in 1 .. Len(x)
    BY <1>1, <1>7
  <2> QED
    BY <1>1, <1>2, <1>7, <2>1 DEF IsFrame, IsPart
<1>8. \A a \in Nat : a >= p + 2 \/ (a < p + 2 /\ (a < p + 1 \/ a = p + 1))
  OBVIOUS
<1> QED
  BY <1>1, <1>3, <1>4, <1>5, <1>6, <1>7, <1>8

\* Newlines in front of an object do not matter.
LEMMA FrameShift ==
    ASSUME NEW x \in Text, NEW y \in Text, Blank(x), NEW c \in Command
    PROVE  (\E p \in Nat : IsFrame(y, c, p)) <=> (\E p \in Nat : IsFrame(x \o y, c, p))
<1>1. /\ Len(x) \in Nat /\ Len(y) \in Nat /\ Len(x \o y) = Len(x) + Len(y)
      /\ \A k \in 1 .. Len(x) : (x \o y)[k] = x[k]
      /\ \A k \in 1 .. Len(y) : (x \o y)[Len(x) + k] = y[k]
      /\ \A k \in 1 .. Len(x) + Len(y) :
            k \in 1 .. Len(x) \/ (\E j \in 1 .. Len(y) : k = Len(x) + j)
  BY JoinFacts
<1> DEFINE a == Len(x)
           b == Len(y)
           z == x \o y
<1>2. /\ a \in Nat /\ b \in Nat /\ Len(z) = a + b
      /\ \A k \in 1 .. a : z[k] = "newline"
      /\ \A k \in 1 .. b : z[a + k] = y[k]
      /\ \A k \in 1 .. a + b : k \in 1 .. a \/ (\E j \in 1 .. b : k = a + j)
  BY <1>1 DEF Blank
<1>3. b = Len(y)
  OBVIOUS
<1> HIDE DEF a, b, z
<1>4. ASSUME NEW p \in Nat, IsFrame(y, c, p) PROVE IsFrame(z, c, a + p)
  <2>1. /\ p + 2 <= b /\ p + 1 \in 1 .. b /\ p + 2 \in 1 .. b
        /\ y[p + 1] = "open" /\ y[p + 2] = c
        /\ \A k \in 1 .. b : k # p + 1 /\ k # p + 2 => y[k] = "newline"
    BY <1>2, <1>3, <1>4 DEF IsFrame
  <2>2. (a + p) + 1 = a + (p + 1) /\ (a + p) + 2 = a + (p + 2) /\ (a + p) + 2 <= a + b
    BY <1>2, <2>1
  <2>3. z[(a + p) + 1] = "open" /\ z[(a + p) + 2] = c
    BY <1>2, <2>1, <2>2
  <2>4. ASSUME NEW k \in 1 .. a + b, k # (a + p) + 1, k # (a + p) + 2 PROVE z[k] = "newline"
    <3>1. ASSUME NEW j \in 1 .. b, k = a + j PROVE z[k] = "newline"
      <4>1. j # p + 1 /\ j # p + 2
        BY <1>2, <2>2, <2>4, <3>1
      <4> QED
        BY <1>2, <2>1, <3>1, <4>1
    <3> QED
      BY <1>2, <3>1
  <2> QED
    BY <1>2, <2>2, <2>3, <2>4 DEF IsFrame
<1>5. ASSUME NEW p \in Nat, IsFrame(z, c, p) PROVE \E q \in Nat : IsFrame(y, c, q)
  <2>1. /\ p + 2 <= a + b /\ z[p + 1] = "open" /\ z[p + 2] = c
        /\ \A k \in 1 .. a + b : k # p + 1 /\ k # p + 2 => z[k] = "newline"
    BY <1>2, <1>5 DEF IsFrame
  <2>2. a <= p
    <3> SUFFICES ASSUME p < a PROVE FALSE
      BY <1>2
    <3>1. p + 1 \in 1 .. a
      BY <1>2
    <3> QED
      BY <1>2, <2>1, <3>1
  <2> DEFINE q == p - a
  <2>3. q \in Nat /\ q + 2 <= b /\ q + 1 \in 1 .. b /\ q + 2 \in 1 .. b
        /\ a + (q + 1) = p + 1 /\ a + (q + 2) = p + 2
    BY <1>2, <2>1, <2>2
  <2> HIDE DEF q
  <2>4. y[q + 1] = "open" /\ y[q + 2] = c
    BY <1>2, <2>1, <2>3
  <2>5. ASSUME NEW k \in 1 .. b, k # q + 1, k # q + 2 PROVE y[k] = "newline"
    <3>1. a + k \in 1 .. a + b /\ a + k # p + 1 /\ a + k # p + 2
      BY <1>2, <2>3, <2>5
    <3> QED
      BY <1>2, <2>1, <3>1
  <2>6. IsFrame(y, c, q)
    BY <1>3, <2>3, <2>4, <2>5 DEF IsFrame
  <2> QED
    BY <2>3, <2>6
<1>6. \A p \in Nat : a + p \in Nat
  BY <1>2
<1> QED
  BY <1>4, <1>5, <1>6 DEF z

\* An object behind newlines.
LEMMA ObjectFrame ==
    ASSUME NEW x \in Text, Blank(x), NEW c \in Command
    PROVE  IsFrame(x \o Object[c], c, Len(x))
<1> DEFINE y == Object[c]
<1>1. y \in Text
  BY TextFacts
<1>2. /\ Len(y) \in {2, 3} /\ y[1] = "open" /\ y[2] = c
      /\ Len(y) = 3 => y[3] = "newline"
  BY DEF Object, Command
<1>3. /\ Len(x) \in Nat /\ Len(y) \in Nat /\ Len(x \o y) = Len(x) + Len(y)
      /\ \A k \in 1 .. Len(x) : (x \o y)[k] = x[k]
      /\ \A k \in 1 .. Len(y) : (x \o y)[Len(x) + k] = y[k]
      /\ \A k \in 1 .. Len(x) + Len(y) :
            k \in 1 .. Len(x) \/ (\E j \in 1 .. Len(y) : k = Len(x) + j)
  BY <1>1, JoinFacts
<1> HIDE DEF y
<1>4. ASSUME NEW k \in 1 .. Len(x) + Len(y), k # Len(x) + 1, k # Len(x) + 2
      PROVE  (x \o y)[k] = "newline"
  <2>1. CASE k \in 1 .. Len(x)
    BY <1>3, <2>1 DEF Blank
  <2>2. ASSUME NEW j \in 1 .. Len(y), k = Len(x) + j PROVE (x \o y)[k] = "newline"
    <3>1. Len(y) = 3 /\ j = 3
      <4>1. \A a \in Nat, b \in {2, 3} : \A i \in 1 .. b :
               a + i # a + 1 /\ a + i # a + 2 => b = 3 /\ i = 3
        OBVIOUS
      <4>3. Len(x) + j # Len(x) + 1 /\ Len(x) + j # Len(x) + 2
        BY ONLY <1>4, <2>2
      <4>4. Len(x) \in Nat /\ Len(y) \in {2, 3} /\ j \in 1 .. Len(y)
        BY <1>2, <1>3
      <4> QED
        BY ONLY <4>1, <4>3, <4>4
    <3> QED
      BY <1>2, <1>3, <2>2, <3>1
  <2> QED
    BY <1>3, <2>1, <2>2
<1>5. (x \o y)[Len(x) + 1] = "open" /\ (x \o y)[Len(x) + 2] = c
  BY <1>2, <1>3
<1>6. Len(x) + 2 <= Len(x \o y)
  BY <1>2, <1>3
<1>7. IsFrame(x \o y, c, Len(x))
  BY <1>3, <1>4, <1>5, <1>6 DEF IsFrame
<1> QED
  BY <1>7 DEF y

-----------------------------------------------------------------------------
\* Where the last command of a client is, as long as texts have not met.  The bytes
\* of str_stream are those of one session, its owner, which no other takes from it
\* unless they are newlines.
InHand == {"cut", "execute"}
Own(s) == IF owner = s THEN str_stream ELSE <<>>
Rest(s) == Own(s) \o wire[s]

\* Everything sent has been executed.
Quiet(s) == sent[s] = executed[s] /\ Blank(Rest(s)) /\ thread[s] \notin InHand

\* One command is on its way; when all of it has been appended, the session is
\* about to look at it.
Coming(s, c, p) ==
    /\ sent[s] = Append(executed[s], c) /\ IsFrame(Rest(s), c, p)
    /\ thread[s] \notin InHand
    /\ Len(Own(s)) >= p + 2 => thread[s] = "scan"

\* The connection failed inside the object.
Stuck(s, p) ==
    /\ sent[s] = executed[s] /\ thread[s] \notin InHand
    /\ s \in closed /\ wire[s] = <<>>
    /\ owner = s /\ IsPart(str_stream, p)

\* The session has taken the object out of str_stream.
Held(s, c, p) ==
    /\ sent[s] = Append(executed[s], c) /\ IsFrame(valid_buf[s], c, p)
    /\ \/ thread[s] = "cut" /\ str_stream = valid_buf[s] /\ Blank(wire[s])
       \/ thread[s] = "execute" /\ Blank(Rest(s))

Good(s) ==
    \/ Quiet(s)
    \/ \E c \in Command, p \in Nat : Coming(s, c, p)
    \/ \E p \in Nat : Stuck(s, p)
    \/ \E c \in Command, p \in Nat : Held(s, c, p)

Framing ==
    mixed \/ \A s \in Session : Good(s) /\ (thread[s] \in Processing => owner = s)

\* A session none of whose bytes move.
LEMMA GoodKeeps ==
    ASSUME NEW s \in Session, Good(s), closed \subseteq closed',
           Own(s)' = Own(s), wire'[s] = wire[s], valid_buf'[s] = valid_buf[s],
           sent'[s] = sent[s], executed'[s] = executed[s], UNCHANGED owner,
           owner = s => UNCHANGED str_stream,
           thread[s] \in Processing => owner = s,
           \/ thread'[s] = thread[s]
           \/ thread[s] \notin InHand \union {"scan"} /\ thread'[s] \notin InHand
    PROVE  Good(s)'
<1>1. Rest(s)' = Rest(s)
  BY DEF Rest
<1>2. ASSUME Quiet(s) PROVE Quiet(s)'
  BY <1>1, <1>2 DEF Quiet, InHand
<1>3. ASSUME NEW c \in Command, NEW p \in Nat, Coming(s, c, p) PROVE Coming(s, c, p)'
  BY <1>1, <1>3 DEF Coming, InHand
<1>4. ASSUME NEW p \in Nat, Stuck(s, p) PROVE Stuck(s, p)'
  BY <1>4 DEF Stuck, InHand
<1>5. ASSUME NEW c \in Command, NEW p \in Nat, Held(s, c, p) PROVE Held(s, c, p)'
  <2>1. thread[s] \in InHand /\ thread'[s] = thread[s] /\ owner = s
    BY <1>5 DEF Held, InHand, Processing
  <2> QED
    BY <1>1, <1>5, <2>1 DEF Held
<1> QED
  BY <1>2, <1>3, <1>4, <1>5 DEF Good

\* Steps of one session's thread, or of none, that move no bytes.
LEMMA FramingKeeps ==
    ASSUME TypeInv, Framing, mixed' = mixed, closed \subseteq closed',
           UNCHANGED <<wire, str_stream, valid_buf, sent, executed, owner>>,
           \A s \in Session :
              \/ thread'[s] = thread[s]
              \/ /\ thread[s] \notin InHand \union {"scan"} /\ thread'[s] \notin InHand
                 /\ thread'[s] \in Processing => thread[s] \in Processing
    PROVE  Framing'
<1> SUFFICES ASSUME ~ mixed, NEW s \in Session
             PROVE  Good(s)' /\ (thread'[s] \in Processing => owner' = s)
  BY DEF Framing
<1>1. Good(s) /\ (thread[s] \in Processing => owner = s)
  BY DEF Framing
<1>2. Own(s)' = Own(s)
  BY DEF Own
<1>3. Good(s)'
  BY <1>1, <1>2, GoodKeeps
<1> QED
  BY <1>1, <1>3

\* Every thread moves alone.
LEMMA OneMoves ==
    ASSUME TypeInv, NEW s \in Session, NEW l, thread' = [thread EXCEPT ![s] = l]
    PROVE  thread'[s] = l /\ \A t \in Session \ {s} : thread'[t] = thread[t]
  BY DEF TypeInv, TypeOK

\* A step of session s in process_data, which owns str_stream: the other sessions
\* have no bytes there.
LEMMA FramingOwner ==
    ASSUME TypeInv, Framing, ~ mixed, mixed' = mixed, UNCHANGED <<wire, sent, closed, owner>>,
           NEW s \in Session, owner = s,
           \A t \in Session \ {s} : /\ thread'[t] = thread[t] /\ valid_buf'[t] = valid_buf[t]
                                    /\ executed'[t] = executed[t],
           Good(s)'
    PROVE  Framing'
<1>1. ASSUME NEW t \in Session \ {s} PROVE Good(t)' /\ (thread'[t] \in Processing => owner' = t)
  <2>1. Good(t) /\ (thread[t] \in Processing => owner = t)
    BY DEF Framing
  <2>2. Own(t)' = Own(t)
    BY DEF Own
  <2> QED
    BY <2>1, <2>2, GoodKeeps
<1> QED
  BY <1>1 DEF Framing

LEMMA FramingScan ==
    ASSUME TypeInv, Framing, NEW s \in Session, try_get_obj_buf(s)
    PROVE  Framing'
<1> USE DEF sessionVars, fileVars, clientVars
<1> SUFFICES ASSUME ~ mixed PROVE Framing'
  BY DEF Framing, try_get_obj_buf
<1>1. Good(s) /\ owner = s /\ thread[s] = "scan"
  BY DEF Framing, Processing, try_get_obj_buf
<1>2. /\ mixed' = mixed
      /\ UNCHANGED <<wire, str_stream, executed, sent, closed, owner>>
      /\ \A t \in Session \ {s} : thread'[t] = thread[t] /\ valid_buf'[t] = valid_buf[t]
  BY DEF try_get_obj_buf, TypeInv, TypeOK
<1>3. \/ ObjectEnds(str_stream) = {} /\ thread'[s] = "recv"
      \/ /\ ObjectEnds(str_stream) # {}
         /\ thread'[s] = "cut" /\ valid_buf'[s] = str_stream
  BY DEF try_get_obj_buf, TypeInv, TypeOK
<1>4. Own(s) = str_stream /\ Own(s)' = str_stream /\ Rest(s)' = Rest(s)
  BY <1>1, <1>2 DEF Own, Rest
<1>5. str_stream \in Text /\ wire[s] \in Text /\ Rest(s) = str_stream \o wire[s]
  BY <1>4 DEF Rest, TypeInv, TypeOK
<1>6. ASSUME Quiet(s) PROVE Good(s)'
  <2>1. ObjectEnds(str_stream) = {}
    BY <1>5, <1>6, BlankFacts, BlankEnds DEF Quiet
  <2>2. Quiet(s)'
    BY <1>2, <1>3, <1>4, <1>6, <2>1 DEF Quiet, InHand
  <2> QED
    BY <2>2 DEF Good
<1>7. ASSUME NEW c \in Command, NEW p \in Nat, Coming(s, c, p) PROVE Good(s)'
  <2>1. IsFrame(str_stream \o wire[s], c, p)
    BY <1>5, <1>7 DEF Coming
  <2>2. CASE Len(str_stream) >= p + 2 /\ IsFrame(str_stream, c, p) /\ Blank(wire[s])
    <3>1. thread'[s] = "cut" /\ valid_buf'[s] = str_stream
      BY <1>3, <1>5, <2>2, FrameEnds
    <3>2. Held(s, c, p)'
      BY <1>2, <1>7, <2>2, <3>1 DEF Held, Coming
    <3> QED
      BY <3>2 DEF Good
  <2>3. CASE Len(str_stream) < p + 2 /\ ObjectEnds(str_stream) = {}
    <3>1. thread'[s] = "recv"
      BY <1>3, <2>3
    <3>2. ~ (Len(str_stream) >= p + 2)
      BY <2>3, <1>5 DEF Text
    <3>3. Coming(s, c, p)'
      BY <1>2, <1>4, <1>7, <3>1, <3>2 DEF Coming, InHand
    <3> QED
      BY <3>3 DEF Good
  <2> QED
    BY <1>5, <2>1, <2>2, <2>3, FramePrefix, BlankEnds, PartEnds
<1>8. ASSUME NEW p \in Nat, Stuck(s, p) PROVE Good(s)'
  <2>1. ObjectEnds(str_stream) = {}
    BY <1>5, <1>8, PartEnds DEF Stuck
  <2>2. Stuck(s, p)'
    BY <1>2, <1>3, <1>8, <2>1 DEF Stuck, InHand
  <2> QED
    BY <2>2 DEF Good
<1>9. ASSUME NEW c \in Command, NEW p \in Nat, Held(s, c, p) PROVE FALSE
  BY <1>1, <1>9 DEF Held
<1>10. Good(s)'
  BY <1>1, <1>6, <1>7, <1>8, <1>9 DEF Good
<1> QED
  BY <1>1, <1>2, <1>10, FramingOwner

LEMMA FramingCut ==
    ASSUME TypeInv, Framing, NEW s \in Session, get_valid_buf(s)
    PROVE  Framing'
<1> USE DEF sessionVars, fileVars, clientVars
<1> SUFFICES ASSUME ~ mixed PROVE Framing'
  BY DEF Framing, get_valid_buf
<1>1. Good(s) /\ owner = s /\ thread[s] = "cut"
  BY DEF Framing, Processing, get_valid_buf
<1>2. /\ mixed' = mixed
      /\ UNCHANGED <<wire, valid_buf, executed, sent, closed, owner>>
      /\ thread'[s] = "execute"
      /\ \A t \in Session \ {s} : thread'[t] = thread[t]
  BY DEF get_valid_buf, TypeInv, TypeOK
<1>3. PICK c \in Command, p \in Nat : Held(s, c, p)
  BY <1>1 DEF Good, Quiet, Coming, Stuck, InHand
<1>4. str_stream \in Text /\ wire[s] \in Text
  BY DEF TypeInv, TypeOK
<1>5. str_stream' = <<>>
  <2>1. str_stream = valid_buf[s]
    BY <1>1, <1>3 DEF Held
  <2>2. str_stream' = SubSeq(str_stream, Len(str_stream) + 1, Len(str_stream))
    <3>1. Len(str_stream) \in Nat /\ Len(str_stream) <= Len(str_stream)
      BY <1>4 DEF Text
    <3> QED
      BY <2>1, <3>1 DEF get_valid_buf
  <2>3. \A t \in Text : SubSeq(t, Len(t) + 1, Len(t)) = <<>>
    BY DEF Text
  <2> QED
    BY <1>4, <2>2, <2>3
<1>6. Blank(Rest(s)')
  <2>1. Rest(s)' = <<>> \o wire[s]
    BY <1>1, <1>2, <1>5 DEF Rest, Own
  <2> QED
    BY <1>1, <1>3, <1>4, <2>1, JoinFacts DEF Held
<1>7. Held(s, c, p)'
  <2>1. sent'[s] = Append(executed'[s], c) /\ IsFrame(valid_buf'[s], c, p)
    BY <1>2, <1>3 DEF Held
  <2> QED
    BY <1>2, <1>6, <2>1 DEF Held
<1>8. Good(s)'
  BY <1>7 DEF Good
<1> QED
  BY <1>1, <1>2, <1>8, FramingOwner

LEMMA FramingExecute ==
    ASSUME TypeInv, Framing, NEW s \in Session, Execute(s)
    PROVE  Framing'
<1> USE DEF sessionVars, fileVars, clientVars
<1> SUFFICES ASSUME ~ mixed PROVE Framing'
  BY DEF Framing, Execute
<1>1. Good(s) /\ owner = s /\ thread[s] = "execute"
  BY DEF Framing, Processing, Execute
<1>2. PICK c \in Command, p \in Nat : Held(s, c, p)
  BY <1>1 DEF Good, Quiet, Coming, Stuck, InHand
<1>3. Parse(valid_buf[s]) = c
  <2>1. valid_buf[s] \in Text
    BY DEF TypeInv, TypeOK
  <2> QED
    BY <1>2, <2>1, FrameParse DEF Held
<1>4. /\ mixed' = mixed
      /\ UNCHANGED <<wire, str_stream, sent, closed, owner>>
  BY DEF Execute
<1>5. /\ executed'[s] = Append(executed[s], c) /\ thread'[s] \notin InHand
      /\ \A t \in Session \ {s} : /\ thread'[t] = thread[t] /\ valid_buf'[t] = valid_buf[t]
                                  /\ executed'[t] = executed[t]
  <2>1. executed' = [executed EXCEPT ![s] = Append(executed[s], c)]
    BY <1>3 DEF Execute
  <2>2. \E l \in {"save", "load", "scan"} : thread' = [thread EXCEPT ![s] = l]
    BY DEF Execute
  <2>3. valid_buf' = [valid_buf EXCEPT ![s] = <<>>]
    BY DEF Execute
  <2> QED
    BY <2>1, <2>2, <2>3 DEF TypeInv, TypeOK, InHand
<1>6. Rest(s)' = Rest(s) /\ Blank(Rest(s))
  BY <1>1, <1>2, <1>4 DEF Held, Rest, Own
<1>7. Quiet(s)'
  BY <1>2, <1>4, <1>5, <1>6 DEF Quiet, Held
<1>8. Good(s)'
  BY <1>7 DEF Good
<1> QED
  BY <1>1, <1>4, <1>5, <1>8, FramingOwner

LEMMA FramingAppend ==
    ASSUME TypeInv, Framing, NEW s \in Session, NEW n \in 1 .. BUF_SIZE, AppendData(s, n)
    PROVE  Framing'
<1> USE DEF sessionVars, fileVars
<1> SUFFICES ASSUME ~ mixed' PROVE Framing'
  BY DEF Framing
<1>1. /\ ~ mixed /\ (owner = s \/ Blank(str_stream)) /\ owner' = s
      /\ \A t \in Session \ {s} : thread[t] \notin Processing
      /\ thread[s] = "recv" /\ n <= Len(wire[s])
      /\ UNCHANGED <<valid_buf, executed, sent, closed>>
  BY DEF AppendData
<1>2. /\ thread'[s] = "scan"
      /\ \A t \in Session \ {s} : thread'[t] = thread[t] /\ wire'[t] = wire[t]
      /\ wire'[s] = SubSeq(wire[s], n + 1, Len(wire[s]))
      /\ str_stream' = str_stream \o SubSeq(wire[s], 1, n)
  BY DEF AppendData, TypeInv, TypeOK
<1>3. \A t \in Session : Good(t)
  BY <1>1 DEF Framing
<1>4. str_stream \in Text /\ \A t \in Session : wire[t] \in Text
  BY DEF TypeInv, TypeOK
<1>5. n \in Nat /\ n # 0
  BY ConstantAssumption
<1>6. ASSUME NEW t \in Session \ {s} PROVE Good(t)'
  <2>1. CASE owner # t
    <3>1. Own(t)' = Own(t) /\ Rest(t)' = Rest(t)
      BY <1>1, <1>2, <2>1 DEF Own, Rest
    <3>2. \/ Quiet(t)
          \/ \E c \in Command, p \in Nat : Coming(t, c, p)
      BY <1>1, <1>3, <2>1 DEF Good, Stuck, Held, Processing
    <3> QED
      BY <1>1, <1>2, <3>1, <3>2 DEF Good, Quiet, Coming
  <2>2. CASE owner = t
    <3>1. Blank(str_stream) /\ Rest(t) = str_stream \o wire[t]
      BY <1>1, <2>2 DEF Rest, Own
    <3>2. Own(t)' = <<>> /\ Rest(t)' = wire[t]
      BY <1>1, <1>2, <1>4, JoinFacts DEF Own, Rest
    <3>3. thread[t] \notin InHand /\ thread[t] # "scan"
      BY <1>1 DEF InHand, Processing
    <3>4. ASSUME Quiet(t) PROVE Good(t)'
      <4>1. Blank(wire[t])
        BY <1>4, <3>1, <3>4, BlankFacts DEF Quiet
      <4>2. Quiet(t)'
        BY <1>1, <1>2, <3>2, <3>4, <4>1 DEF Quiet
      <4> QED
        BY <4>2 DEF Good
    <3>5. ASSUME NEW c \in Command, NEW p \in Nat, Coming(t, c, p) PROVE Good(t)'
      <4>1. IsFrame(str_stream \o wire[t], c, p)
        BY <3>1, <3>5 DEF Coming
      <4>2. PICK q \in Nat : IsFrame(wire[t], c, q)
        BY <1>4, <3>1, <4>1, FrameShift
      <4>3. ~ (Len(<<>>) >= q + 2)
        OBVIOUS
      <4>4. Coming(t, c, q)'
        BY <1>1, <1>2, <3>2, <3>5, <4>2, <4>3 DEF Coming
      <4> QED
        BY <4>4 DEF Good
    <3>6. ASSUME NEW p \in Nat, Stuck(t, p) PROVE FALSE
      <4>1. p + 1 \in 1 .. Len(str_stream) /\ str_stream[p + 1] = "open"
        BY <3>6 DEF Stuck, IsPart
      <4> QED
        BY <3>1, <4>1 DEF Blank
    <3>7. ASSUME NEW c \in Command, NEW p \in Nat, Held(t, c, p) PROVE FALSE
      BY <3>3, <3>7 DEF Held, InHand
    <3> QED
      BY <1>3, <3>4, <3>5, <3>6, <3>7 DEF Good
  <2> QED
    BY <2>1, <2>2
<1>7. Good(s)'
  <2> DEFINE all == str_stream \o wire[s]
  <2>1. Rest(s)' = all
    <3>1. /\ SubSeq(wire[s], 1, n) \in Text /\ SubSeq(wire[s], n + 1, Len(wire[s])) \in Text
          /\ SubSeq(wire[s], 1, n) \o SubSeq(wire[s], n + 1, Len(wire[s])) = wire[s]
      BY <1>1, <1>4, <1>5, TextFacts, JoinFacts
    <3>2. Rest(s)' = (str_stream \o SubSeq(wire[s], 1, n))
                        \o SubSeq(wire[s], n + 1, Len(wire[s]))
      BY <1>1, <1>2 DEF Rest, Own
    <3>3. \A u, v, w \in Text : (u \o v) \o w = u \o (v \o w)
      BY JoinFacts
    <3>4. (str_stream \o SubSeq(wire[s], 1, n)) \o SubSeq(wire[s], n + 1, Len(wire[s]))
            = str_stream \o (SubSeq(wire[s], 1, n) \o SubSeq(wire[s], n + 1, Len(wire[s])))
      BY ONLY <1>4, <3>1, <3>3, Zenon
    <3> QED
      BY ONLY <3>1, <3>2, <3>4, Zenon DEF all
  <2>2. Rest(s) = all \/ (Blank(str_stream) /\ Rest(s) = wire[s])
    BY <1>1, <1>4, JoinFacts DEF Rest, Own
  <2>3. ASSUME Quiet(s) PROVE Good(s)'
    <3>1. Blank(all)
      BY <1>4, <2>2, <2>3, BlankFacts DEF Quiet
    <3>2. Quiet(s)'
      BY <1>1, <1>2, <2>1, <2>3, <3>1 DEF Quiet, InHand
    <3> QED
      BY <3>2 DEF Good
  <2>4. ASSUME NEW c \in Command, NEW p \in Nat, Coming(s, c, p) PROVE Good(s)'
    <3>1. PICK q \in Nat : IsFrame(all, c, q)
      BY <1>4, <2>2, <2>4, FrameShift DEF Coming
    <3>2. Coming(s, c, q)'
      BY <1>1, <1>2, <2>1, <2>4, <3>1 DEF Coming, InHand
    <3> QED
      BY <3>2 DEF Good
  <2>5. ASSUME NEW p \in Nat, Stuck(s, p) PROVE FALSE
    <3>1. Len(wire[s]) = 0
      BY <2>5 DEF Stuck
    <3> QED
      BY <1>1, <1>5, <3>1
  <2>6. ASSUME NEW c \in Command, NEW p \in Nat, Held(s, c, p) PROVE FALSE
    BY <1>1, <2>6 DEF Held
  <2> QED
    BY <1>3, <2>3, <2>4, <2>5, <2>6 DEF Good
<1>8. \A t \in Session : thread'[t] \in Processing => owner' = t
  BY <1>1, <1>2
<1> QED
  BY <1>6, <1>7, <1>8 DEF Framing

\* A step of client s alone.
LEMMA FramingClient ==
    ASSUME TypeInv, Framing, ~ mixed, NEW s \in Session, closed \subseteq closed',
           UNCHANGED <<thread, str_stream, valid_buf, executed, owner>>,
           \A t \in Session \ {s} : wire'[t] = wire[t] /\ sent'[t] = sent[t],
           Good(s)'
    PROVE  Framing'
<1>1. ASSUME NEW t \in Session \ {s} PROVE Good(t)' /\ (thread'[t] \in Processing => owner' = t)
  <2>1. Good(t) /\ (thread[t] \in Processing => owner = t)
    BY DEF Framing
  <2>2. Own(t)' = Own(t)
    BY DEF Own
  <2> QED
    BY <2>1, <2>2, GoodKeeps
<1> QED
  BY <1>1 DEF Framing

\* A sequence with one element more, and without it.
LEMMA AppendFacts ==
    ASSUME NEW q \in Seq(Command \union {NULL}), NEW c \in Command
    PROVE  /\ Append(q, c) # q
           /\ SubSeq(Append(q, c), 1, Len(Append(q, c)) - 1) = q
           /\ Len(q) <= Len(Append(q, c)) /\ q = SubSeq(Append(q, c), 1, Len(q))
           /\ Len(q) <= Len(q) /\ q = SubSeq(q, 1, Len(q))
<1>1. Len(Append(q, c)) = Len(q) + 1 /\ Len(q) \in Nat
  OBVIOUS
<1>2. q = SubSeq(Append(q, c), 1, Len(q))
  OBVIOUS
<1>3. q = SubSeq(q, 1, Len(q))
  OBVIOUS
<1>4. Len(q) + 1 - 1 = Len(q) /\ Len(q) <= Len(q) + 1 /\ Len(q) # Len(q) + 1
  BY <1>1
<1>5. Append(q, c) # q
  BY <1>1, <1>4
<1>6. SubSeq(Append(q, c), 1, Len(Append(q, c)) - 1) = q
  <2>1. Len(Append(q, c)) - 1 = (Len(q) + 1) - 1
    BY ONLY <1>1, Zenon
  <2>2. \A m \in Nat : (m + 1) - 1 = m
    OBVIOUS
  <2>3. (Len(q) + 1) - 1 = Len(q)
    BY ONLY <1>1, <2>2, Zenon
  <2> QED
    BY ONLY <1>2, <2>1, <2>3, Zenon
<1>7. Len(q) <= Len(Append(q, c)) /\ Len(q) <= Len(q)
  BY <1>1
<1> QED
  BY ONLY <1>2, <1>3, <1>5, <1>6, <1>7, Zenon

LEMMA FramingSend ==
    ASSUME TypeInv, Framing, NEW s \in Session, NEW cmd \in Command, Send(s, cmd)
    PROVE  Framing'
<1> USE DEF sessionVars, fileVars, textVars
<1> SUFFICES ASSUME ~ mixed' PROVE Framing'
  BY DEF Framing
<1>1. /\ ~ mixed /\ executed[s] = sent[s] /\ s \notin closed
      /\ UNCHANGED <<thread, str_stream, valid_buf, executed, owner, closed>>
  BY DEF Send
<1>2. /\ wire'[s] = wire[s] \o Object[cmd] /\ sent'[s] = Append(sent[s], cmd)
      /\ \A t \in Session \ {s} : wire'[t] = wire[t] /\ sent'[t] = sent[t]
  BY DEF Send, TypeInv, TypeOK
<1>3. Good(s) /\ executed[s] \in Seq(Command \union {NULL})
  BY <1>1 DEF Framing, TypeInv, TypeOK
<1>4. Quiet(s)
  BY <1>1, <1>3, AppendFacts DEF Good, Coming, Stuck, Held
<1>5. Own(s) \in Text /\ wire[s] \in Text /\ Object[cmd] \in Text /\ Rest(s) \in Text
  BY TextFacts DEF Own, Rest, TypeInv, TypeOK
<1>6. Own(s)' = Own(s) /\ Rest(s)' = Rest(s) \o Object[cmd]
  <2>1. Own(s)' = Own(s)
    BY <1>1 DEF Own
  <2>2. Rest(s)' = Own(s) \o (wire[s] \o Object[cmd])
    BY <1>2, <2>1 DEF Rest
  <2>3. \A u, v, w \in Text : (u \o v) \o w = u \o (v \o w)
    BY JoinFacts
  <2>4. Rest(s) = Own(s) \o wire[s]
    BY DEF Rest
  <2>5. (Own(s) \o wire[s]) \o Object[cmd] = Own(s) \o (wire[s] \o Object[cmd])
    BY ONLY <1>5, <2>3, Zenon
  <2> QED
    BY ONLY <2>1, <2>2, <2>4, <2>5
<1>7. IsFrame(Rest(s)', cmd, Len(Rest(s)))
  BY <1>4, <1>5, <1>6, ObjectFrame DEF Quiet
<1>8. Len(Rest(s)) \in Nat /\ ~ (Len(Own(s)) >= Len(Rest(s)) + 2)
  <2>1. /\ Len(Own(s)) \in Nat /\ Len(wire[s]) \in Nat
        /\ Len(Rest(s)) = Len(Own(s)) + Len(wire[s])
    BY <1>5, JoinFacts DEF Rest
  <2>2. \A a, b \in Nat : a + b \in Nat /\ ~ (a >= a + b + 2)
    OBVIOUS
  <2> QED
    BY <2>1, <2>2
<1>9. PICK p \in Nat : ~ (Len(Own(s)) >= p + 2) /\ IsFrame(Rest(s)', cmd, p)
  BY <1>7, <1>8
<1>10. Coming(s, cmd, p)'
  <2>1. sent'[s] = Append(executed'[s], cmd) /\ thread'[s] \notin InHand
    BY <1>1, <1>2, <1>4 DEF Quiet
  <2>2. ~ (Len(Own(s)') >= p + 2)
    BY <1>6, <1>9
  <2> QED
    BY <1>9, <2>1, <2>2 DEF Coming
<1>11. Good(s)'
  BY <1>9, <1>10 DEF Good
<1> QED
  BY <1>1, <1>2, <1>11, FramingClient

LEMMA FramingBreak ==
    ASSUME TypeInv, Framing, NEW s \in Session, Break(s)
    PROVE  Framing'
<1> USE DEF sessionVars, fileVars, textVars
<1> SUFFICES ASSUME ~ mixed PROVE Framing'
  BY DEF Framing, Break
<1>1. /\ s \notin closed /\ closed \subseteq closed' /\ s \in closed'
      /\ UNCHANGED <<thread, str_stream, valid_buf, executed, owner>>
  BY DEF Break
<1>2. /\ wire'[s] = <<>>
      /\ \A t \in Session \ {s} : wire'[t] = wire[t]
  BY DEF Break, TypeInv, TypeOK
<1>3. /\ Blank(wire[s]) => sent' = sent
      /\ ~ Blank(wire[s]) => sent'[s] = SubSeq(sent[s], 1, Len(sent[s]) - 1)
      /\ \A t \in Session \ {s} : sent'[t] = sent[t]
  BY DEF Break, TypeInv, TypeOK
<1>4. Good(s) /\ executed[s] \in Seq(Command \union {NULL})
  BY DEF Framing, TypeInv, TypeOK
<1>5. Own(s) \in Text /\ wire[s] \in Text /\ Rest(s) = Own(s) \o wire[s]
  BY TextFacts DEF Own, Rest, TypeInv, TypeOK
<1>6. Own(s)' = Own(s) /\ Rest(s)' = Own(s)
  BY <1>1, <1>2, <1>5, JoinFacts DEF Own, Rest
<1>7. ASSUME Quiet(s) PROVE Good(s)'
  <2>1. Blank(Own(s)) /\ Blank(wire[s])
    BY <1>5, <1>7, BlankFacts DEF Quiet
  <2>2. Quiet(s)'
    BY <1>1, <1>3, <1>6, <1>7, <2>1 DEF Quiet
  <2> QED
    BY <2>2 DEF Good
<1>8. ASSUME NEW c \in Command, NEW p \in Nat, Coming(s, c, p) PROVE Good(s)'
  <2>1. IsFrame(Own(s) \o wire[s], c, p) /\ sent[s] = Append(executed[s], c)
        /\ thread[s] \notin InHand
    BY <1>5, <1>8 DEF Coming
  <2>2. CASE Len(Own(s)) >= p + 2 /\ IsFrame(Own(s), c, p) /\ Blank(wire[s])
    <3>1. Coming(s, c, p)'
      BY <1>1, <1>3, <1>6, <1>8, <2>2 DEF Coming
    <3> QED
      BY <3>1 DEF Good
  <2>3. ASSUME ~ Blank(wire[s]) PROVE sent'[s] = executed'[s] /\ thread'[s] \notin InHand
    BY <1>1, <1>3, <1>4, <2>1, <2>3, AppendFacts
  <2>4. CASE Blank(Own(s)) /\ ~ Blank(wire[s])
    <3>1. Quiet(s)'
      BY <1>6, <2>3, <2>4 DEF Quiet
    <3> QED
      BY <3>1 DEF Good
  <2>5. CASE IsPart(Own(s), p) /\ ~ Blank(wire[s])
    <3>1. owner = s
      <4>1. ~ IsPart(<<>>, p)
        BY DEF IsPart
      <4> QED
        BY <2>5, <4>1 DEF Own
    <3>2. Stuck(s, p)'
      BY <1>1, <1>2, <2>3, <2>5, <3>1 DEF Stuck, Own
    <3> QED
      BY <3>2 DEF Good
  <2> QED
    BY <1>5, <2>1, <2>2, <2>4, <2>5, FramePrefix
<1>9. ASSUME NEW p \in Nat, Stuck(s, p) PROVE FALSE
  BY <1>1, <1>9 DEF Stuck
<1>10. ASSUME NEW c \in Command, NEW p \in Nat, Held(s, c, p) PROVE Good(s)'
  <2>1. Blank(wire[s]) /\ Blank(wire'[s])
    BY <1>2, <1>5, <1>10, BlankFacts DEF Held
  <2>2. thread[s] = "execute" => Blank(Rest(s)')
    BY <1>5, <1>6, <1>10, BlankFacts DEF Held
  <2>3. sent' = sent
    BY <1>3, <2>1
  <2>4. Held(s, c, p)'
    BY <1>1, <1>10, <2>1, <2>2, <2>3 DEF Held
  <2> QED
    BY <2>4 DEF Good
<1>11. Good(s)'
  BY <1>4, <1>7, <1>8, <1>9, <1>10 DEF Good
<1> QED
  BY <1>1, <1>2, <1>3, <1>11, FramingClient

LEMMA FramingStep == TypeInv /\ LifeInv /\ Framing /\ [Next]_vars => Framing'
<1> SUFFICES ASSUME TypeInv, LifeInv, Framing, [Next]_vars PROVE Framing'
  OBVIOUS
<1> USE DEF sessionVars, textVars, fileVars, clientVars
<1>1. ASSUME NEW s \in Session, Accept(s) PROVE Framing'
  <2>1. thread[s] = "none" /\ thread' = [thread EXCEPT ![s] = "recv"]
    BY <1>1 DEF Accept, LifeInv
  <2>2. /\ UNCHANGED <<wire, str_stream, valid_buf, sent, executed, owner>>
        /\ mixed' = mixed /\ closed \subseteq closed'
    BY <1>1 DEF Accept
  <2> QED
    BY <2>1, <2>2, OneMoves, FramingKeeps DEF InHand, Processing
<1>2. CASE SetEndThis \/ SetProcessData \/ PushBack \/ Race
  BY <1>2, FramingKeeps DEF SetEndThis, SetProcessData, PushBack, Race
<1>3. ASSUME NEW s \in Session, RecvEnd(s) \/ EndSilently(s) \/ find(s) \/ erase(s) \/ Return(s)
      PROVE  Framing'
  <2>1. /\ thread[s] \in {"recv", "end", "erase", "return"}
        /\ \E l \in {"end", "erase", "return", "done"} : thread' = [thread EXCEPT ![s] = l]
    BY <1>3 DEF RecvEnd, EndSilently, find, erase, Return
  <2>2. /\ UNCHANGED <<wire, str_stream, valid_buf, sent, executed, owner>>
        /\ mixed' = mixed /\ closed \subseteq closed'
    BY <1>3 DEF RecvEnd, EndSilently, find, erase, Return
  <2> QED
    BY <2>1, <2>2, OneMoves, FramingKeeps DEF InHand, Processing
<1>4. ASSUME NEW s \in Session, NEW n \in 1 .. BUF_SIZE, DropData(s, n) PROVE Framing'
  BY <1>4 DEF DropData, Framing
<1>5. ASSUME NEW s \in Session, save(s) \/ save_file(s) \/ load(s) \/ Reply(s)
      PROVE  Framing'
  <2>1. /\ thread[s] \in {"save", "write", "load", "length", "reply"}
        /\ \E l \in {"write", "scan", "length", "reply"} : thread' = [thread EXCEPT ![s] = l]
    BY <1>5 DEF save, save_file, load, Reply
  <2>2. /\ UNCHANGED <<wire, str_stream, valid_buf, sent, executed, owner>>
        /\ mixed' = mixed /\ closed \subseteq closed'
    BY <1>5 DEF save, save_file, load, Reply
  <2> QED
    BY <2>1, <2>2, OneMoves, FramingKeeps DEF InHand, Processing
<1>6. ASSUME NEW s \in Session, Throw(s) \/ OpenFails(s) \/ Delete(s) \/ Close(s)
      PROVE  Framing'
  <2>1. /\ UNCHANGED <<thread, wire, str_stream, valid_buf, sent, executed, owner>>
        /\ mixed' = mixed /\ closed \subseteq closed'
    BY <1>6 DEF Throw, OpenFails, Delete, Close
  <2> QED
    BY <2>1, FramingKeeps
<1>7. CASE UNCHANGED vars
  BY <1>7, FramingKeeps DEF vars
<1> QED
  BY <1>1, <1>2, <1>3, <1>4, <1>5, <1>6, <1>7, FramingAppend, FramingScan, FramingCut,
     FramingExecute, FramingSend, FramingBreak
  DEF Next, Listen, SessionThread

LEMMA FramingSound == TypeInv /\ Framing => CommandsFramed
<1> SUFFICES ASSUME TypeInv, Framing, ~ mixed, NEW s \in Session
             PROVE  /\ Len(executed[s]) <= Len(sent[s])
                    /\ executed[s] = SubSeq(sent[s], 1, Len(executed[s]))
                    /\ /\ wire[s] = <<>> /\ valid_buf[s] = <<>> /\ thread[s] # "scan"
                       => executed[s] = sent[s]
  BY DEF CommandsFramed
<1>1. Good(s) /\ executed[s] \in Seq(Command \union {NULL})
  BY DEF Framing, TypeInv, TypeOK
<1>2. "set" \in Command
  BY DEF Command
<1>3. CASE sent[s] = executed[s]
  BY <1>1, <1>2, <1>3, AppendFacts
<1>4. ASSUME NEW c \in Command, sent[s] = Append(executed[s], c),
             ~ (wire[s] = <<>> /\ valid_buf[s] = <<>> /\ thread[s] # "scan")
      PROVE  /\ Len(executed[s]) <= Len(sent[s])
             /\ executed[s] = SubSeq(sent[s], 1, Len(executed[s]))
             /\ /\ wire[s] = <<>> /\ valid_buf[s] = <<>> /\ thread[s] # "scan"
                => executed[s] = sent[s]
  BY <1>1, <1>4, AppendFacts
<1>5. ASSUME NEW c \in Command, NEW p \in Nat, Coming(s, c, p), wire[s] = <<>>
      PROVE  thread[s] = "scan"
  <2>1. Own(s) \in Text
    BY TextFacts DEF Own, TypeInv, TypeOK
  <2>2. IsFrame(Own(s), c, p)
    BY <1>5, <2>1, JoinFacts DEF Coming, Rest
  <2>3. Len(Own(s)) >= p + 2
    BY <2>1, <2>2 DEF IsFrame, Text
  <2> QED
    BY <1>5, <2>3 DEF Coming
<1>6. ASSUME NEW c \in Command, NEW p \in Nat, Held(s, c, p) PROVE valid_buf[s] # <<>>
  <2>1. ~ IsFrame(<<>>, c, p)
    BY DEF IsFrame
  <2> QED
    BY <1>6, <2>1 DEF Held
<1>7. \/ sent[s] = executed[s]
      \/ \E c \in Command : /\ sent[s] = Append(executed[s], c)
                            /\ ~ (wire[s] = <<>> /\ valid_buf[s] = <<>> /\ thread[s] # "scan")
  BY <1>1, <1>5, <1>6 DEF Good, Quiet, Coming, Stuck, Held
<1> QED
  BY <1>3, <1>4, <1>7

\* As long as the texts of two commands have not met in str_stream, every session
\* executes the commands of its own client, in order and none twice, and misses none
\* that has been read: for any number of sessions, whatever the others do and
\* however recv cuts the bytes, failures inside an object included.
THEOREM FramedCommands == Spec => []CommandsFramed
<1>1. Init => Framing
  <2> SUFFICES ASSUME Init, NEW s \in Session
               PROVE  Good(s) /\ (thread[s] \in Processing => owner = s)
    BY DEF Framing
  <2>1. wire[s] = <<>> /\ str_stream = <<>> /\ sent[s] = <<>> /\ executed[s] = <<>>
        /\ thread[s] = "none"
    BY DEF Init
  <2>2. Rest(s) = <<>>
    BY <2>1, TextFacts, JoinFacts DEF Rest, Own
  <2>3. Quiet(s)
    BY <2>1, <2>2, BlankFacts DEF Quiet, InHand
  <2> QED
    BY <2>1, <2>3 DEF Good, Processing
<1> QED
  BY <1>1, FramingStep, FramingSound, TypeAlways, LifeAlways, PTL DEF Spec
=============================================================================
