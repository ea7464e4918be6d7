-------------------------- MODULE HotReloaderProofs --------------------------
(***************************************************************************)
(* For any files, functions, threads and bounds: the address table of the  *)
(* target never leads to code that is not completely loaded, and a reload  *)
(* never touches code that a thread is executing.  The argument is the     *)
(* allocation discipline of load_func: memory that was not handed out yet  *)
(* is blank, what alloc_section returned stays blank until write_section   *)
(* fills it, and only filled memory gets into the table.                   *)
(***************************************************************************)
EXTENDS HotReloader, TLAPS

LoadSteps == {"alloc_text", "alloc_data", "write_text", "write_data", "update"}

\* While a function is loaded, cur and fn name an entry of the table.
Loading == pc \in LoadSteps => cur \in Sources /\ slot \in Slots

\* A file is being handled from the check on.
Handling == pc \in {"check", "build", "func"} => cur \in Files

\* Memory that mmap has not handed out holds nothing.
Unused == \A x \in Addrs : x >= next => text[x] = None /\ data[x] = None

\* The text section is handed out and blank until it is written.
TextFresh ==
    pc \in {"alloc_data", "write_text"} /\ loaded.text \in Addrs =>
        loaded.text < next /\ text[loaded.text] = None

\* The data section is handed out and blank until it is written; there is
\* none before alloc_section made it.
DataFresh ==
    /\ pc = "alloc_data" => loaded.data = Orig
    /\ pc \in {"write_text", "write_data"} /\ loaded.data \in Addrs =>
           loaded.data < next /\ data[loaded.data] = None

\* From the write of the text on the text is there, and from the write of
\* the data on the function is complete.
Ready ==
    /\ pc \in {"write_data", "update"} =>
           loaded.text \in Addrs /\ text[loaded.text] = code
    /\ pc = "update" => Complete(code)

\* The reloader is in the loop over the functions of cur.
Reloading == pc \in LoadSteps \union {"func"}

\* The loop has not come to this function of the table yet.
Pending(s) == /\ Reloading
              /\ s[1] = cur
              /\ s[2] \in todo \/ (pc \in LoadSteps /\ s[2] = fn)

\* Every function runs the version its file was last reloaded from, but
\* those the loop has still to load, and what the loop loads is that
\* version.  An aborted reloader takes the target with it.
Progress ==
    /\ pc # "aborted" => \A s \in Slots :
           s[2] \in Defines[reloaded[s[1]]] => Pending(s) \/ Version(s) = reloaded[s[1]]
    /\ Reloading => built[cur] = reloaded[cur]

IInv == /\ TypeOK /\ Loading /\ Handling /\ Unused /\ TextFresh /\ DataFresh /\ Ready
        /\ TableSound /\ FramesIntact

-----------------------------------------------------------------------------
USE ConstAssumption

\* An event joins the queue of FileWatcher: what it holds stays files and
\* overflow marks.
LEMMA EnqueueType ==
    ASSUME TypeOK, NEW f \in Files, Enqueue(f)
    PROVE  queue' \in Seq(Files \union {Overflow})
BY DEF TypeOK, Enqueue

\* The part of the queue that poll leaves unread.
LEMMA UnreadType ==
    ASSUME NEW S, NEW q \in Seq(S), q # <<>>
    PROVE  /\ SubSeq(q, ReadCap + 1, Len(q)) \in Seq(S)
           /\ Head(q) \in S
<1>1. Head(q) \in S
    OBVIOUS
<1>2. SubSeq(q, ReadCap + 1, Len(q)) \in Seq(S)
    OBVIOUS
<1> QED BY <1>1, <1>2

\* The initial state has nothing loaded and no thread inside a function.
LEMMA InitIInv == Init => IInv
<1> SUFFICES ASSUME Init PROVE IInv
    OBVIOUS
<1>1. TypeOK
    <2>1. Defines[Initial] \subseteq Names
        OBVIOUS
    <2>2. 0 \in 0..MaxWrites /\ 1 \in 1..(MaxAddr + 1)
        OBVIOUS
    <2>3. queue \in Seq(Files \union {Overflow})
        BY DEF Init
    <2> QED BY <2>1, <2>2, <2>3 DEF Init, TypeOK, Steps, Orig
<1>2. Loading /\ Handling /\ Unused /\ TextFresh /\ DataFresh /\ Ready
    BY DEF Init, Loading, Handling, Unused, TextFresh, DataFresh, Ready, LoadSteps
<1>3. TableSound /\ FramesIntact
    BY DEF Init, TableSound, FramesIntact, Addrs, Orig
<1> QED BY <1>1, <1>2, <1>3 DEF IInv

\* The parts about the function being loaded and the memory of the target
\* hold as long as neither changes, whether the reloader stays where it is
\* or leaves the load.
LEMMA LoadUntouched ==
    ASSUME IInv, UNCHANGED <<cur, fn, built, loaded>>, UNCHANGED memory,
           pc' = pc \/ pc' \notin LoadSteps \union {"check", "build", "func"}
    PROVE  (Loading /\ Handling /\ Unused /\ TextFresh /\ DataFresh /\ Ready /\ TableSound)'
<1>1. (Loading /\ Handling)'
    BY DEF IInv, Loading, Handling, LoadSteps, slot
<1>2. (Unused /\ TextFresh /\ DataFresh)'
    BY DEF IInv, Unused, TextFresh, DataFresh, LoadSteps, memory
<1>3. (Ready /\ TableSound)'
    BY DEF IInv, Ready, TableSound, Complete, LoadSteps, code, slot, memory
<1> QED BY <1>1, <1>2, <1>3

\* So do the calls in progress, unless they end.
LEMMA FramesUntouched ==
    ASSUME IInv, UNCHANGED memory,
           \A t \in Threads : frame'[t] \in {frame[t], None}
    PROVE  FramesIntact'
BY DEF IInv, FramesIntact, Complete, memory

\* Leaving the process with abort ends the calls and touches nothing else.
LEMMA AbortIInv ==
    ASSUME IInv, Abort
    PROVE  IInv'
<1>1. TypeOK'
    BY DEF IInv, Abort, TypeOK, Steps, user, local, memory
<1>2. FramesIntact'
    BY FramesUntouched DEF Abort
<1> QED BY <1>1, <1>2, LoadUntouched DEF IInv, Abort, local, LoadSteps

\* Editing changes files and events only, which no part but the type
\* speaks of.
LEMMA UserIInv ==
    ASSUME IInv, User
    PROVE  IInv'
<1>1. ASSUME NEW f \in Files, NEW c \in Contents, Write(f, c)
      PROVE  TypeOK'
    <2>1. queue' \in Seq(Files \union {Overflow})
        BY <1>1, EnqueueType DEF IInv, Write
    <2> QED BY <1>1, <2>1 DEF Write, CanEdit, IInv, TypeOK, local, memory
<1>2. ASSUME NEW f \in Files, Delete(f)
      PROVE  TypeOK'
    BY <1>2 DEF Delete, CanEdit, IInv, TypeOK, local, memory
<1>3. UNCHANGED <<pc, local, memory, frame>>
    BY DEF User, Write, Delete
<1>4. FramesIntact'
    BY <1>3, FramesUntouched
<1> QED BY <1>1, <1>2, <1>3, <1>4, LoadUntouched DEF IInv, User, local

\* A call enters the code its entry of the table leads to, which is complete;
\* returning and dying only remove calls.
LEMMA TargetIInv ==
    ASSUME IInv, Target
    PROVE  IInv'
<1>1. ASSUME NEW t \in Threads, NEW s \in Slots, Call(t, s)
      PROVE  IInv'
    <2>1. [slot |-> s, addr |-> table[s], code |-> CodeAt(table[s])] \in Frame
        BY <1>1 DEF IInv, TypeOK, Frame, CodeAt
    <2>2. TypeOK'
        BY <1>1, <2>1 DEF Call, IInv, TypeOK, user, local, memory
    <2>3. FramesIntact'
        BY <1>1 DEF Call, CodeAt, IInv, TypeOK, TableSound, FramesIntact, Complete, memory
    <2> QED BY <1>1, <2>2, <2>3, LoadUntouched DEF Call, IInv, local
<1>2. ASSUME NEW t \in Threads, Return(t)
      PROVE  IInv'
    <2>1. TypeOK'
        BY <1>2 DEF Return, IInv, TypeOK, user, local, memory
    <2>2. FramesIntact'
        BY <1>2, FramesUntouched DEF Return, IInv, TypeOK
    <2> QED BY <1>2, <2>1, <2>2, LoadUntouched DEF Return, IInv, local
<1>3. CASE Die
    <2>1. TypeOK'
        BY <1>3 DEF Die, IInv, TypeOK, user, local, memory
    <2>2. FramesIntact'
        BY <1>3, FramesUntouched DEF Die
    <2> QED BY <1>3, <2>1, <2>2, LoadUntouched DEF Die, IInv, local
<1> QED BY <1>1, <1>2, <1>3 DEF Target

\* The steps of the reloader up to the loop over the functions choose a file
\* and what to load of it.
LEMMA ChooseIInv ==
    ASSUME IInv, Start \/ Poll \/ Check \/ Build \/ NextFunc \/ WaitPid
    PROVE  IInv'
<1>1. CASE Start
    <2>1. CASE Abort
        BY <2>1, AbortIInv
    <2>2. CASE pc' = "waitpid" /\ UNCHANGED <<user, local, exited, proc, memory, frame>>
        <3>1. TypeOK'
            BY <2>2 DEF IInv, TypeOK, Steps, user, local, memory
        <3>2. FramesIntact'
            BY <2>2, FramesUntouched
        <3> QED BY <2>2, <3>1, <3>2, LoadUntouched DEF IInv, LoadSteps, local
    <2> QED BY <1>1, <2>1, <2>2 DEF Start
<1>2. CASE Poll
    <2>1. queue # <<>> =>
              /\ SubSeq(queue, ReadCap + 1, Len(queue)) \in Seq(Files \union {Overflow})
              /\ Head(queue) \in Files \union {Overflow}
        BY UnreadType DEF IInv, TypeOK
    <2>2. TypeOK'
        BY <1>2, <2>1, ZenonT(60) DEF Poll, IInv, TypeOK, Steps, memory
    <2>3. pc' \in {"waitpid", "spin", "check"} /\ Handling'
        BY <1>2, <2>1 DEF Poll, Handling
    <2> QED BY <1>2, <2>2, <2>3 DEF Poll, IInv, TypeOK, Loading, Unused, TextFresh,
               DataFresh, Ready, TableSound, FramesIntact, LoadSteps, Complete, memory
<1>3. CASE Check
    <2>1. cur \in Files /\ seen' \in [Files -> Contents \union {None}]
        BY <1>3, ZenonT(60) DEF Check, Remember, IInv, TypeOK, Handling
    <2>2. pc' \in {"build", "waitpid"}
        BY <1>3 DEF Check
    <2>3. TypeOK'
        BY <1>3, <2>1, <2>2 DEF Check, IInv, TypeOK, Steps, user, memory
    <2> QED BY <1>3, <2>1, <2>2, <2>3 DEF Check, IInv, Loading, Handling, Unused, TextFresh,
               DataFresh, Ready, TableSound, FramesIntact, LoadSteps, Complete, memory
<1>4. CASE Build
    <2>1. pc = "build" /\ cur \in Files
        BY <1>4 DEF Build, IInv, Handling
    <2>2. TypeOK'
        BY <1>4, <2>1 DEF Build, IInv, TypeOK, Steps, user, memory
    <2>3. pc' \in {"func", "waitpid"} /\ UNCHANGED <<cur, memory, frame>>
        BY <1>4 DEF Build
    <2>4. FramesIntact'
        BY <2>3, FramesUntouched
    <2> QED BY <2>1, <2>2, <2>3, <2>4 DEF IInv, Loading, Handling, Unused, TextFresh,
               DataFresh, Ready, TableSound, LoadSteps, Complete, memory
<1>5. CASE NextFunc
    <2>1. TypeOK'
        BY <1>5, ZenonT(60) DEF NextFunc, IInv, TypeOK, Steps, user, memory
    <2>2. pc' \in {"waitpid", "func", "alloc_text"} /\ cur' = cur
        BY <1>5 DEF NextFunc
    <2>3. Loading'
        BY <1>5 DEF NextFunc, Slots, Loading, LoadSteps, slot
    <2> QED BY <1>5, <2>1, <2>2, <2>3 DEF NextFunc, IInv, Handling, Unused, TextFresh,
               DataFresh, Ready, TableSound, FramesIntact, LoadSteps, Complete, memory
<1>6. CASE WaitPid
    <2>1. TypeOK' /\ pc' \in {"done", "poll"}
        BY <1>6 DEF WaitPid, IInv, TypeOK, Steps, user, local, memory
    <2>2. FramesIntact'
        BY <1>6, FramesUntouched DEF WaitPid
    <2> QED BY <1>6, <2>1, <2>2, LoadUntouched DEF WaitPid, IInv, LoadSteps, local
<1> QED BY <1>1, <1>2, <1>3, <1>4, <1>5, <1>6

\* alloc_section hands out memory nobody uses.
LEMMA AllocIInv ==
    ASSUME IInv, AllocText \/ AllocData
    PROVE  IInv'
<1>1. Allocated \in Addrs \union {Enomem} /\ (Allocated \in Addrs => Allocated = next)
    BY DEF Allocated, Addrs, Enomem, IInv, TypeOK
<1>2. AllocNext => /\ next' \in 1..(MaxAddr + 1) /\ next' >= next
                   /\ Allocated \in Addrs => Allocated < next'
    BY DEF AllocNext, Allocated, Addrs, Enomem, IInv, TypeOK
<1>3. CASE Abort
    BY <1>3, AbortIInv
<1>4. CASE AllocText /\ ~ Abort
    <2>1. /\ loaded' = [text |-> Allocated, data |-> Orig]
          /\ pc' = "alloc_data" /\ pc = "alloc_text" /\ AllocNext
          /\ UNCHANGED <<user, cur, seen, todo, fn, built, reloaded, exited, proc,
                         table, text, data, frame>>
        BY <1>4 DEF AllocText
    <2>2. TypeOK'
        BY <1>1, <1>2, <2>1 DEF IInv, TypeOK, Steps, user
    <2>3. Unused'
        BY <1>2, <2>1 DEF IInv, Unused, TypeOK, Addrs
    <2>4. TextFresh'
        BY <1>1, <1>2, <2>1 DEF IInv, Unused, TextFresh, TypeOK
    <2>5. Loading' /\ Handling' /\ DataFresh' /\ Ready'
        BY <2>1 DEF IInv, Loading, Handling, DataFresh, Ready, LoadSteps, slot
    <2>6. TableSound' /\ FramesIntact'
        BY <2>1 DEF IInv, TableSound, FramesIntact, Complete
    <2> QED BY <2>2, <2>3, <2>4, <2>5, <2>6 DEF IInv
<1>5. CASE AllocData /\ ~ Abort
    <2>1. /\ \/ loaded' = [loaded EXCEPT !.data = Allocated] /\ AllocNext
             \/ UNCHANGED <<loaded, next>>
          /\ pc' = "write_text" /\ pc = "alloc_data"
          /\ UNCHANGED <<user, cur, seen, todo, fn, built, reloaded, exited, proc,
                         table, text, data, frame>>
        BY <1>5 DEF AllocData
    <2>2. /\ loaded'.text = loaded.text /\ loaded.data = Orig
          /\ loaded'.data \in {Orig, Allocated}
          /\ loaded'.data \in Addrs => loaded'.data < next'
          /\ loaded'.data \in Addrs => loaded'.data = next
        BY <1>1, <1>2, <2>1, SMTT(60) DEF IInv, TypeOK, DataFresh, Addrs, Orig
    <2>3. TypeOK'
        BY <1>1, <1>2, <2>1 DEF IInv, TypeOK, Steps, user
    <2>4. Unused'
        BY <1>2, <2>1 DEF IInv, Unused, TypeOK, Addrs
    <2>5. TextFresh'
        BY <1>2, <2>1, <2>2 DEF IInv, TextFresh, TypeOK, Addrs
    <2>6. DataFresh'
        BY <2>1, <2>2 DEF IInv, Unused, DataFresh, TypeOK
    <2>7. Loading' /\ Handling' /\ Ready'
        BY <2>1 DEF IInv, Loading, Handling, Ready, LoadSteps, slot
    <2>8. TableSound' /\ FramesIntact'
        BY <2>1 DEF IInv, TableSound, FramesIntact, Complete
    <2> QED BY <2>3, <2>4, <2>5, <2>6, <2>7, <2>8 DEF IInv
<1> QED BY <1>3, <1>4, <1>5

\* What is written while a function is loaded is code of that function.
LEMMA CodeType ==
    ASSUME IInv, pc \in LoadSteps
    PROVE  code \in Code
BY DEF IInv, TypeOK, Loading, Code, code

\* write_section fills memory that was blank, so it changes neither the code
\* behind the table nor the code of a call in progress.
LEMMA WriteIInv ==
    ASSUME IInv, WriteText \/ WriteData
    PROVE  IInv'
<1>1. CASE Abort
    BY <1>1, AbortIInv
<1>2. CASE WriteText /\ ~ Abort
    <2>1. /\ pc = "write_text" /\ pc' = "write_data" /\ loaded.text \in Addrs
          /\ text' = [text EXCEPT ![loaded.text] = code]
          /\ UNCHANGED <<user, local, exited, proc, table, next, data, frame>>
        BY <1>2 DEF WriteText, Writable
    <2>2. code \in Code /\ code # None /\ text[loaded.text] = None /\ loaded.text < next
        BY <2>1, CodeType DEF IInv, TextFresh, LoadSteps
    <2>3. TypeOK'
        BY <2>1, <2>2 DEF IInv, TypeOK, Steps, user, local
    <2>4. Unused'
        BY <2>1, <2>2 DEF IInv, Unused, TypeOK, Addrs
    <2>5. code' = code /\ text'[loaded.text] = code
        BY <2>1 DEF code, slot, local, IInv, TypeOK
    <2>6. Loading' /\ Handling' /\ TextFresh' /\ DataFresh' /\ Ready'
        BY <2>1, <2>5 DEF IInv, Loading, Handling, TextFresh, DataFresh, Ready, LoadSteps,
                          slot, local
    <2>7. \A x \in Addrs : text[x] # None => text'[x] = text[x]
        BY <2>1, <2>2 DEF IInv, TypeOK
    <2>8. TableSound' /\ FramesIntact'
        BY <2>1, <2>7 DEF IInv, TableSound, FramesIntact, Complete
    <2> QED BY <2>3, <2>4, <2>6, <2>8 DEF IInv
<1>3. CASE WriteData /\ ~ Abort
    <2>1. /\ pc = "write_data" /\ pc' = "update"
          /\ UNCHANGED <<user, local, exited, proc, table, next, text, frame>>
          /\ \/ /\ loaded.data \in Addrs
                /\ data' = [data EXCEPT ![loaded.data] = code]
             \/ loaded.data = Orig /\ UNCHANGED data
        BY <1>3 DEF WriteData, Writable, memory
    <2>2. code \in Code /\ code # None /\ code.data = loaded.data /\ code' = code
        BY <2>1, CodeType DEF LoadSteps, code, slot, local
    <2>3. loaded.data \in Addrs => data[loaded.data] = None /\ loaded.data < next
        BY <2>1 DEF IInv, DataFresh
    <2>4. TypeOK'
        <3> DEFINE Cell == Code \union {None}
        <3>1. data \in [Addrs -> Cell] /\ code \in Cell
            BY <2>2 DEF IInv, TypeOK
        <3> HIDE DEF Cell
        <3>2. data' \in [Addrs -> Cell]
            BY <2>1, <3>1
        <3> QED BY <2>1, <3>2 DEF IInv, TypeOK, Steps, user, local, Cell
    <2>5. Unused'
        BY <2>1, <2>3 DEF IInv, Unused, TypeOK, Addrs
    <2>6. Loading' /\ Handling' /\ TextFresh' /\ DataFresh'
        BY <2>1 DEF IInv, Loading, Handling, TextFresh, DataFresh, LoadSteps, slot, local
    <2>7. code.data = Orig \/ (code.data \in Addrs /\ data'[code.data] = code)
        BY <2>1, <2>2 DEF IInv, TypeOK
    <2>8. Ready'
        BY <2>1, <2>2, <2>7 DEF IInv, Ready, Complete, local
    <2>9. \A x \in Addrs : data[x] # None => data'[x] = data[x]
        BY <2>1, <2>3 DEF IInv, TypeOK
    <2>10. TableSound'
        BY <2>1, <2>9 DEF IInv, TableSound, Complete
    <2>11. FramesIntact'
        BY <2>1, <2>9 DEF IInv, FramesIntact, Complete
    <2> QED BY <2>4, <2>5, <2>6, <2>8, <2>10, <2>11 DEF IInv
<1> QED BY <1>1, <1>2, <1>3

\* update_func_addr puts code into the table that is complete by then.
LEMMA UpdateIInv ==
    ASSUME IInv, Update
    PROVE  IInv'
<1>1. CASE Abort
    BY <1>1, AbortIInv
<1>2. CASE Update /\ ~ Abort
    <2>1. /\ pc = "update" /\ pc' = "func"
          /\ table' = [table EXCEPT ![slot] = loaded.text]
          /\ UNCHANGED <<user, local, exited, proc, next, text, data, frame>>
        BY <1>2 DEF Update
    <2>2. /\ loaded.text \in Addrs /\ text[loaded.text] = code /\ Complete(code)
          /\ slot \in Slots /\ cur \in Sources /\ code # None /\ code.slot = slot
        BY <2>1, CodeType DEF IInv, Ready, Loading, LoadSteps, code
    <2>3. TypeOK'
        BY <2>1, <2>2 DEF IInv, TypeOK, Steps, user, local
    <2>4. Loading' /\ Handling' /\ Unused' /\ TextFresh' /\ DataFresh' /\ Ready'
        BY <2>1, <2>2 DEF IInv, Loading, Handling, Unused, TextFresh, DataFresh, Ready,
                          LoadSteps, local
    <2>5. TableSound'
        BY <2>1, <2>2 DEF IInv, TypeOK, TableSound, Complete
    <2>6. FramesIntact'
        BY <2>1 DEF IInv, FramesIntact, Complete
    <2> QED BY <2>3, <2>4, <2>5, <2>6 DEF IInv
<1> QED BY <1>1, <1>2

\* Every step of the user, the target and the reloader keeps the invariant.
LEMMA NextIInv ==
    ASSUME IInv, [Next]_vars
    PROVE  IInv'
<1>1. CASE UNCHANGED vars
    <2>1. TypeOK'
        BY <1>1 DEF vars, IInv, TypeOK, user, local, memory
    <2>2. FramesIntact'
        BY <1>1, FramesUntouched DEF vars
    <2> QED BY <1>1, <2>1, <2>2, LoadUntouched DEF vars, IInv, local
<1> QED BY <1>1, UserIInv, TargetIInv, ChooseIInv, AllocIInv, WriteIInv, UpdateIInv
        DEF Next, Reloader

\* The inductive invariant holds in every reachable state.
THEOREM Invariance == Spec => []IInv
<1>1. Init => IInv
    BY InitIInv
<1>2. IInv /\ [Next]_vars => IInv'
    BY NextIInv
<1> QED BY <1>1, <1>2, PTL DEF Spec

\* Every variable of the reloader keeps its type, whatever the interleaving:
\* in particular the table never holds the error code of a failed mmap.
THEOREM TypeCorrect == Spec => []TypeOK
<1>1. IInv => TypeOK
    BY DEF IInv
<1> QED BY <1>1, Invariance, PTL

\* A call through the address table never finds half-loaded code, whichever
\* step of load_func and update_func_addr it interleaves with.
THEOREM TableAlwaysSound == Spec => []TableSound
<1>1. IInv => TableSound
    BY DEF IInv
<1> QED BY <1>1, Invariance, PTL

\* A thread inside an older version of a function keeps the code and the data
\* it entered, however often the function is reloaded.
THEOREM FramesAlwaysIntact == Spec => []FramesIntact
<1>1. IInv => FramesIntact
    BY DEF IInv
<1> QED BY <1>1, Invariance, PTL

-----------------------------------------------------------------------------
\* Nothing of what Progress speaks of changes: neither the versions behind
\* the table nor the place of the loop.
LEMMA ProgressUntouched ==
    ASSUME Progress, UNCHANGED <<local, memory>>,
           pc' = pc \/ (~ Reloading /\ pc' \notin LoadSteps \union {"func"}) \/ pc' = "aborted",
           pc = "aborted" => pc' = "aborted"
    PROVE  Progress'
<1>1. CASE pc' = pc
    BY <1>1 DEF Progress, Reloading, Pending, Version, local, memory
<1>2. CASE pc' = "aborted"
    BY <1>2 DEF Progress, Reloading, LoadSteps
<1>3. CASE ~ Reloading /\ pc' \notin LoadSteps \union {"func"} /\ pc' # "aborted"
    BY <1>3 DEF Progress, Reloading, Pending, Version, local, memory
<1> QED BY <1>1, <1>2, <1>3

\* The steps that do not belong to the loop over the functions.
LEMMA OutsideProgress ==
    ASSUME IInv, Progress, User \/ Target \/ Start \/ Poll \/ Check \/ WaitPid \/ Abort
    PROVE  Progress'
<1>1. CASE User \/ Target
    BY <1>1, ProgressUntouched DEF User, Write, Delete, Target, Call, Return, Die
<1>2. CASE Start \/ WaitPid \/ Abort
    BY <1>2, ProgressUntouched DEF Start, Abort, WaitPid, Reloading, LoadSteps
<1>3. CASE Poll \/ Check
    BY <1>3 DEF Poll, Check, Progress, Reloading, LoadSteps, Pending, Version, memory
<1> QED BY <1>1, <1>2, <1>3

\* reload_file starts the loop with every function the new content defines,
\* or leaves all of them as they are.
LEMMA BuildProgress ==
    ASSUME IInv, Progress, Build
    PROVE  Progress'
<1>1. cur \in Files /\ pc = "build" /\ ~ Reloading
    BY DEF Build, IInv, Handling, Reloading, LoadSteps
<1>2. CASE pc' = "waitpid"
    <2>1. UNCHANGED <<reloaded, memory>>
        BY <1>2 DEF Build
    <2> QED BY <1>1, <1>2, <2>1 DEF Progress, Reloading, LoadSteps, Pending, Version, memory
<1>3. CASE pc' = "func"
    <2>1. /\ todo' = Defines[disk[cur]] /\ built' = disk /\ cur' = cur
          /\ reloaded' = [reloaded EXCEPT ![cur] = disk[cur]]
          /\ UNCHANGED memory
        BY <1>3 DEF Build
    <2>2. reloaded'[cur] = disk[cur] /\ \A f \in Files : f # cur => reloaded'[f] = reloaded[f]
        BY <1>1, <2>1 DEF IInv, TypeOK
    <2>3. ASSUME NEW s \in Slots, s[2] \in Defines[reloaded'[s[1]]]
          PROVE  Pending(s)' \/ Version(s)' = reloaded'[s[1]]
        <3>1. s[1] \in Files
            BY DEF Slots
        <3>2. CASE s[1] = cur
            BY <1>3, <2>1, <2>2, <2>3, <3>2 DEF Pending, Reloading
        <3>3. CASE s[1] # cur
            BY <1>1, <2>1, <2>2, <2>3, <3>1, <3>3 DEF Progress, Pending, Version, memory
        <3> QED BY <3>2, <3>3
    <2> QED BY <1>3, <2>1, <2>2, <2>3 DEF Progress
<1> QED BY <1>2, <1>3 DEF Build

\* The loop takes a function out of todo to load it, or because the table
\* has no entry for it; it ends when none is left.
LEMMA NextFuncProgress ==
    ASSUME IInv, Progress, NextFunc
    PROVE  Progress'
<1>1. /\ pc = "func" /\ pc' \in {"func", "waitpid", "alloc_text"}
      /\ UNCHANGED <<cur, built, reloaded, memory>>
    BY DEF NextFunc
<1>2. \A s \in Slots : Version(s)' = Version(s)
    BY <1>1 DEF Version, memory
<1>3. ASSUME NEW s \in Slots, Pending(s)
      PROVE  Pending(s)'
    <2>1. s[1] = cur /\ s[2] \in todo /\ s = <<cur, s[2]>>
        BY <1>1, <1>3 DEF Pending, LoadSteps, Slots
    <2> QED BY <1>1, <1>3, <2>1 DEF NextFunc, Pending, Reloading, LoadSteps
<1> QED BY <1>1, <1>2, <1>3 DEF Progress, Reloading, LoadSteps

\* Loading a function writes blank memory only, so every version behind the
\* table stays what it is until update_func_addr.
LEMMA LoadProgress ==
    ASSUME IInv, Progress, AllocText \/ AllocData \/ WriteText \/ WriteData, ~ Abort
    PROVE  Progress'
<1>1. /\ pc \in LoadSteps /\ pc' \in LoadSteps
      /\ UNCHANGED <<cur, todo, fn, built, reloaded, table>>
    BY DEF AllocText, AllocData, WriteText, WriteData, LoadSteps, local, memory
<1>2. \A x \in Addrs : text[x] # None => text'[x] = text[x]
    <2>1. CASE WriteText
        BY <2>1 DEF WriteText, Writable, IInv, TypeOK, TextFresh
    <2>2. CASE ~ WriteText
        BY <2>2 DEF AllocText, AllocData, WriteData, memory
    <2> QED BY <2>1, <2>2
<1>3. \A s \in Slots : Version(s)' = Version(s)
    BY <1>1, <1>2 DEF Version, IInv, TableSound
<1> QED BY <1>1, <1>3 DEF Progress, Pending, Reloading, LoadSteps

\* update_func_addr moves the entry to the version that was built.
LEMMA UpdateProgress ==
    ASSUME IInv, Progress, Update, ~ Abort
    PROVE  Progress'
<1>1. /\ pc = "update" /\ pc' = "func"
      /\ table' = [table EXCEPT ![slot] = loaded.text]
      /\ UNCHANGED <<user, local, exited, proc, next, text, data, frame>>
    BY DEF Update
<1>2. /\ slot \in Slots /\ loaded.text \in Addrs /\ text[loaded.text].ver = built[cur]
      /\ built[cur] = reloaded[cur]
    BY <1>1 DEF IInv, Loading, Ready, LoadSteps, code, Progress, Reloading
<1>3. ASSUME NEW s \in Slots, s[2] \in Defines[reloaded[s[1]]], s # slot
      PROVE  Pending(s)' \/ Version(s)' = reloaded[s[1]]
    <2>1. table'[s] = table[s]
        BY <1>1, <1>2, <1>3 DEF IInv, TypeOK
    <2>2. Version(s)' = Version(s)
        BY <1>1, <2>1 DEF Version
    <2>3. Pending(s) => Pending(s)'
        BY <1>1, <1>3 DEF Pending, Reloading, LoadSteps, local, slot, Slots
    <2> QED BY <1>1, <1>3, <2>2, <2>3 DEF Progress
<1>4. Version(slot)' = built[cur]
    <2>1. table'[slot] = loaded.text
        BY <1>1, <1>2 DEF IInv, TypeOK
    <2>2. slot' = slot /\ text' = text
        BY <1>1 DEF slot, local
    <2> QED BY <1>2, <2>1, <2>2 DEF Version
<1>5. \A s \in Slots : s[2] \in Defines[reloaded[s[1]]] =>
          Pending(s)' \/ Version(s)' = reloaded[s[1]]
    <2>1. slot[1] = cur /\ slot' = slot
        BY <1>1 DEF slot, local
    <2> QED BY <1>2, <1>3, <1>4, <2>1 DEF Version
<1> QED BY <1>1, <1>2, <1>5 DEF Progress, Reloading, LoadSteps, local

\* Every step keeps Progress.
LEMMA NextProgress ==
    ASSUME IInv, Progress, [Next]_vars
    PROVE  Progress'
<1>1. CASE UNCHANGED vars
    BY <1>1, ProgressUntouched DEF vars
<1> QED BY <1>1, OutsideProgress, BuildProgress, NextFuncProgress, LoadProgress, UpdateProgress
        DEF Next, Reloader

\* A reload that ended left no file half old and half new, whatever was
\* edited or deleted while it ran and however many functions the new content
\* adds or drops.
THEOREM FilesAlwaysConsistent == Spec => []FileConsistent
<1>1. Init => IInv /\ Progress
    <2>1. Init => Progress
        BY DEF Init, Progress, Reloading, LoadSteps, Version, Orig, Addrs, Slots
    <2> QED BY <2>1, InitIInv
<1>2. IInv /\ Progress /\ [Next]_vars => IInv' /\ Progress'
    BY NextIInv, NextProgress
<1>3. IInv /\ Progress => FileConsistent
    BY DEF Progress, Pending, Reloading, LoadSteps, FileConsistent
<1> QED BY <1>1, <1>2, <1>3, PTL DEF Spec
==============================================================================
