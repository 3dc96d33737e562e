----------------------- MODULE SessionService_proofs -----------------------
(* Theorems about SessionService, for every value of its constants.         *)
EXTENDS SessionService, TLAPS

USE SessionServiceAssumption

-----------------------------------------------------------------------------
(* Where a thread can be, and what it holds there.                          *)

Restarting == {"restart", "killOld", "respawn", "republish", "recheck"}
Stopping   == {"stop", "collect", "kill", "remove"}
Starting   == {"begin", "setup", "publishSetup", "checkSetup", "awaitSetup",
               "ready", "spawn", "publish"}
Creating   == {"clear", "make", "register", "next", "check"} \cup Starting

(* Before it registers a session, a create has none registered.             *)
Replacing == Stopping \cup {"clear", "make", "register"}

(* Between a spawn and the point the child is published or waited for.      *)
Holding == {"publish", "republish", "publishSetup", "checkSetup", "awaitSetup"}

Fits(t, th) ==
    /\ th.op \in Does[t] \cup {"none"}
    /\ th.pc = "idle" => th.session = 0
    /\ th.pc = "touch" => th.op \in {"get", "patch"} /\ th.session # 0
    /\ th.pc \in {"write"} \cup Restarting => th.op = "patch" /\ th.session # 0
    /\ th.pc \in Stopping => th.op \in {"post", "delete", "reap"} /\ th.session # 0
    /\ th.pc \in Creating \cup {"take"} => th.op = "post"
    /\ th.pc \in Starting \cup {"next", "check", "register"} => th.session # 0
    /\ th.pc \in Restarting \cup Starting \cup {"check"} => th.proc \in Procs
    /\ th.pc = "next" => th.proc # 0
    /\ th.op = "patch" => th.pc \in {"touch", "write"} \cup Restarting
                          /\ th.proc \in Procs \cup {0}
    /\ th.pc \in Holding => th.child # 0

InStep == \A t \in Threads : Fits(t, thread[t])

Typed == TypeOK /\ InStep

LEMMA InitTyped == Init => Typed
  <1> SUFFICES ASSUME Init PROVE Typed
    OBVIOUS
  <1> USE DEF Init
  <1>1. sessions \in Seq(Session) /\ Len(sessions) = 0
    OBVIOUS
  <1>2. children \in Seq(Child) /\ Len(children) = 0
    OBVIOUS
  <1>3. Resting \in ThreadState
    BY <1>1, <1>2 DEF Resting, ThreadState, PCs, SessionNo, ChildNo
  <1>4. \A t \in Threads : Fits(t, Resting)
    BY DEF Fits, Resting, Restarting, Stopping, Starting, Creating, Holding
  <1>5. TypeOK
    BY <1>1, <1>2, <1>3 DEF TypeOK, SessionNo, Stray
  <1>6. InStep
    BY <1>4 DEF InStep
  <1> QED
    BY <1>5, <1>6 DEF Typed

(* What a step has to show: only one thread moves, and what it moves to     *)
(* fits.                                                                    *)
LEMMA OneMoves ==
    ASSUME Typed, NEW t \in Threads, NEW th,
           thread' = [thread EXCEPT ![t] = th],
           sessions' \in Seq(Session'), Len(sessions') \in Len(sessions) .. MaxSessions,
           children' \in Seq(Child), Len(children') >= Len(children),
           registered' \in SessionNo', disk' \in 0 .. Stray,
           lock' \in Threads \cup {Nobody},
           th \in ThreadState', Fits(t, th)
    PROVE  Typed'
  <1>1. Len(sessions) \in Nat /\ Len(children) \in Nat
        /\ Len(sessions') \in Nat /\ Len(children') \in Nat
    BY DEF Typed, TypeOK
  <1>2. SessionNo \subseteq SessionNo' /\ ChildNo \subseteq ChildNo'
    BY <1>1 DEF SessionNo, ChildNo
  <1>3. ThreadState \subseteq ThreadState'
    BY <1>2 DEF ThreadState
  <1>4. thread' \in [Threads -> ThreadState']
    BY <1>3 DEF Typed, TypeOK
  <1>5. TypeOK'
    BY <1>1, <1>4 DEF Typed, TypeOK, Stray, Child
  <1>6. InStep'
    BY DEF Typed, TypeOK, InStep
  <1> QED
    BY <1>5, <1>6 DEF Typed

(* The frame of a step: what it says of the thread that takes it.           *)
Moves(t) == thread' = [thread EXCEPT ![t] = thread'[t]]

LEMMA NothingIsAdded ==
    ASSUME Typed, NEW t \in Threads, Moves(t),
           sessions' \in Seq(Session), Len(sessions') = Len(sessions),
           children' \in Seq(Child), Len(children') = Len(children),
           registered' \in SessionNo, disk' \in 0 .. Stray,
           lock' \in Threads \cup {Nobody},
           thread'[t] \in ThreadState, Fits(t, thread'[t])
    PROVE  Typed'
  <1>1. SessionNo' = SessionNo /\ ChildNo' = ChildNo /\ Session' = Session
    BY DEF SessionNo, ChildNo, Session
  <1>2. ThreadState' = ThreadState
    BY <1>1 DEF ThreadState
  <1>3. /\ Len(sessions') \in Len(sessions) .. MaxSessions
        /\ Len(children') >= Len(children)
    BY DEF Typed, TypeOK
  <1> QED
    BY <1>1, <1>2, <1>3, OneMoves DEF Moves

LEMMA OnlyTheThread ==
    ASSUME Typed, NEW t \in Threads, UNCHANGED <<sessions, children>>, Moves(t),
           registered' \in SessionNo, disk' \in 0 .. Stray,
           lock' \in Threads \cup {Nobody},
           thread'[t] \in ThreadState, Fits(t, thread'[t])
    PROVE  Typed'
  BY NothingIsAdded DEF Typed, TypeOK

(* A request as it begins.                                                  *)
LEMMA BeginTyped ==
    ASSUME Typed, NEW t \in Threads,
           NEW op \in Operations, NEW pc \in {"touch", "stop", "take"},
           NEW s \in SessionNo, NEW p \in Procs \cup {0}, Begin(t, op, pc, s, p)
    PROVE  /\ Moves(t) /\ op \in Does[t] /\ thread[t].pc = "idle"
           /\ thread'[t] \in ThreadState
           /\ thread'[t].op = op /\ thread'[t].pc = pc
           /\ thread'[t].session = s /\ thread'[t].proc = p
           /\ thread'[t].child = 0 /\ thread'[t].targets = {}
  <1> DEFINE new == [Resting EXCEPT !.op = op, !.pc = pc, !.session = s, !.proc = p]
  <1>1. p \in 0 .. NumProcs + 1 /\ 0 \in ChildNo /\ 0 \in SessionNo
    BY DEF Procs, Typed, TypeOK, ChildNo, SessionNo
  <1>2. pc \in PCs
    BY DEF PCs
  <1>3. Resting \in ThreadState /\ Resting.child = 0 /\ Resting.targets = {}
    BY <1>1 DEF Resting, ThreadState, PCs
  <1>4. /\ new \in ThreadState
        /\ new.op = op /\ new.pc = pc /\ new.session = s /\ new.proc = p
        /\ new.child = 0 /\ new.targets = {}
    <2> HIDE DEF Resting
    <2> QED
      BY <1>1, <1>2, <1>3 DEF ThreadState
  <1>5. thread' = [thread EXCEPT ![t] = new] /\ op \in Does[t] /\ thread[t].pc = "idle"
    BY DEF Begin
  <1> QED
    BY <1>4, <1>5 DEF Typed, TypeOK, Moves

LEMMA ArrivalTyped ==
    ASSUME Typed, NEW t \in Threads, Arrive(t)
    PROVE  Typed'
  <1>a. /\ registered \in SessionNo /\ 0 \in SessionNo
        /\ disk \in 0 .. Stray /\ lock \in Threads \cup {Nobody}
        /\ {"post", "patch", "get", "delete", "reap"} = Operations
    BY DEF Typed, TypeOK, SessionNo, Operations
  <1> USE DEF Fits, Restarting, Stopping, Starting, Creating, Holding
  <1>1. CASE BeginGet(t)
    <2>1. registered # 0 /\ Begin(t, "get", "touch", registered, 0)
      BY <1>1 DEF BeginGet
    <2>2. Moves(t) /\ thread'[t] \in ThreadState /\ Fits(t, thread'[t])
      BY <2>1, <1>a, BeginTyped
    <2> QED
      BY <1>1, <2>2, <1>a, OnlyTheThread DEF BeginGet
  <1>2. CASE BeginDelete(t)
    <2>1. registered # 0 /\ Begin(t, "delete", "stop", registered, 0)
      BY <1>2 DEF BeginDelete
    <2>2. Moves(t) /\ thread'[t] \in ThreadState /\ Fits(t, thread'[t])
      BY <2>1, <1>a, BeginTyped
    <2> QED
      BY <1>2, <2>2, <1>a, OnlyTheThread DEF BeginDelete
  <1>3. CASE Reap(t)
    <2>1. registered # 0 /\ Begin(t, "reap", "stop", registered, 0)
      BY <1>3 DEF Reap
    <2>2. Moves(t) /\ thread'[t] \in ThreadState /\ Fits(t, thread'[t])
      BY <2>1, <1>a, BeginTyped
    <2> QED
      BY <1>3, <2>2, <1>a, OnlyTheThread DEF Reap
  <1>4. CASE BeginPost(t)
    <2>1. Begin(t, "post", "take", 0, 0)
      BY <1>4 DEF BeginPost
    <2>2. Moves(t) /\ thread'[t] \in ThreadState /\ Fits(t, thread'[t])
      BY <2>1, <1>a, BeginTyped
    <2> QED
      BY <1>4, <2>2, <1>a, OnlyTheThread DEF BeginPost
  <1>5. ASSUME NEW p \in Procs \cup {0}, BeginPatch(t, p)
        PROVE  Typed'
    <2>1. registered # 0 /\ Begin(t, "patch", "touch", registered, p)
      BY <1>5 DEF BeginPatch
    <2>a. p \in Procs \cup {0}
      BY <1>5
    <2>b. Moves(t) /\ thread'[t] \in ThreadState
          /\ thread'[t].op = "patch" /\ "patch" \in Does[t] /\ thread'[t].pc = "touch"
          /\ thread'[t].session = registered /\ thread'[t].proc = p
      BY <2>1, <2>a, <1>a, BeginTyped
    <2>2. Fits(t, thread'[t])
      BY <2>1, <2>a, <2>b
    <2> QED
      BY <2>b, <1>5, <2>2, <1>a, OnlyTheThread DEF BeginPatch
  <1> QED
    BY <1>1, <1>2, <1>3, <1>4, <1>5 DEF Arrive

(* The ways a thread goes on.                                               *)
SameBut(t, pc) ==
    /\ thread'[t].pc = pc /\ thread'[t].op = thread[t].op
    /\ thread'[t].session = thread[t].session /\ thread'[t].proc = thread[t].proc
    /\ thread'[t].child = thread[t].child /\ thread'[t].targets = thread[t].targets

LEMMA GotoTyped ==
    ASSUME Typed, NEW t \in Threads, NEW pc \in PCs, Goto(t, pc)
    PROVE  Moves(t) /\ thread'[t] \in ThreadState /\ SameBut(t, pc)
  BY DEF SameBut, Typed, TypeOK, ThreadState, Goto, Moves

LEMMA FinishTyped ==
    ASSUME Typed, NEW t \in Threads, Finish(t)
    PROVE  Moves(t) /\ thread'[t] \in ThreadState /\ thread'[t] = Resting /\ Fits(t, thread'[t])
  <1>1. 0 \in SessionNo /\ 0 \in ChildNo
    BY DEF Typed, TypeOK, SessionNo, ChildNo
  <1>2. Resting \in ThreadState
    BY <1>1 DEF Resting, ThreadState, PCs
  <1>3. Fits(t, Resting)
    BY DEF Fits, Resting, Restarting, Stopping, Starting, Creating, Holding
  <1> QED
    BY <1>2, <1>3 DEF Finish, Moves, Typed, TypeOK

LEMMA SkipTyped ==
    ASSUME Typed, NEW t \in Threads, thread[t].proc \in Procs, thread[t].op = "post",
           thread[t].session # 0, SkipTo(t)
    PROVE  /\ Moves(t) /\ thread'[t] \in ThreadState /\ Fits(t, thread'[t])
           /\ thread'[t].pc = "next" /\ thread'[t].op = "post"
           /\ thread'[t].session = thread[t].session
           /\ thread'[t].proc = thread[t].proc + 1
  <1>1. thread[t].proc + 1 \in 0 .. NumProcs + 1 /\ thread[t].proc + 1 # 0
    BY DEF Procs
  <1>2. 0 \in ChildNo
    BY DEF Typed, TypeOK, ChildNo
  <1>3. "next" \in PCs
    BY DEF PCs
  <1>4. /\ Moves(t) /\ thread'[t] \in ThreadState
        /\ thread'[t].pc = "next" /\ thread'[t].op = "post"
        /\ thread'[t].session = thread[t].session
        /\ thread'[t].proc = thread[t].proc + 1
    BY <1>1, <1>2, <1>3 DEF Typed, TypeOK, ThreadState, SkipTo, Moves
  <1>5. Fits(t, thread'[t])
    BY <1>1, <1>4 DEF Typed, InStep, Fits, Restarting, Stopping, Starting, Creating, Holding
  <1> QED
    BY <1>4, <1>5

LEMMA WorkThreadTyped ==
    ASSUME Typed, NEW t \in Threads,
           \/ WriteFiles(t) \/ RestartGuard(t) \/ Collect(t) \/ RemoveWorkspace(t)
           \/ TakeOver(t) \/ ClearWorkspace(t) \/ Register(t) \/ NextProc(t)
           \/ BeginStart(t) \/ Ready(t)
    PROVE  Typed'
  <1>a. /\ registered \in SessionNo /\ 0 \in SessionNo /\ 0 \in ChildNo
        /\ disk \in 0 .. Stray /\ 0 \in 0 .. Stray /\ Stray \in 0 .. Stray
        /\ lock \in Threads \cup {Nobody} /\ Nobody \in Threads \cup {Nobody}
        /\ thread \in [Threads -> ThreadState] /\ Fits(t, thread[t])
        /\ thread[t].proc \in 0 .. NumProcs + 1
    BY DEF Typed, TypeOK, SessionNo, ChildNo, InStep, Stray, ThreadState
  <1>b. TouchDisk => disk' \in 0 .. Stray
    BY <1>a DEF TouchDisk
  <1> USE DEF Fits, SameBut, Restarting, Stopping, Starting, Creating, Holding
  <1>1. CASE WriteFiles(t)
    <2>1. ASSUME Goto(t, "restart"), thread[t].proc # 0 PROVE Typed'
      <3>1. "restart" \in PCs
        BY DEF PCs
      <3>2. Moves(t) /\ thread'[t] \in ThreadState /\ SameBut(t, "restart")
        BY <2>1, <3>1, GotoTyped
      <3>3. Fits(t, thread'[t])
        BY <1>1, <2>1, <3>2, <1>a DEF WriteFiles
      <3> QED
        BY <1>1, <1>a, <1>b, <3>2, <3>3, OnlyTheThread DEF WriteFiles
    <2>2. ASSUME Finish(t) PROVE Typed'
      BY <1>1, <2>2, <1>a, <1>b, FinishTyped, OnlyTheThread DEF WriteFiles
    <2> QED
      BY <1>1, <2>1, <2>2 DEF WriteFiles
  <1>2. CASE RestartGuard(t)
    <2>1. ASSUME Goto(t, "killOld") PROVE Typed'
      <3>1. "killOld" \in PCs
        BY DEF PCs
      <3>2. Moves(t) /\ thread'[t] \in ThreadState /\ SameBut(t, "killOld")
        BY <2>1, <3>1, GotoTyped
      <3>3. Fits(t, thread'[t])
        BY <1>2, <2>1, <3>2, <1>a DEF RestartGuard
      <3> QED
        BY <1>2, <1>a, <1>b, <3>2, <3>3, OnlyTheThread DEF RestartGuard
    <2>2. ASSUME Finish(t) PROVE Typed'
      BY <1>2, <2>2, <1>a, <1>b, FinishTyped, OnlyTheThread DEF RestartGuard
    <2> QED
      BY <1>2, <2>1, <2>2 DEF RestartGuard
  <1>3. CASE RemoveWorkspace(t)
    <2>1. ASSUME Goto(t, "clear"), thread[t].op = "post" PROVE Typed'
      <3>1. "clear" \in PCs
        BY DEF PCs
      <3>2. Moves(t) /\ thread'[t] \in ThreadState /\ SameBut(t, "clear")
        BY <2>1, <3>1, GotoTyped
      <3>3. Fits(t, thread'[t])
        BY <1>3, <2>1, <3>2, <1>a DEF RemoveWorkspace
      <3> QED
        BY <1>3, <1>a, <1>b, <3>2, <3>3, OnlyTheThread DEF RemoveWorkspace
    <2>2. ASSUME Finish(t) PROVE Typed'
      BY <1>3, <2>2, <1>a, <1>b, FinishTyped, OnlyTheThread DEF RemoveWorkspace
    <2> QED
      BY <1>3, <2>1, <2>2 DEF RemoveWorkspace, AfterDestroy
  <1>4. CASE ClearWorkspace(t)
    <2>1. ASSUME Goto(t, "make") PROVE Typed'
      <3>1. "make" \in PCs
        BY DEF PCs
      <3>2. Moves(t) /\ thread'[t] \in ThreadState /\ SameBut(t, "make")
        BY <2>1, <3>1, GotoTyped
      <3>3. Fits(t, thread'[t])
        BY <1>4, <2>1, <3>2, <1>a DEF ClearWorkspace
      <3> QED
        BY <1>4, <1>a, <1>b, <3>2, <3>3, OnlyTheThread DEF ClearWorkspace
    <2> QED
      BY <1>4, <2>1 DEF ClearWorkspace
  <1>5. CASE NextProc(t)
    <2>1. ASSUME Goto(t, "begin"), thread[t].proc <= NumProcs PROVE Typed'
      <3>1. "begin" \in PCs
        BY DEF PCs
      <3>2. Moves(t) /\ thread'[t] \in ThreadState /\ SameBut(t, "begin")
        BY <2>1, <3>1, GotoTyped
      <3>3. Fits(t, thread'[t])
        BY <1>5, <2>1, <3>2, <1>a DEF NextProc, Release, Procs
      <3> QED
        BY <1>5, <1>a, <1>b, <3>2, <3>3, OnlyTheThread DEF NextProc, Release, Procs
    <2>2. ASSUME Finish(t) PROVE Typed'
      BY <1>5, <2>2, <1>a, <1>b, FinishTyped, OnlyTheThread DEF NextProc, Release, Procs
    <2> QED
      BY <1>5, <1>a, <2>1, <2>2 DEF NextProc, Release
  <1>6. CASE BeginStart(t)
    <2>1. ASSUME Goto(t, "setup") PROVE Typed'
      <3>1. "setup" \in PCs
        BY DEF PCs
      <3>2. Moves(t) /\ thread'[t] \in ThreadState /\ SameBut(t, "setup")
        BY <2>1, <3>1, GotoTyped
      <3>3. Fits(t, thread'[t])
        BY <1>6, <2>1, <3>2, <1>a DEF BeginStart
      <3> QED
        BY <1>6, <1>a, <1>b, <3>2, <3>3, OnlyTheThread DEF BeginStart
    <2>2. ASSUME Goto(t, "ready") PROVE Typed'
      <3>1. "ready" \in PCs
        BY DEF PCs
      <3>2. Moves(t) /\ thread'[t] \in ThreadState /\ SameBut(t, "ready")
        BY <2>2, <3>1, GotoTyped
      <3>3. Fits(t, thread'[t])
        BY <1>6, <2>2, <3>2, <1>a DEF BeginStart
      <3> QED
        BY <1>6, <1>a, <1>b, <3>2, <3>3, OnlyTheThread DEF BeginStart
    <2> QED
      BY <1>6, <2>1, <2>2 DEF BeginStart
  <1>7. CASE Ready(t)
    <2>1. ASSUME Goto(t, "spawn") PROVE Typed'
      <3>1. "spawn" \in PCs
        BY DEF PCs
      <3>2. Moves(t) /\ thread'[t] \in ThreadState /\ SameBut(t, "spawn")
        BY <2>1, <3>1, GotoTyped
      <3>3. Fits(t, thread'[t])
        BY <1>7, <2>1, <3>2, <1>a DEF Ready
      <3> QED
        BY <1>7, <1>a, <1>b, <3>2, <3>3, OnlyTheThread DEF Ready
    <2>2. ASSUME SkipTo(t) PROVE Typed'
      BY <1>7, <2>2, <1>a, SkipTyped, OnlyTheThread DEF Ready
    <2> QED
      BY <1>7, <2>1, <2>2 DEF Ready
  <1>8. CASE Collect(t)
    <2>1. thread[t].session \in 1 .. Len(sessions)
      BY <1>8, <1>a DEF Collect, ThreadState, SessionNo
    <2>2. S(t) \in Session
      BY <2>1 DEF S, Typed, TypeOK
    <2>3. ({S(t).popen[p] : p \in Procs} \cup {S(t).setup}) \ {0} \in SUBSET ChildNo
      BY <2>2 DEF Session
    <2>4. "kill" \in PCs
      BY DEF PCs
    <2>5. /\ Moves(t) /\ thread'[t] \in ThreadState
          /\ thread'[t].pc = "kill" /\ thread'[t].op = thread[t].op
          /\ thread'[t].session = thread[t].session
      BY <1>8, <1>a, <2>3, <2>4 DEF Collect, Moves, ThreadState
    <2>6. Fits(t, thread'[t])
      BY <1>8, <1>a, <2>5 DEF Collect
    <2> QED
      BY <1>8, <1>a, <2>5, <2>6, OnlyTheThread DEF Collect
  <1>9. CASE TakeOver(t)
    <2>1. {"stop", "clear"} \subseteq PCs
      BY DEF PCs
    <2>2. /\ Moves(t) /\ thread'[t] \in ThreadState
          /\ thread'[t].pc = IF registered # 0 THEN "stop" ELSE "clear"
          /\ thread'[t].op = thread[t].op /\ thread'[t].session = registered
      BY <1>9, <1>a, <2>1 DEF TakeOver, Moves, ThreadState
    <2>3. Fits(t, thread'[t])
      BY <1>9, <1>a, <2>2 DEF TakeOver
    <2> QED
      BY <1>9, <1>a, <2>2, <2>3, OnlyTheThread DEF TakeOver
  <1>10. CASE Register(t)
    <2>1. "next" \in PCs /\ 1 \in 0 .. NumProcs + 1
      BY DEF PCs
    <2>2. /\ Moves(t) /\ thread'[t] \in ThreadState
          /\ thread'[t].pc = "next" /\ thread'[t].op = thread[t].op
          /\ thread'[t].session = thread[t].session /\ thread'[t].proc = 1
      BY <1>10, <1>a, <2>1 DEF Register, Moves, ThreadState
    <2>3. Fits(t, thread'[t])
      BY <1>10, <1>a, <2>2 DEF Register
    <2>4. thread[t].session \in SessionNo
      BY <1>a DEF ThreadState
    <2> QED
      BY <1>10, <1>a, <2>2, <2>3, <2>4, OnlyTheThread DEF Register
  <1> QED
    BY <1>1, <1>2, <1>3, <1>4, <1>5, <1>6, <1>7, <1>8, <1>9, <1>10

(* What happens to a session and to the children.                           *)
LEMMA KillTyped ==
    ASSUME Typed, NEW cs, Kill(cs)
    PROVE  /\ children' \in Seq(Child) /\ Len(children') = Len(children)
           /\ DOMAIN children' = DOMAIN children
           /\ \A c \in DOMAIN children :
                 /\ children'[c].session = children[c].session
                 /\ children'[c].proc = children[c].proc
                 /\ children'[c].running = (children[c].running /\ c \notin cs)
  <1>1. children \in Seq(Child) /\ DOMAIN children = 1 .. Len(children)
        /\ Len(children) \in Nat
    BY DEF Typed, TypeOK
  <1>2. ASSUME NEW c \in DOMAIN children
        PROVE  /\ children'[c] \in Child
               /\ children'[c].session = children[c].session
               /\ children'[c].proc = children[c].proc
               /\ children'[c].running = (children[c].running /\ c \notin cs)
    <2>1. children'[c] = [children[c] EXCEPT !.running = @ /\ c \notin cs]
      BY DEF Kill
    <2>2. children[c] \in Child
      BY <1>1
    <2> QED
      BY <2>1, <2>2 DEF Child
  <1>3. children' \in [1 .. Len(children) -> Child]
    BY <1>1, <1>2 DEF Kill
  <1>4. children' \in Seq(Child) /\ Len(children') = Len(children)
    BY <1>1, <1>3
  <1> QED
    BY <1>1, <1>2, <1>3, <1>4

LEMMA SetPopenTyped ==
    ASSUME Typed, NEW t \in Threads, thread[t].session # 0, thread[t].proc \in Procs,
           NEW c \in ChildNo, SetPopen(t, c)
    PROVE  /\ sessions' \in Seq(Session) /\ Len(sessions') = Len(sessions)
           /\ \A s \in 1 .. Len(sessions) :
                 /\ sessions'[s].stopped = sessions[s].stopped
                 /\ sessions'[s].idle = sessions[s].idle
                 /\ sessions'[s].setup = sessions[s].setup
                 /\ \A p \in Procs :
                       sessions'[s].popen[p] =
                          IF s = thread[t].session /\ p = thread[t].proc
                          THEN c ELSE sessions[s].popen[p]
  <1>1. thread[t].session \in 1 .. Len(sessions)
    BY DEF Typed, TypeOK, ThreadState, SessionNo
  <1>2. /\ sessions \in Seq(Session) /\ Len(sessions) \in Nat
        /\ sessions[thread[t].session] \in Session
    BY <1>1 DEF Typed, TypeOK
  <1> DEFINE new == [sessions[thread[t].session] EXCEPT
                       !.popen = [@ EXCEPT ![thread[t].proc] = c]]
  <1>3. sessions' = [sessions EXCEPT ![thread[t].session] = new]
    BY DEF SetPopen
  <1>4. /\ new \in Session
        /\ new.stopped = sessions[thread[t].session].stopped
        /\ new.idle = sessions[thread[t].session].idle
        /\ new.setup = sessions[thread[t].session].setup
        /\ \A p \in Procs : new.popen[p] =
              IF p = thread[t].proc THEN c ELSE sessions[thread[t].session].popen[p]
    BY <1>2 DEF Session
  <1> HIDE DEF new
  <1>5. sessions' \in Seq(Session) /\ Len(sessions') = Len(sessions)
    BY <1>1, <1>2, <1>3, <1>4
  <1>6. \A s \in 1 .. Len(sessions) :
          sessions'[s] = IF s = thread[t].session THEN new ELSE sessions[s]
    BY <1>1, <1>2, <1>3
  <1> QED
    BY <1>4, <1>5, <1>6

LEMMA SpawnTyped ==
    ASSUME Typed, NEW t \in Threads, NEW pc \in PCs, Spawned(t, pc), UNCHANGED sessions,
           thread[t].session # 0, thread[t].proc \in Procs
    PROVE  /\ Moves(t) /\ thread'[t] \in ThreadState' /\ SessionNo' = SessionNo
           /\ Session \subseteq Session'
           /\ thread'[t].pc = pc /\ thread'[t].op = thread[t].op
           /\ thread'[t].session = thread[t].session /\ thread'[t].proc = thread[t].proc
           /\ thread'[t].child = Len(children) + 1
           /\ children' \in Seq(Child) /\ Len(children') = Len(children) + 1
           /\ \A c \in DOMAIN children : children'[c] = children[c]
           /\ DOMAIN children' = DOMAIN children \cup {Len(children) + 1}
           /\ children'[Len(children) + 1] = [session |-> thread[t].session,
                                             proc |-> thread[t].proc, running |-> TRUE]
  <1> DEFINE new == [session |-> thread[t].session, proc |-> thread[t].proc,
                     running |-> TRUE]
  <1>1. thread[t].session \in 1 .. MaxSessions
    BY DEF Typed, TypeOK, ThreadState, SessionNo
  <1>2. new \in Child
    BY <1>1 DEF Child
  <1>3. children \in Seq(Child) /\ children' = Append(children, new)
    BY DEF Typed, TypeOK, Spawned
  <1>4. /\ children' \in Seq(Child) /\ Len(children') = Len(children) + 1
        /\ children'[Len(children) + 1] = new
        /\ Len(children) \in Nat
    BY <1>2, <1>3
  <1>5. \A c \in DOMAIN children : children'[c] = children[c]
    BY <1>2, <1>3
  <1>6. DOMAIN children' = DOMAIN children \cup {Len(children) + 1}
    BY <1>3, <1>4
  <1>7. ChildNo \subseteq ChildNo' /\ Len(children) + 1 \in ChildNo' /\ SessionNo' = SessionNo
    BY <1>4 DEF ChildNo, SessionNo
  <1>8. Session \subseteq Session' /\ ThreadState \subseteq ThreadState'
    BY <1>7 DEF Session, ThreadState
  <1>9. /\ Moves(t) /\ thread'[t] \in ThreadState'
        /\ thread'[t].pc = pc /\ thread'[t].op = thread[t].op
        /\ thread'[t].session = thread[t].session /\ thread'[t].proc = thread[t].proc
        /\ thread'[t].child = Len(children) + 1
    BY <1>7, <1>8 DEF Moves, Spawned, ThreadState, Typed, TypeOK
  <1> QED
    BY <1>4, <1>5, <1>6, <1>7, <1>8, <1>9

(* A flag or the setup of one session changes.                              *)
LEMMA FlagsTyped ==
    ASSUME Typed, NEW s \in 1 .. Len(sessions),
           \/ \E b \in BOOLEAN : sessions' = [sessions EXCEPT ![s].idle = b]
           \/ sessions' = [sessions EXCEPT ![s].stopped = TRUE]
           \/ \E c \in ChildNo : sessions' = [sessions EXCEPT ![s].setup = c]
    PROVE  /\ sessions' \in Seq(Session) /\ Len(sessions') = Len(sessions)
           /\ \A x \in 1 .. Len(sessions) :
                 /\ sessions'[x].popen = sessions[x].popen
                 /\ sessions[x].stopped => sessions'[x].stopped
  <1>1. sessions \in Seq(Session) /\ sessions[s] \in Session /\ Len(sessions) \in Nat
    BY DEF Typed, TypeOK
  <1>2. PICK new \in Session :
           /\ sessions' = [sessions EXCEPT ![s] = new]
           /\ new.popen = sessions[s].popen
           /\ sessions[s].stopped => new.stopped
    <2>1. CASE \E b \in BOOLEAN : sessions' = [sessions EXCEPT ![s].idle = b]
      <3>1. PICK b \in BOOLEAN : sessions' = [sessions EXCEPT ![s].idle = b]
        BY <2>1
      <3>2. /\ [sessions[s] EXCEPT !.idle = b] \in Session
            /\ [sessions[s] EXCEPT !.idle = b].popen = sessions[s].popen
            /\ [sessions[s] EXCEPT !.idle = b].stopped = sessions[s].stopped
        BY <1>1 DEF Session
      <3> QED
        BY <3>1, <3>2
    <2>2. CASE sessions' = [sessions EXCEPT ![s].stopped = TRUE]
      <3>1. /\ [sessions[s] EXCEPT !.stopped = TRUE] \in Session
            /\ [sessions[s] EXCEPT !.stopped = TRUE].popen = sessions[s].popen
            /\ [sessions[s] EXCEPT !.stopped = TRUE].stopped
        BY <1>1 DEF Session
      <3> QED
        BY <2>2, <3>1
    <2>3. CASE \E c \in ChildNo : sessions' = [sessions EXCEPT ![s].setup = c]
      <3>1. PICK c \in ChildNo : sessions' = [sessions EXCEPT ![s].setup = c]
        BY <2>3
      <3>2. /\ [sessions[s] EXCEPT !.setup = c] \in Session
            /\ [sessions[s] EXCEPT !.setup = c].popen = sessions[s].popen
            /\ [sessions[s] EXCEPT !.setup = c].stopped = sessions[s].stopped
        BY <1>1 DEF Session
      <3> QED
        BY <3>1, <3>2
    <2> QED
      BY <2>1, <2>2, <2>3
  <1>3. sessions' \in Seq(Session) /\ Len(sessions') = Len(sessions)
    BY <1>1, <1>2
  <1>4. \A x \in 1 .. Len(sessions) :
          sessions'[x] = IF x = s THEN new ELSE sessions[x]
    BY <1>1, <1>2
  <1> QED
    BY <1>2, <1>3, <1>4

LEMMA WorkOnSessionsTyped ==
    ASSUME Typed, NEW t \in Threads,
           \/ TouchSession(t) \/ Republish(t) \/ Stop(t) \/ PublishSetup(t)
           \/ AwaitSetup(t) \/ Publish(t)
    PROVE  Typed'
  <1>a. /\ registered \in SessionNo /\ 0 \in SessionNo /\ 0 \in ChildNo
        /\ disk \in 0 .. Stray /\ lock \in Threads \cup {Nobody}
        /\ thread \in [Threads -> ThreadState] /\ Fits(t, thread[t])
        /\ thread[t].session \in SessionNo /\ thread[t].child \in ChildNo
        /\ sessions \in Seq(Session) /\ children \in Seq(Child)
    BY DEF Typed, TypeOK, SessionNo, ChildNo, InStep, ThreadState
  <1>b. thread[t].session # 0 => thread[t].session \in 1 .. Len(sessions)
    BY <1>a DEF SessionNo
  <1> USE DEF Fits, SameBut, Restarting, Stopping, Starting, Creating, Holding
  <1>1. CASE TouchSession(t)
    <2>0. sessions' \in Seq(Session) /\ Len(sessions') = Len(sessions)
      BY <1>1, <1>a, <1>b, FlagsTyped DEF TouchSession
    <2>1. ASSUME Goto(t, "write"), thread[t].op = "patch" PROVE Typed'
      <3>1. "write" \in PCs
        BY DEF PCs
      <3>2. Moves(t) /\ thread'[t] \in ThreadState /\ SameBut(t, "write")
        BY <2>1, <3>1, GotoTyped
      <3>3. Fits(t, thread'[t])
        BY <1>1, <2>1, <3>2, <1>a DEF TouchSession
      <3> QED
        BY <1>1, <1>a, <2>0, <3>2, <3>3, NothingIsAdded DEF TouchSession
    <2>2. ASSUME Finish(t) PROVE Typed'
      BY <1>1, <1>a, <2>0, <2>2, FinishTyped, NothingIsAdded DEF TouchSession
    <2> QED
      BY <1>1, <2>1, <2>2 DEF TouchSession
  <1>2. CASE Republish(t)
    <2>0. sessions' \in Seq(Session) /\ Len(sessions') = Len(sessions)
      BY <1>2, <1>a, <1>b, SetPopenTyped DEF Republish
    <2>1. ASSUME Goto(t, "recheck") PROVE Typed'
      <3>1. "recheck" \in PCs
        BY DEF PCs
      <3>2. Moves(t) /\ thread'[t] \in ThreadState /\ SameBut(t, "recheck")
        BY <2>1, <3>1, GotoTyped
      <3>3. Fits(t, thread'[t])
        BY <1>2, <2>1, <3>2, <1>a DEF Republish
      <3> QED
        BY <1>2, <1>a, <2>0, <3>2, <3>3, NothingIsAdded DEF Republish
    <2> QED
      BY <1>2, <2>1 DEF Republish
  <1>3. CASE Stop(t)
    <2>0. sessions' \in Seq(Session) /\ Len(sessions') = Len(sessions)
      BY <1>3, <1>a, <1>b, FlagsTyped DEF Stop
    <2>1. ASSUME Goto(t, "collect") PROVE Typed'
      <3>1. "collect" \in PCs
        BY DEF PCs
      <3>2. Moves(t) /\ thread'[t] \in ThreadState /\ SameBut(t, "collect")
        BY <2>1, <3>1, GotoTyped
      <3>3. Fits(t, thread'[t])
        BY <1>3, <2>1, <3>2, <1>a DEF Stop
      <3> QED
        BY <1>3, <1>a, <2>0, <3>2, <3>3, NothingIsAdded DEF Stop
    <2> QED
      BY <1>3, <2>1 DEF Stop
  <1>4. CASE PublishSetup(t)
    <2>0. sessions' \in Seq(Session) /\ Len(sessions') = Len(sessions)
      BY <1>4, <1>a, <1>b, FlagsTyped DEF PublishSetup
    <2>1. ASSUME Goto(t, "checkSetup") PROVE Typed'
      <3>1. "checkSetup" \in PCs
        BY DEF PCs
      <3>2. Moves(t) /\ thread'[t] \in ThreadState /\ SameBut(t, "checkSetup")
        BY <2>1, <3>1, GotoTyped
      <3>3. Fits(t, thread'[t])
        BY <1>4, <2>1, <3>2, <1>a DEF PublishSetup
      <3> QED
        BY <1>4, <1>a, <2>0, <3>2, <3>3, NothingIsAdded DEF PublishSetup
    <2> QED
      BY <1>4, <2>1 DEF PublishSetup
  <1>5. CASE AwaitSetup(t)
    <2>0. sessions' \in Seq(Session) /\ Len(sessions') = Len(sessions)
      BY <1>5, <1>a, <1>b, FlagsTyped DEF AwaitSetup
    <2>1. ASSUME Goto(t, "ready") PROVE Typed'
      <3>1. "ready" \in PCs
        BY DEF PCs
      <3>2. Moves(t) /\ thread'[t] \in ThreadState /\ SameBut(t, "ready")
        BY <2>1, <3>1, GotoTyped
      <3>3. Fits(t, thread'[t])
        BY <1>5, <2>1, <3>2, <1>a DEF AwaitSetup
      <3> QED
        BY <1>5, <1>a, <2>0, <3>2, <3>3, NothingIsAdded DEF AwaitSetup
    <2>2. ASSUME SkipTo(t) PROVE Typed'
      BY <1>5, <1>a, <2>0, <2>2, SkipTyped, NothingIsAdded DEF AwaitSetup
    <2> QED
      BY <1>5, <2>1, <2>2 DEF AwaitSetup
  <1>6. CASE Publish(t)
    <2>0. sessions' \in Seq(Session) /\ Len(sessions') = Len(sessions)
      BY <1>6, <1>a, <1>b, SetPopenTyped DEF Publish
    <2>1. ASSUME Goto(t, "check") PROVE Typed'
      <3>1. "check" \in PCs
        BY DEF PCs
      <3>2. Moves(t) /\ thread'[t] \in ThreadState /\ SameBut(t, "check")
        BY <2>1, <3>1, GotoTyped
      <3>3. Fits(t, thread'[t])
        BY <1>6, <2>1, <3>2, <1>a DEF Publish
      <3> QED
        BY <1>6, <1>a, <2>0, <3>2, <3>3, NothingIsAdded DEF Publish
    <2> QED
      BY <1>6, <2>1 DEF Publish
  <1> QED
    BY <1>1, <1>2, <1>3, <1>4, <1>5, <1>6

LEMMA WorkOnChildrenTyped ==
    ASSUME Typed, NEW t \in Threads,
           \/ KillOld(t) \/ Recheck(t) \/ KillAll(t) \/ CheckSetup(t) \/ Check(t)
    PROVE  Typed'
  <1>a. /\ registered \in SessionNo /\ 0 \in SessionNo /\ 0 \in ChildNo
        /\ disk \in 0 .. Stray /\ lock \in Threads \cup {Nobody}
        /\ thread \in [Threads -> ThreadState] /\ Fits(t, thread[t])
        /\ thread[t].session \in SessionNo /\ thread[t].child \in ChildNo
        /\ sessions \in Seq(Session) /\ children \in Seq(Child)
    BY DEF Typed, TypeOK, SessionNo, ChildNo, InStep, ThreadState
  <1>b. thread[t].session # 0 => thread[t].session \in 1 .. Len(sessions)
    BY <1>a DEF SessionNo
  <1> USE DEF Fits, SameBut, Restarting, Stopping, Starting, Creating, Holding
  <1>1. CASE KillOld(t)
    <2>0. children' \in Seq(Child) /\ Len(children') = Len(children)
      BY <1>1, <1>a, <1>b, KillTyped DEF KillOld
    <2>1. ASSUME Goto(t, "respawn") PROVE Typed'
      <3>1. "respawn" \in PCs
        BY DEF PCs
      <3>2. Moves(t) /\ thread'[t] \in ThreadState /\ SameBut(t, "respawn")
        BY <2>1, <3>1, GotoTyped
      <3>3. Fits(t, thread'[t])
        BY <1>1, <2>1, <3>2, <1>a DEF KillOld
      <3> QED
        BY <1>1, <1>a, <2>0, <3>2, <3>3, NothingIsAdded DEF KillOld
    <2>2. ASSUME Finish(t) PROVE Typed'
      BY <1>1, <1>a, <2>0, <2>2, FinishTyped, NothingIsAdded DEF KillOld
    <2> QED
      BY <1>1, <2>1, <2>2 DEF KillOld
  <1>2. CASE Recheck(t)
    <2>0. children' \in Seq(Child) /\ Len(children') = Len(children)
      BY <1>2, <1>a, <1>b, KillTyped DEF Recheck
    <2>1. ASSUME Finish(t) PROVE Typed'
      BY <1>2, <1>a, <2>0, <2>1, FinishTyped, NothingIsAdded DEF Recheck
    <2> QED
      BY <1>2, <2>1 DEF Recheck
  <1>3. CASE KillAll(t)
    <2>0. children' \in Seq(Child) /\ Len(children') = Len(children)
      BY <1>3, <1>a, <1>b, KillTyped DEF KillAll
    <2>1. ASSUME Goto(t, "remove") PROVE Typed'
      <3>1. "remove" \in PCs
        BY DEF PCs
      <3>2. Moves(t) /\ thread'[t] \in ThreadState /\ SameBut(t, "remove")
        BY <2>1, <3>1, GotoTyped
      <3>3. Fits(t, thread'[t])
        BY <1>3, <2>1, <3>2, <1>a DEF KillAll
      <3> QED
        BY <1>3, <1>a, <2>0, <3>2, <3>3, NothingIsAdded DEF KillAll
    <2> QED
      BY <1>3, <2>1 DEF KillAll
  <1>4. CASE CheckSetup(t)
    <2>0. children' \in Seq(Child) /\ Len(children') = Len(children)
      BY <1>4, <1>a, <1>b, KillTyped DEF CheckSetup
    <2>1. ASSUME Goto(t, "awaitSetup") PROVE Typed'
      <3>1. "awaitSetup" \in PCs
        BY DEF PCs
      <3>2. Moves(t) /\ thread'[t] \in ThreadState /\ SameBut(t, "awaitSetup")
        BY <2>1, <3>1, GotoTyped
      <3>3. Fits(t, thread'[t])
        BY <1>4, <2>1, <3>2, <1>a DEF CheckSetup
      <3> QED
        BY <1>4, <1>a, <2>0, <3>2, <3>3, NothingIsAdded DEF CheckSetup
    <2> QED
      BY <1>4, <2>1 DEF CheckSetup
  <1>5. CASE Check(t)
    <2>0. children' \in Seq(Child) /\ Len(children') = Len(children)
      BY <1>5, <1>a, <1>b, KillTyped DEF Check
    <2>1. ASSUME SkipTo(t) PROVE Typed'
      BY <1>5, <1>a, <2>0, <2>1, SkipTyped, NothingIsAdded DEF Check
    <2> QED
      BY <1>5, <2>1 DEF Check
  <1> QED
    BY <1>1, <1>2, <1>3, <1>4, <1>5

LEMMA WorkThatSpawnsTyped ==
    ASSUME Typed, NEW t \in Threads, Respawn(t) \/ SpawnSetup(t) \/ SpawnProc(t)
    PROVE  Typed'
  <1>a. /\ registered \in SessionNo /\ 0 \in SessionNo /\ 0 \in ChildNo
        /\ disk \in 0 .. Stray /\ lock \in Threads \cup {Nobody}
        /\ thread \in [Threads -> ThreadState] /\ Fits(t, thread[t])
        /\ thread[t].session \in SessionNo /\ thread[t].child \in ChildNo
        /\ sessions \in Seq(Session) /\ children \in Seq(Child)
    BY DEF Typed, TypeOK, SessionNo, ChildNo, InStep, ThreadState
  <1>b. thread[t].session # 0 => thread[t].session \in 1 .. Len(sessions)
    BY <1>a DEF SessionNo
  <1> USE DEF Fits, SameBut, Restarting, Stopping, Starting, Creating, Holding
  <1>c. thread[t].session # 0 /\ thread[t].proc \in Procs
    BY <1>a DEF Respawn, SpawnSetup, SpawnProc
  <1>d. Len(sessions) \in Nat /\ Len(children) \in Nat /\ Len(sessions) <= MaxSessions
    BY DEF Typed, TypeOK
  <1>1. ASSUME NEW pc \in {"republish", "publishSetup", "publish"}, Spawned(t, pc),
               pc = "republish" => thread[t].pc = "respawn",
               pc # "republish" => thread[t].pc \in {"setup", "spawn"},
               UNCHANGED <<registered, sessions, disk, lock>>
        PROVE  Typed'
    <2>1. pc \in PCs
      BY DEF PCs
    <2>2. /\ Moves(t) /\ thread'[t] \in ThreadState' /\ SessionNo' = SessionNo
          /\ thread'[t].pc = pc /\ thread'[t].op = thread[t].op
          /\ thread'[t].session = thread[t].session /\ thread'[t].proc = thread[t].proc
          /\ thread'[t].child = Len(children) + 1
          /\ children' \in Seq(Child) /\ Len(children') = Len(children) + 1
          /\ Session \subseteq Session'
      BY <1>1, <1>c, <2>1, SpawnTyped
    <2>3. Fits(t, thread'[t])
      BY <1>1, <1>a, <1>c, <1>d, <2>2
    <2>4. sessions' \in Seq(Session')
      BY <1>1, <1>a, <2>2
    <2>5. /\ registered' \in SessionNo' /\ disk' \in 0 .. Stray
          /\ lock' \in Threads \cup {Nobody}
          /\ Len(sessions') \in Len(sessions) .. MaxSessions
          /\ Len(children') >= Len(children)
      BY <1>1, <1>a, <1>d, <2>2
    <2>6. thread' = [thread EXCEPT ![t] = thread'[t]]
      BY <2>2 DEF Moves
    <2> HIDE DEF Fits
    <2> QED
      BY <2>2, <2>3, <2>4, <2>5, <2>6, OneMoves
  <1>2. CASE Respawn(t)
    <2>1. ASSUME SetPopen(t, 0), Finish(t), UNCHANGED children
          PROVE  Typed'
      <3>1. sessions' \in Seq(Session) /\ Len(sessions') = Len(sessions)
        BY <1>a, <1>c, <2>1, SetPopenTyped
      <3>2. UNCHANGED <<registered, disk, lock>>
        BY <1>2 DEF Respawn
      <3>3. Moves(t) /\ thread'[t] \in ThreadState /\ Fits(t, thread'[t])
        BY <2>1, FinishTyped
      <3> QED
        BY <1>a, <2>1, <3>1, <3>2, <3>3, NothingIsAdded
    <2> QED
      BY <1>1, <1>2, <2>1 DEF Respawn
  <1>3. CASE SpawnSetup(t)
    <2>1. ASSUME SkipTo(t), UNCHANGED children
          PROVE  Typed'
      BY <1>3, <1>a, <1>c, <2>1, SkipTyped, NothingIsAdded DEF SpawnSetup
    <2> QED
      BY <1>1, <1>3, <2>1 DEF SpawnSetup
  <1>4. CASE SpawnProc(t)
    <2>1. ASSUME SkipTo(t), UNCHANGED children
          PROVE  Typed'
      BY <1>4, <1>a, <1>c, <2>1, SkipTyped, NothingIsAdded DEF SpawnProc
    <2> QED
      BY <1>1, <1>4, <2>1 DEF SpawnProc
  <1> QED
    BY <1>2, <1>3, <1>4

(* A session more: the others are as they were, it has no child.            *)
LEMMA MakeTyped ==
    ASSUME Typed, NEW t \in Threads, MakeWorkspace(t), sessions' # sessions
    PROVE  /\ Moves(t) /\ thread'[t] \in ThreadState'
           /\ thread'[t].pc = "register" /\ thread'[t].op = thread[t].op
           /\ thread'[t].session = Len(sessions) + 1
           /\ disk = 0 /\ disk' = Len(sessions) + 1
           /\ UNCHANGED <<registered, children, lock>>
           /\ sessions' \in Seq(Session) /\ Len(sessions') = Len(sessions) + 1
           /\ Len(sessions') <= MaxSessions
           /\ \A s \in 1 .. Len(sessions) : sessions'[s] = sessions[s]
           /\ \A p \in Procs : sessions'[Len(sessions) + 1].popen[p] = 0
           /\ ~sessions'[Len(sessions) + 1].stopped
  <1> DEFINE new == [stopped |-> FALSE, idle |-> FALSE, setup |-> 0,
                     popen |-> [p \in Procs |-> 0]]
  <1>1. /\ disk = 0 /\ Len(sessions) < MaxSessions
        /\ sessions' = Append(sessions, new)
        /\ disk' = Len(sessions) + 1
        /\ thread' = [thread EXCEPT ![t].pc = "register", ![t].session = Len(sessions) + 1]
        /\ UNCHANGED <<registered, children, lock>>
    BY DEF MakeWorkspace
  <1>2. /\ sessions \in Seq(Session) /\ children \in Seq(Child)
        /\ Len(sessions) \in Nat /\ Len(children) \in Nat
    BY DEF Typed, TypeOK
  <1>3. 0 \in ChildNo
    BY <1>2 DEF ChildNo
  <1>4. new \in Session
    BY <1>3 DEF Session
  <1>5. /\ sessions' \in Seq(Session) /\ Len(sessions') = Len(sessions) + 1
        /\ \A s \in 1 .. Len(sessions) : sessions'[s] = sessions[s]
        /\ sessions'[Len(sessions) + 1] = new
    BY <1>1, <1>2, <1>4
  <1>6. SessionNo \subseteq SessionNo' /\ Len(sessions) + 1 \in SessionNo'
        /\ ChildNo' = ChildNo
    BY <1>1, <1>2, <1>5 DEF SessionNo, ChildNo
  <1>7. "register" \in PCs
    BY DEF PCs
  <1>8. /\ Moves(t) /\ thread'[t] \in ThreadState'
        /\ thread'[t].pc = "register" /\ thread'[t].op = thread[t].op
        /\ thread'[t].session = Len(sessions) + 1
    BY <1>1, <1>6, <1>7 DEF Moves, ThreadState, Typed, TypeOK
  <1> QED
    BY <1>1, <1>2, <1>5, <1>8

LEMMA MakeWorkspaceTyped ==
    ASSUME Typed, NEW t \in Threads, MakeWorkspace(t)
    PROVE  Typed'
  <1>a. /\ registered \in SessionNo /\ 0 \in SessionNo /\ disk \in 0 .. Stray
        /\ lock \in Threads \cup {Nobody} /\ Fits(t, thread[t])
        /\ sessions \in Seq(Session) /\ children \in Seq(Child)
        /\ Len(sessions) \in Nat /\ Len(children) \in Nat
    BY DEF Typed, TypeOK, SessionNo, InStep
  <1>1. CASE sessions' = sessions
    <2>1. Release(t) /\ UNCHANGED <<sessions, disk>>
      BY <1>1, <1>a DEF MakeWorkspace, Session
    <2>2. UNCHANGED <<registered, children>>
      BY DEF MakeWorkspace
    <2> QED
      BY <1>a, <2>1, <2>2, FinishTyped, NothingIsAdded DEF Release
  <1>2. CASE sessions' # sessions
    <2>1. /\ Moves(t) /\ thread'[t] \in ThreadState'
          /\ thread'[t].pc = "register" /\ thread'[t].op = thread[t].op
          /\ thread'[t].session = Len(sessions) + 1
          /\ disk' = Len(sessions) + 1
          /\ UNCHANGED <<registered, children, lock>>
          /\ sessions' \in Seq(Session) /\ Len(sessions') = Len(sessions) + 1
          /\ Len(sessions') <= MaxSessions
      BY <1>2, MakeTyped
    <2>2. Fits(t, thread'[t])
      BY <1>a, <2>1 DEF MakeWorkspace, Fits, Restarting, Stopping, Starting, Creating, Holding
    <2>3. Session' = Session /\ SessionNo \subseteq SessionNo'
      BY <1>a, <2>1 DEF Session, ChildNo, SessionNo
    <2>4. disk' \in 0 .. Stray
      BY <1>a, <2>1 DEF Stray
    <2> QED
      BY <1>a, <2>1, <2>2, <2>3, <2>4, OneMoves DEF Moves
  <1> QED
    BY <1>1, <1>2

LEMMA OutsideTyped ==
    ASSUME Typed, (\E c \in DOMAIN children : ChildEnds(c)) \/ GoIdle
    PROVE  Typed'
  <1>a. /\ children \in Seq(Child) /\ Len(children) \in Nat
        /\ sessions \in Seq(Session) /\ Len(sessions) \in Nat
        /\ registered \in SessionNo
    BY DEF Typed, TypeOK
  <1>b. /\ children' \in Seq(Child) /\ Len(children') = Len(children)
        /\ sessions' \in Seq(Session) /\ Len(sessions') = Len(sessions)
        /\ UNCHANGED <<registered, disk, lock, thread>>
    <2>1. CASE GoIdle
      <3>1. registered \in 1 .. Len(sessions)
        BY <1>a, <2>1 DEF GoIdle, SessionNo
      <3> QED
        BY <1>a, <2>1, <3>1, FlagsTyped DEF GoIdle
    <2>2. ASSUME NEW c \in DOMAIN children, ChildEnds(c)
          PROVE  /\ children' \in Seq(Child) /\ Len(children') = Len(children)
                 /\ UNCHANGED <<registered, sessions, disk, lock, thread>>
      <3>1. children[c] \in Child
        BY <1>a
      <3>2. [children[c] EXCEPT !.running = FALSE] \in Child
        BY <3>1 DEF Child
      <3>3. children' = [children EXCEPT ![c] = [children[c] EXCEPT !.running = FALSE]]
        BY <2>2 DEF ChildEnds
      <3> QED
        BY <1>a, <2>2, <3>2, <3>3 DEF ChildEnds
    <2> QED
      BY <1>a, <2>1, <2>2
  <1>1. SessionNo' = SessionNo /\ ChildNo' = ChildNo
    BY <1>b DEF SessionNo, ChildNo
  <1>2. Session' = Session /\ ThreadState' = ThreadState
    BY <1>1 DEF Session, ThreadState
  <1>3. TypeOK'
    BY <1>b, <1>1, <1>2 DEF Typed, TypeOK
  <1>4. InStep'
    BY <1>b DEF Typed, InStep
  <1> QED
    BY <1>3, <1>4 DEF Typed

LEMMA TypedStays == Typed /\ [Next]_vars => Typed'
  <1> SUFFICES ASSUME Typed, [Next]_vars PROVE Typed'
    OBVIOUS
  <1>1. ASSUME NEW t \in Threads, Arrive(t) PROVE Typed'
    BY <1>1, ArrivalTyped
  <1>2. ASSUME NEW t \in Threads, Work(t) PROVE Typed'
    BY <1>2, WorkThreadTyped, WorkOnSessionsTyped, WorkOnChildrenTyped,
       WorkThatSpawnsTyped, MakeWorkspaceTyped DEF Work
  <1>3. CASE (\E c \in DOMAIN children : ChildEnds(c)) \/ GoIdle
    BY <1>3, OutsideTyped
  <1>4. CASE UNCHANGED vars
    <2>1. SessionNo' = SessionNo /\ ChildNo' = ChildNo
      BY <1>4 DEF vars, SessionNo, ChildNo
    <2>2. Session' = Session /\ ThreadState' = ThreadState
      BY <2>1 DEF Session, ThreadState
    <2> QED
      BY <1>4, <2>1, <2>2 DEF vars, Typed, TypeOK, InStep
  <1> QED
    BY <1>1, <1>2, <1>3, <1>4 DEF Next

-----------------------------------------------------------------------------
(* What a step does to the threads, in the terms the invariants below use.  *)

Others(t) == \A u \in Threads \ {t} : thread'[u] = thread[u]

Went(t, pc) == Others(t) /\ SameBut(t, pc)

Ended(t) ==
    /\ Others(t)
    /\ thread'[t].pc = "idle" /\ thread'[t].op = "none" /\ thread'[t].session = 0

Skipped(t) ==
    /\ Others(t)
    /\ thread'[t].pc = "next" /\ thread'[t].op = thread[t].op
    /\ thread'[t].session = thread[t].session /\ thread'[t].proc = thread[t].proc + 1

Began(t, op, pc, s, p) ==
    /\ Others(t) /\ op \in Does[t] /\ thread[t].pc = "idle"
    /\ thread'[t].op = op /\ thread'[t].pc = pc
    /\ thread'[t].session = s /\ thread'[t].proc = p

LEMMA GotoWent ==
    ASSUME Typed, NEW t \in Threads, NEW pc, Goto(t, pc)
    PROVE  Went(t, pc)
  BY DEF Typed, TypeOK, ThreadState, Goto, Went, Others, SameBut

LEMMA FinishEnded ==
    ASSUME Typed, NEW t \in Threads, Finish(t)
    PROVE  Ended(t)
  BY DEF Typed, TypeOK, Finish, Ended, Others, Resting

LEMMA SkipSkipped ==
    ASSUME Typed, NEW t \in Threads, SkipTo(t)
    PROVE  Skipped(t)
  BY DEF Typed, TypeOK, ThreadState, SkipTo, Skipped, Others

LEMMA BeginBegan ==
    ASSUME Typed, NEW t \in Threads, NEW op, NEW pc, NEW s, NEW p, Begin(t, op, pc, s, p)
    PROVE  Began(t, op, pc, s, p)
  BY DEF Typed, TypeOK, Begin, Began, Others, Resting

LEMMA SpawnWent ==
    ASSUME Typed, NEW t \in Threads, NEW pc, Spawned(t, pc)
    PROVE  /\ Others(t)
           /\ thread'[t].pc = pc /\ thread'[t].op = thread[t].op
           /\ thread'[t].session = thread[t].session /\ thread'[t].proc = thread[t].proc
           /\ thread'[t].child = Len(children) + 1
  BY DEF Typed, TypeOK, ThreadState, Spawned, Others

-----------------------------------------------------------------------------
(* One create at a time: what holds the creation lock is the one thread     *)
(* that is past it, and while it takes the old app down and clears the      *)
(* directory no session is registered.                                      *)
OneCreates ==
    \A t \in Threads : thread[t].op = "post" /\ thread[t].pc # "take" =>
        /\ lock = t
        /\ thread[t].pc \in Replacing => registered = 0

LEMMA OneCreatesHolds ==
    ASSUME OneCreates, NEW t \in Threads, Others(t), UNCHANGED <<registered, lock>>,
           thread'[t].op = "post" /\ thread'[t].pc # "take" =>
              /\ thread[t].op = "post" /\ thread[t].pc # "take"
              /\ thread'[t].pc \in Replacing => thread[t].pc \in Replacing
    PROVE  OneCreates'
  BY DEF OneCreates, Others

LEMMA OneCreatesStays ==
    ASSUME Typed, OneCreates, NEW t \in Threads, Arrive(t) \/ Work(t)
    PROVE  OneCreates'
  <1>a. Fits(t, thread[t]) /\ registered \in SessionNo
    BY DEF Typed, TypeOK, InStep
  <1> USE DEF Went, SameBut, Ended, Skipped, Began, Replacing, Stopping
  <1>1. CASE TouchSession(t)
    BY <1>1, <1>a, GotoWent, FinishEnded, OneCreatesHolds DEF TouchSession
  <1>2. CASE WriteFiles(t)
    BY <1>2, <1>a, GotoWent, FinishEnded, OneCreatesHolds DEF WriteFiles
  <1>3. CASE RestartGuard(t)
    BY <1>3, <1>a, GotoWent, FinishEnded, OneCreatesHolds DEF RestartGuard
  <1>4. CASE KillOld(t)
    BY <1>4, <1>a, GotoWent, FinishEnded, OneCreatesHolds DEF KillOld
  <1>5. CASE Respawn(t)
    BY <1>5, <1>a, SpawnWent, FinishEnded, OneCreatesHolds DEF Respawn
  <1>6. CASE Republish(t)
    BY <1>6, <1>a, GotoWent, OneCreatesHolds DEF Republish
  <1>7. CASE Recheck(t)
    BY <1>7, <1>a, FinishEnded, OneCreatesHolds DEF Recheck
  <1>8. CASE Stop(t)
    BY <1>8, <1>a, GotoWent, OneCreatesHolds DEF Stop
  <1>9. CASE KillAll(t)
    BY <1>9, <1>a, GotoWent, OneCreatesHolds DEF KillAll
  <1>10. CASE RemoveWorkspace(t)
    BY <1>10, <1>a, GotoWent, FinishEnded, OneCreatesHolds DEF RemoveWorkspace, AfterDestroy
  <1>11. CASE ClearWorkspace(t)
    BY <1>11, <1>a, GotoWent, OneCreatesHolds DEF ClearWorkspace
  <1>12. CASE BeginStart(t)
    BY <1>12, <1>a, GotoWent, OneCreatesHolds DEF BeginStart
  <1>13. CASE SpawnSetup(t)
    BY <1>13, <1>a, SpawnWent, SkipSkipped, OneCreatesHolds DEF SpawnSetup
  <1>14. CASE PublishSetup(t)
    BY <1>14, <1>a, GotoWent, OneCreatesHolds DEF PublishSetup
  <1>15. CASE CheckSetup(t)
    BY <1>15, <1>a, GotoWent, OneCreatesHolds DEF CheckSetup
  <1>16. CASE AwaitSetup(t)
    BY <1>16, <1>a, GotoWent, SkipSkipped, OneCreatesHolds DEF AwaitSetup
  <1>17. CASE Ready(t)
    BY <1>17, <1>a, GotoWent, SkipSkipped, OneCreatesHolds DEF Ready
  <1>18. CASE SpawnProc(t)
    BY <1>18, <1>a, SpawnWent, SkipSkipped, OneCreatesHolds DEF SpawnProc
  <1>19. CASE Publish(t)
    BY <1>19, <1>a, GotoWent, OneCreatesHolds DEF Publish
  <1>20. CASE Check(t)
    BY <1>20, <1>a, SkipSkipped, OneCreatesHolds DEF Check
  <1>21. CASE Collect(t)
    <2>1. Others(t) /\ thread'[t].pc = "kill" /\ thread'[t].op = thread[t].op
      BY <1>21 DEF Collect, Others, Typed, TypeOK, ThreadState
    <2> QED
      BY <1>21, <2>1, OneCreatesHolds DEF Collect
  <1>22. CASE TakeOver(t)
    <2>1. Others(t) /\ thread'[t].op = thread[t].op /\ registered' = 0 /\ lock' = t
          /\ lock = Nobody
      BY <1>22 DEF TakeOver, Others, Typed, TypeOK, ThreadState
    <2> QED
      BY <2>1 DEF OneCreates, Others
  <1>23. CASE MakeWorkspace(t)
    <2>1. CASE sessions' # sessions
      BY <1>23, <2>1, MakeTyped, OneCreatesHolds DEF MakeWorkspace, Moves, Others, Typed, TypeOK
    <2>2. CASE sessions' = sessions
      <3>1. Finish(t) /\ lock' = Nobody /\ registered' = registered
        BY <1>23, <2>2 DEF MakeWorkspace, Release, Typed, TypeOK, Session
      <3>2. thread[t].op = "post" /\ thread[t].pc # "take"
        BY <1>23, <1>a DEF MakeWorkspace, Fits, Creating
      <3> QED
        BY <3>1, <3>2, FinishEnded DEF OneCreates, Others
    <2> QED
      BY <2>1, <2>2
  <1>24. CASE Register(t)
    <2>1. Others(t) /\ thread'[t].pc = "next" /\ lock' = lock
      BY <1>24 DEF Register, Others, Typed, TypeOK, ThreadState
    <2>2. thread[t].op = "post" /\ thread[t].pc # "take"
      BY <1>24, <1>a DEF Register, Fits, Creating
    <2> QED
      BY <2>1, <2>2 DEF OneCreates, Others
  <1>25. CASE NextProc(t)
    <2>1. CASE Goto(t, "begin") /\ UNCHANGED lock
      BY <1>25, <2>1, GotoWent, OneCreatesHolds DEF NextProc
    <2>2. CASE Release(t)
      <3>1. thread[t].op = "post" /\ thread[t].pc # "take"
        BY <1>25, <1>a DEF NextProc, Fits, Creating
      <3> QED
        BY <1>25, <2>2, <3>1, FinishEnded DEF NextProc, Release, OneCreates, Others
    <2> QED
      BY <1>25, <2>1, <2>2 DEF NextProc
  <1>26. CASE BeginGet(t)
    BY <1>26, BeginBegan, OneCreatesHolds DEF BeginGet
  <1>27. CASE BeginPost(t)
    BY <1>27, BeginBegan, OneCreatesHolds DEF BeginPost
  <1>28. ASSUME NEW p \in Procs \cup {0}, BeginPatch(t, p) PROVE OneCreates'
    BY <1>28, BeginBegan, OneCreatesHolds DEF BeginPatch
  <1>29. CASE BeginDelete(t)
    BY <1>29, BeginBegan DEF BeginDelete, OneCreates, Others
  <1>30. CASE Reap(t)
    BY <1>30, BeginBegan DEF Reap, OneCreates, Others
  <1> QED
    BY <1>1, <1>2, <1>3, <1>4, <1>5, <1>6, <1>7, <1>8, <1>9, <1>10, <1>11, <1>12, <1>13, <1>14, <1>15, <1>16, <1>17, <1>18, <1>19, <1>20, <1>21, <1>22, <1>23, <1>24, <1>25, <1>26, <1>27, <1>28, <1>29, <1>30 DEF Arrive, Work

-----------------------------------------------------------------------------
(* What a step does to the published children: nothing, or it sets that of  *)
(* the process at hand.                                                     *)
Publishing == {"respawn", "republish", "publish"}

PopenStands(t) ==
    \A s \in 1 .. Len(sessions), p \in Procs :
        sessions'[s].popen[p] # sessions[s].popen[p] =>
            s = thread[t].session /\ p = thread[t].proc /\ thread[t].pc \in Publishing

LEMMA PopenSteps ==
    ASSUME Typed, NEW t \in Threads, Arrive(t) \/ Work(t)
    PROVE  PopenStands(t)
  <1>a. /\ Fits(t, thread[t]) /\ registered \in SessionNo
        /\ thread[t].session \in SessionNo /\ thread[t].child \in ChildNo
        /\ 0 \in ChildNo /\ sessions \in Seq(Session)
    BY DEF Typed, TypeOK, InStep, ThreadState, ChildNo
  <1>b. thread[t].session # 0 => thread[t].session \in 1 .. Len(sessions)
    BY <1>a DEF SessionNo
  <1> USE DEF PopenStands, Fits, Restarting, Stopping, Starting, Creating
  <1>1. CASE UNCHANGED sessions
    BY <1>1
  <1>2. CASE TouchSession(t)
    BY <1>2, <1>a, <1>b, FlagsTyped DEF TouchSession
  <1>3. CASE Stop(t)
    BY <1>3, <1>a, <1>b, FlagsTyped DEF Stop
  <1>4. CASE PublishSetup(t)
    BY <1>4, <1>a, <1>b, FlagsTyped DEF PublishSetup
  <1>5. CASE AwaitSetup(t)
    BY <1>5, <1>a, <1>b, FlagsTyped DEF AwaitSetup
  <1>6. CASE MakeWorkspace(t)
    BY <1>6, <1>1, MakeTyped
  <1>7. CASE Respawn(t)
    BY <1>7, <1>1, <1>a, SetPopenTyped DEF Respawn, Publishing
  <1>8. CASE Republish(t)
    BY <1>8, <1>a, SetPopenTyped DEF Republish, Publishing
  <1>9. CASE Publish(t)
    BY <1>9, <1>a, SetPopenTyped DEF Publish, Publishing
  <1> HIDE DEF PopenStands, Fits, Restarting, Stopping, Starting, Creating
  <1>10. CASE Arrive(t)
    BY <1>10, <1>1 DEF Arrive, BeginGet, BeginDelete, Reap, BeginPost, BeginPatch
  <1>11. CASE Work(t)
    BY <1>11, <1>1, <1>2, <1>3, <1>4, <1>5, <1>6, <1>7, <1>8, <1>9
       DEF Work, WriteFiles, RestartGuard, KillOld, Recheck, Collect, KillAll,
           RemoveWorkspace, TakeOver, ClearWorkspace, Register, NextProc, BeginStart,
           SpawnSetup, CheckSetup, Ready, SpawnProc, Check
  <1> QED
    BY <1>10, <1>11

(* A session that is not registered yet is at hand to its maker alone, and  *)
(* has no child.                                                            *)
NewIsItsOwn ==
    \A t \in Threads : thread[t].pc = "register" =>
        /\ \A u \in Threads \ {t} : thread[u].session # thread[t].session
        /\ \A p \in Procs : S(t).popen[p] = 0

LEMMA NewHolds ==
    ASSUME Typed, OneCreates, NewIsItsOwn, NEW t \in Threads, Others(t), PopenStands(t),
           thread'[t].pc # "register",
           thread'[t].session \in {thread[t].session, 0} \/ registered # 0
    PROVE  NewIsItsOwn'
  <1> SUFFICES ASSUME NEW u \in Threads, thread'[u].pc = "register"
               PROVE  /\ \A v \in Threads \ {u} : thread'[v].session # thread'[u].session
                      /\ \A p \in Procs : sessions'[thread'[u].session].popen[p] = 0
    BY DEF NewIsItsOwn, S
  <1>1. u # t /\ thread'[u] = thread[u]
    BY DEF Others
  <1>2. /\ Fits(u, thread[u]) /\ thread[u].pc = "register"
        /\ thread[u].session \in SessionNo
    BY <1>1 DEF Typed, TypeOK, InStep, ThreadState
  <1>3. thread[u].session \in 1 .. Len(sessions) /\ thread[u].op = "post"
    BY <1>2 DEF Fits, SessionNo, Creating
  <1>4. registered = 0
    BY <1>2, <1>3 DEF OneCreates, Replacing
  <1>5. \A v \in Threads \ {u} : thread[v].session # thread[u].session
    BY <1>2 DEF NewIsItsOwn
  <1>6. \A p \in Procs : sessions[thread[u].session].popen[p] = 0
    BY <1>2 DEF NewIsItsOwn, S
  <1>7. \A v \in Threads \ {u} : thread'[v].session # thread'[u].session
    BY <1>1, <1>3, <1>4, <1>5 DEF Others
  <1>8. \A p \in Procs : sessions'[thread[u].session].popen[p] = 0
    BY <1>1, <1>3, <1>5, <1>6 DEF PopenStands
  <1> QED
    BY <1>1, <1>7, <1>8

LEMMA NewIsItsOwnStays ==
    ASSUME Typed, OneCreates, NewIsItsOwn, NEW t \in Threads, Arrive(t) \/ Work(t)
    PROVE  NewIsItsOwn'
  <1>a. PopenStands(t)
    BY PopenSteps
  <1> USE DEF Went, SameBut, Ended, Skipped, Began
  <1>1. CASE TouchSession(t)
    BY <1>1, <1>a, GotoWent, FinishEnded, NewHolds DEF TouchSession
  <1>2. CASE WriteFiles(t)
    BY <1>2, <1>a, GotoWent, FinishEnded, NewHolds DEF WriteFiles
  <1>3. CASE RestartGuard(t)
    BY <1>3, <1>a, GotoWent, FinishEnded, NewHolds DEF RestartGuard
  <1>4. CASE KillOld(t)
    BY <1>4, <1>a, GotoWent, FinishEnded, NewHolds DEF KillOld
  <1>5. CASE Respawn(t)
    BY <1>5, <1>a, SpawnWent, FinishEnded, NewHolds DEF Respawn
  <1>6. CASE Republish(t)
    BY <1>6, <1>a, GotoWent, NewHolds DEF Republish
  <1>7. CASE Recheck(t)
    BY <1>7, <1>a, FinishEnded, NewHolds DEF Recheck
  <1>8. CASE Stop(t)
    BY <1>8, <1>a, GotoWent, NewHolds DEF Stop
  <1>9. CASE KillAll(t)
    BY <1>9, <1>a, GotoWent, NewHolds DEF KillAll
  <1>10. CASE RemoveWorkspace(t)
    BY <1>10, <1>a, GotoWent, FinishEnded, NewHolds DEF RemoveWorkspace, AfterDestroy
  <1>11. CASE ClearWorkspace(t)
    BY <1>11, <1>a, GotoWent, NewHolds DEF ClearWorkspace
  <1>12. CASE BeginStart(t)
    BY <1>12, <1>a, GotoWent, NewHolds DEF BeginStart
  <1>13. CASE SpawnSetup(t)
    BY <1>13, <1>a, SpawnWent, SkipSkipped, NewHolds DEF SpawnSetup
  <1>14. CASE PublishSetup(t)
    BY <1>14, <1>a, GotoWent, NewHolds DEF PublishSetup
  <1>15. CASE CheckSetup(t)
    BY <1>15, <1>a, GotoWent, NewHolds DEF CheckSetup
  <1>16. CASE AwaitSetup(t)
    BY <1>16, <1>a, GotoWent, SkipSkipped, NewHolds DEF AwaitSetup
  <1>17. CASE Ready(t)
    BY <1>17, <1>a, GotoWent, SkipSkipped, NewHolds DEF Ready
  <1>18. CASE SpawnProc(t)
    BY <1>18, <1>a, SpawnWent, SkipSkipped, NewHolds DEF SpawnProc
  <1>19. CASE Publish(t)
    BY <1>19, <1>a, GotoWent, NewHolds DEF Publish
  <1>20. CASE Check(t)
    BY <1>20, <1>a, SkipSkipped, NewHolds DEF Check
  <1>21. CASE Collect(t)
    <2>1. Others(t) /\ thread'[t].pc = "kill" /\ thread'[t].session = thread[t].session
      BY <1>21 DEF Collect, Others, Typed, TypeOK, ThreadState
    <2> QED
      BY <2>1, <1>a, NewHolds
  <1>22. CASE TakeOver(t)
    <2>1. /\ Others(t) /\ thread'[t].session = registered
          /\ thread'[t].pc \in {"stop", "clear"}
      BY <1>22 DEF TakeOver, Others, Typed, TypeOK, ThreadState
    <2> QED
      BY <2>1, <1>a, NewHolds
  <1>23. CASE MakeWorkspace(t)
    <2>1. CASE sessions' # sessions
      <3>1. /\ Others(t) /\ thread'[t].session = Len(sessions) + 1
            /\ \A p \in Procs : sessions'[Len(sessions) + 1].popen[p] = 0
            /\ \A s \in 1 .. Len(sessions) : sessions'[s] = sessions[s]
        BY <1>23, <2>1, MakeTyped DEF Moves, Others, Typed, TypeOK
      <3>2. \A u \in Threads : thread[u].session \in 0 .. Len(sessions)
        BY DEF Typed, TypeOK, ThreadState, SessionNo
      <3>3. \A u \in Threads : thread[u].pc = "register" =>
               thread[u].session # 0 /\ lock = u
        BY DEF Typed, InStep, Fits, OneCreates, Creating
      <3>4. lock = t /\ Len(sessions) \in Nat
        BY <1>23 DEF MakeWorkspace, Typed, TypeOK, InStep, Fits, OneCreates, Creating
      <3> QED
        BY <3>1, <3>2, <3>3, <3>4 DEF NewIsItsOwn, Others, S
    <2>2. CASE sessions' = sessions
      <3>1. Finish(t)
        BY <1>23, <2>2 DEF MakeWorkspace, Release, Typed, TypeOK, Session
      <3> QED
        BY <3>1, <1>a, FinishEnded, NewHolds
    <2> QED
      BY <2>1, <2>2
  <1>24. CASE Register(t)
    <2>1. Others(t) /\ thread'[t].pc = "next" /\ thread'[t].session = thread[t].session
      BY <1>24 DEF Register, Others, Typed, TypeOK, ThreadState
    <2> QED
      BY <2>1, <1>a, NewHolds
  <1>25. CASE NextProc(t)
    BY <1>25, <1>a, GotoWent, FinishEnded, NewHolds DEF NextProc, Release
  <1>26. CASE BeginGet(t)
    BY <1>26, <1>a, BeginBegan, NewHolds DEF BeginGet
  <1>27. CASE BeginPost(t)
    BY <1>27, <1>a, BeginBegan, NewHolds DEF BeginPost
  <1>28. ASSUME NEW p \in Procs \cup {0}, BeginPatch(t, p) PROVE NewIsItsOwn'
    BY <1>28, <1>a, BeginBegan, NewHolds DEF BeginPatch
  <1>29. CASE BeginDelete(t)
    BY <1>29, <1>a, BeginBegan, NewHolds DEF BeginDelete
  <1>30. CASE Reap(t)
    BY <1>30, <1>a, BeginBegan, NewHolds DEF Reap
  <1> QED
    BY <1>1, <1>2, <1>3, <1>4, <1>5, <1>6, <1>7, <1>8, <1>9, <1>10, <1>11, <1>12, <1>13, <1>14, <1>15, <1>16, <1>17, <1>18, <1>19, <1>20, <1>21, <1>22, <1>23, <1>24, <1>25, <1>26, <1>27, <1>28, <1>29, <1>30 DEF Arrive, Work

(* The processes are started in order, and only a started one is restarted: *)
(* what a create has not come to has no child and nobody at work on it.     *)
Underway == Starting \cup {"next", "check"}
Restarted == {"killOld", "respawn", "republish", "recheck"}

Ahead(t, p) == p > thread[t].proc \/ (p = thread[t].proc /\ thread[t].pc # "check")

StartedInOrder ==
    \A t \in Threads : thread[t].pc \in Underway =>
        /\ \A p \in Procs : Ahead(t, p) => S(t).popen[p] = 0
        /\ \A u \in Threads :
              thread[u].session = thread[t].session /\ thread[u].pc \in Restarted
                 => ~Ahead(t, thread[u].proc)

LEMMA OrderHolds ==
    ASSUME Typed, OneCreates, StartedInOrder, NEW t \in Threads,
           Others(t), PopenStands(t),
           thread'[t].pc \in Restarted =>
              /\ thread[t].pc \in Restarted \/ (thread[t].pc = "restart" /\ Popen(t) # 0)
              /\ thread'[t].session = thread[t].session /\ thread'[t].proc = thread[t].proc,
           thread'[t].pc \in Underway =>
              /\ thread[t].pc \in Underway
              /\ thread'[t].session = thread[t].session
              /\ \A p \in Procs : Ahead(t, p)' =>
                    Ahead(t, p) /\ ~(thread[t].pc = "publish" /\ p = thread[t].proc)
    PROVE  StartedInOrder'
  <1> SUFFICES ASSUME NEW v \in Threads, thread'[v].pc \in Underway
               PROVE  /\ \A p \in Procs : Ahead(v, p)' => S(v)'.popen[p] = 0
                      /\ \A u \in Threads :
                            thread'[u].session = thread'[v].session
                               /\ thread'[u].pc \in Restarted
                               => ~Ahead(v, thread[u].proc)'
    BY DEF StartedInOrder, S, Ahead
  <1>1. /\ thread[v].pc \in Underway /\ thread'[v].session = thread[v].session
        /\ \A p \in Procs : Ahead(v, p)' => Ahead(v, p)
    BY DEF Others, Ahead
  <1>2. /\ thread[v].session \in 1 .. Len(sessions) /\ lock = v
        /\ \A u \in Threads : thread[u].pc \in Restarted \cup {"restart"} =>
              thread[u].proc \in Procs /\ thread[u].op = "patch"
        /\ thread[v].op = "post"
    BY <1>1 DEF Typed, TypeOK, ThreadState, SessionNo, InStep, Fits, OneCreates,
                Underway, Starting, Creating, Restarting, Restarted
  <1>3. /\ \A p \in Procs : Ahead(v, p) => S(v).popen[p] = 0
        /\ \A u \in Threads :
              thread[u].session = thread[v].session /\ thread[u].pc \in Restarted
                 => ~Ahead(v, thread[u].proc)
    BY <1>1 DEF StartedInOrder
  <1>4. thread[t].pc = "publish" => t = v
    BY <1>2 DEF Typed, InStep, Fits, Creating, Starting, OneCreates
  <1>5. ASSUME NEW p \in Procs, Ahead(v, p)'
        PROVE  sessions'[thread'[v].session].popen[p] = 0
    <2>1. sessions[thread[v].session].popen[p] = 0
      BY <1>1, <1>3, <1>5 DEF S
    <2>2. CASE t = v
      <3>1. thread[t].pc = "publish" => p # thread[t].proc
        BY <1>5, <2>2
      <3>2. thread[t].pc \notin {"respawn", "republish"}
        BY <1>1, <2>2 DEF Underway, Starting
      <3> QED
        BY <1>1, <1>2, <2>1, <3>1, <3>2 DEF PopenStands, Publishing
    <2>3. CASE t # v
      <3>1. thread[t].pc \in {"respawn", "republish"} /\ thread[t].session = thread[v].session
               => thread[t].proc # p
        BY <1>1, <1>3, <1>5 DEF Restarted
      <3> QED
        BY <1>1, <1>2, <1>4, <2>1, <2>3, <3>1 DEF PopenStands, Publishing
    <2> QED
      BY <2>2, <2>3
  <1>6. ASSUME NEW u \in Threads, thread'[u].session = thread'[v].session,
               thread'[u].pc \in Restarted
        PROVE  ~Ahead(v, thread[u].proc)'
    <2> DEFINE p == thread[u].proc
    <2>1. /\ p \in Procs /\ thread'[u].proc = p /\ thread'[u].session = thread[u].session
          /\ thread[u].pc \in Restarted \/ (thread[u].pc = "restart" /\ Popen(u) # 0)
      BY <1>2, <1>6 DEF Others, Restarted
    <2>2. ~Ahead(v, p)
      BY <1>1, <1>3, <1>6, <2>1 DEF Popen, S
    <2>3. ~(p > thread'[v].proc \/ (p = thread'[v].proc /\ thread'[v].pc # "check"))
      BY <1>1, <2>1, <2>2 DEF Ahead
    <2> QED
      BY <2>1, <2>3 DEF Ahead
  <1> QED
    BY <1>5, <1>6 DEF S

LEMMA StartedInOrderStays ==
    ASSUME Typed, OneCreates, NewIsItsOwn, StartedInOrder, NEW t \in Threads,
           Arrive(t) \/ Work(t)
    PROVE  StartedInOrder'
  <1>a. PopenStands(t) /\ Fits(t, thread[t]) /\ thread[t].proc \in Nat
    BY PopenSteps DEF Typed, TypeOK, InStep, ThreadState
  <1>b. \A p \in Procs : p \in Nat
    BY DEF Procs
  <1> USE DEF Went, SameBut, Ended, Skipped, Began, Ahead, Underway, Starting, Restarted
  <1>1. CASE TouchSession(t)
    BY <1>1, <1>a, <1>b, GotoWent, FinishEnded, OrderHolds DEF TouchSession
  <1>2. CASE WriteFiles(t)
    BY <1>2, <1>a, <1>b, GotoWent, FinishEnded, OrderHolds DEF WriteFiles
  <1>3. CASE RestartGuard(t)
    BY <1>3, <1>a, <1>b, GotoWent, FinishEnded, OrderHolds DEF RestartGuard
  <1>4. CASE KillOld(t)
    BY <1>4, <1>a, <1>b, GotoWent, FinishEnded, OrderHolds DEF KillOld
  <1>5. CASE Respawn(t)
    BY <1>5, <1>a, <1>b, SpawnWent, FinishEnded, OrderHolds DEF Respawn
  <1>6. CASE Republish(t)
    BY <1>6, <1>a, <1>b, GotoWent, OrderHolds DEF Republish
  <1>7. CASE Recheck(t)
    BY <1>7, <1>a, <1>b, FinishEnded, OrderHolds DEF Recheck
  <1>8. CASE Stop(t)
    BY <1>8, <1>a, <1>b, GotoWent, OrderHolds DEF Stop
  <1>9. CASE KillAll(t)
    BY <1>9, <1>a, <1>b, GotoWent, OrderHolds DEF KillAll
  <1>10. CASE RemoveWorkspace(t)
    BY <1>10, <1>a, <1>b, GotoWent, FinishEnded, OrderHolds DEF RemoveWorkspace, AfterDestroy
  <1>11. CASE ClearWorkspace(t)
    BY <1>11, <1>a, <1>b, GotoWent, OrderHolds DEF ClearWorkspace
  <1>12. CASE BeginStart(t)
    BY <1>12, <1>a, <1>b, GotoWent, OrderHolds DEF BeginStart
  <1>13. CASE SpawnSetup(t)
    BY <1>13, <1>a, <1>b, SpawnWent, SkipSkipped, OrderHolds DEF SpawnSetup
  <1>14. CASE PublishSetup(t)
    BY <1>14, <1>a, <1>b, GotoWent, OrderHolds DEF PublishSetup
  <1>15. CASE CheckSetup(t)
    BY <1>15, <1>a, <1>b, GotoWent, OrderHolds DEF CheckSetup
  <1>16. CASE AwaitSetup(t)
    BY <1>16, <1>a, <1>b, GotoWent, SkipSkipped, OrderHolds DEF AwaitSetup
  <1>17. CASE Ready(t)
    BY <1>17, <1>a, <1>b, GotoWent, SkipSkipped, OrderHolds DEF Ready
  <1>18. CASE SpawnProc(t)
    BY <1>18, <1>a, <1>b, SpawnWent, SkipSkipped, OrderHolds DEF SpawnProc
  <1>19. CASE Publish(t)
    BY <1>19, <1>a, <1>b, GotoWent, OrderHolds DEF Publish
  <1>20. CASE Check(t)
    BY <1>20, <1>a, <1>b, SkipSkipped, OrderHolds DEF Check
  <1>21. CASE Collect(t)
    <2>1. Others(t) /\ thread'[t].pc = "kill"
      BY <1>21 DEF Collect, Others, Typed, TypeOK, ThreadState
    <2> QED
      BY <2>1, <1>a, OrderHolds
  <1>22. CASE TakeOver(t)
    <2>1. Others(t) /\ thread'[t].pc \in {"stop", "clear"}
      BY <1>22 DEF TakeOver, Others, Typed, TypeOK, ThreadState
    <2> QED
      BY <2>1, <1>a, OrderHolds
  <1>23. CASE MakeWorkspace(t)
    <2>1. CASE sessions' # sessions
      <3>1. Others(t) /\ thread'[t].pc = "register"
        BY <1>23, <2>1, MakeTyped DEF Moves, Others, Typed, TypeOK
      <3> QED
        BY <3>1, <1>a, OrderHolds
    <2>2. CASE sessions' = sessions
      <3>1. Finish(t)
        BY <1>23, <2>2 DEF MakeWorkspace, Release, Typed, TypeOK, Session
      <3> QED
        BY <3>1, <1>a, FinishEnded, OrderHolds
    <2> QED
      BY <2>1, <2>2
  <1>24. CASE Register(t)
    <2>1. /\ Others(t) /\ thread'[t].pc = "next" /\ thread'[t].session = thread[t].session
          /\ thread'[t].proc = 1 /\ thread[t].pc = "register" /\ UNCHANGED sessions
      BY <1>24 DEF Register, Others, Typed, TypeOK, ThreadState
    <2>2. /\ \A u \in Threads \ {t} : thread[u].session # thread[t].session
          /\ \A p \in Procs : S(t).popen[p] = 0
      BY <2>1 DEF NewIsItsOwn
    <2>3. \A u \in Threads \ {t} : thread[u].pc \notin Underway
      BY <2>1 DEF Typed, InStep, Fits, OneCreates, Creating
    <2> QED
      BY <2>1, <2>2, <2>3 DEF StartedInOrder, Others, S
  <1>25. CASE NextProc(t)
    BY <1>25, <1>a, <1>b, GotoWent, FinishEnded, OrderHolds DEF NextProc, Release
  <1>26. CASE BeginGet(t)
    BY <1>26, <1>a, BeginBegan, OrderHolds DEF BeginGet
  <1>27. CASE BeginPost(t)
    BY <1>27, <1>a, BeginBegan, OrderHolds DEF BeginPost
  <1>28. ASSUME NEW p \in Procs \cup {0}, BeginPatch(t, p) PROVE StartedInOrder'
    BY <1>28, <1>a, BeginBegan, OrderHolds DEF BeginPatch
  <1>29. CASE BeginDelete(t)
    BY <1>29, <1>a, BeginBegan, OrderHolds DEF BeginDelete
  <1>30. CASE Reap(t)
    BY <1>30, <1>a, BeginBegan, OrderHolds DEF Reap
  <1> QED
    BY <1>1, <1>2, <1>3, <1>4, <1>5, <1>6, <1>7, <1>8, <1>9, <1>10, <1>11, <1>12, <1>13, <1>14, <1>15, <1>16, <1>17, <1>18, <1>19, <1>20, <1>21, <1>22, <1>23, <1>24, <1>25, <1>26, <1>27, <1>28, <1>29, <1>30 DEF Arrive, Work

-----------------------------------------------------------------------------
(* What a step does to the sessions there are: none starts again.           *)
StoppedStands ==
    /\ Len(sessions') >= Len(sessions)
    /\ \A s \in 1 .. Len(sessions) : sessions[s].stopped => sessions'[s].stopped

LEMMA StoppedSteps ==
    ASSUME Typed, NEW t \in Threads, Arrive(t) \/ Work(t)
    PROVE  StoppedStands
  <1>a. /\ Fits(t, thread[t]) /\ registered \in SessionNo
        /\ thread[t].session \in SessionNo /\ thread[t].child \in ChildNo
        /\ 0 \in ChildNo /\ sessions \in Seq(Session) /\ Len(sessions) \in Nat
    BY DEF Typed, TypeOK, InStep, ThreadState, ChildNo
  <1>b. thread[t].session # 0 => thread[t].session \in 1 .. Len(sessions)
    BY <1>a DEF SessionNo
  <1> USE DEF StoppedStands, Fits, Restarting, Stopping, Starting, Creating
  <1>1. CASE UNCHANGED sessions
    BY <1>1, <1>a
  <1>2. CASE TouchSession(t)
    BY <1>2, <1>a, <1>b, FlagsTyped DEF TouchSession
  <1>3. CASE Stop(t)
    BY <1>3, <1>a, <1>b, FlagsTyped DEF Stop
  <1>4. CASE PublishSetup(t)
    BY <1>4, <1>a, <1>b, FlagsTyped DEF PublishSetup
  <1>5. CASE AwaitSetup(t)
    BY <1>5, <1>a, <1>b, FlagsTyped DEF AwaitSetup
  <1>6. CASE MakeWorkspace(t)
    BY <1>6, <1>1, <1>a, MakeTyped
  <1>7. CASE Respawn(t)
    BY <1>7, <1>1, <1>a, SetPopenTyped DEF Respawn
  <1>8. CASE Republish(t)
    BY <1>8, <1>a, SetPopenTyped DEF Republish
  <1>9. CASE Publish(t)
    BY <1>9, <1>a, SetPopenTyped DEF Publish
  <1> HIDE DEF StoppedStands, Fits, Restarting, Stopping, Starting, Creating
  <1>10. CASE Arrive(t)
    BY <1>10, <1>1 DEF Arrive, BeginGet, BeginDelete, Reap, BeginPost, BeginPatch
  <1>11. CASE Work(t)
    BY <1>11, <1>1, <1>2, <1>3, <1>4, <1>5, <1>6, <1>7, <1>8, <1>9
       DEF Work, WriteFiles, RestartGuard, KillOld, Recheck, Collect, KillAll,
           RemoveWorkspace, TakeOver, ClearWorkspace, Register, NextProc, BeginStart,
           SpawnSetup, CheckSetup, Ready, SpawnProc, Check
  <1> QED
    BY <1>10, <1>11

(* A session out of the registry is stopped, or about to be: the thread     *)
(* that took it out stops it next.  Or it is not in the registry yet.       *)
AboutTo(s) ==
    \E t \in Threads : thread[t].session = s /\ thread[t].pc \in {"register", "stop"}

PoppedIsStopped ==
    \A s \in 1 .. Len(sessions) :
        registered = s \/ sessions[s].stopped \/ AboutTo(s)

LEMMA PoppedHolds ==
    ASSUME Typed, PoppedIsStopped, NEW t \in Threads, Others(t), StoppedStands,
           Len(sessions') = Len(sessions), UNCHANGED registered,
           thread[t].pc \notin {"register", "stop"}
    PROVE  PoppedIsStopped'
  <1>1. \A s \in 1 .. Len(sessions) : AboutTo(s) => AboutTo(s)'
    BY DEF AboutTo, Others
  <1> QED
    BY <1>1 DEF PoppedIsStopped, StoppedStands

LEMMA PoppedIsStoppedStays ==
    ASSUME Typed, OneCreates, PoppedIsStopped, NEW t \in Threads, Arrive(t) \/ Work(t)
    PROVE  PoppedIsStopped'
  <1>a. /\ StoppedStands /\ Fits(t, thread[t]) /\ thread[t].session \in SessionNo
        /\ thread[t].child \in ChildNo /\ 0 \in ChildNo
        /\ registered \in SessionNo /\ Len(sessions) \in Nat
    BY StoppedSteps DEF Typed, TypeOK, InStep, ThreadState, ChildNo
  <1>b. thread[t].session # 0 => thread[t].session \in 1 .. Len(sessions)
    BY <1>a DEF SessionNo
  <1> USE DEF Went, SameBut, Ended, Skipped, Began
  <1>1. CASE TouchSession(t)
    <2>1. Len(sessions') = Len(sessions)
      BY <1>1, <1>a, <1>b, FlagsTyped DEF TouchSession, Fits, Restarting, Starting
    <2> QED
      BY <1>1, <2>1, <1>a, GotoWent, FinishEnded, PoppedHolds DEF TouchSession
  <1>2. CASE WriteFiles(t)
    BY <1>2, <1>a, GotoWent, FinishEnded, PoppedHolds DEF WriteFiles
  <1>3. CASE RestartGuard(t)
    BY <1>3, <1>a, GotoWent, FinishEnded, PoppedHolds DEF RestartGuard
  <1>4. CASE KillOld(t)
    BY <1>4, <1>a, GotoWent, FinishEnded, PoppedHolds DEF KillOld
  <1>5. CASE Respawn(t)
    <2>1. Len(sessions') = Len(sessions)
      BY <1>5, <1>a, <1>b, SetPopenTyped DEF Respawn, Fits, Restarting, Starting
    <2> QED
      BY <1>5, <2>1, <1>a, SpawnWent, FinishEnded, PoppedHolds DEF Respawn
  <1>6. CASE Republish(t)
    <2>1. Len(sessions') = Len(sessions)
      BY <1>6, <1>a, <1>b, SetPopenTyped DEF Republish, Fits, Restarting, Starting
    <2> QED
      BY <1>6, <2>1, <1>a, GotoWent, PoppedHolds DEF Republish
  <1>7. CASE Recheck(t)
    BY <1>7, <1>a, FinishEnded, PoppedHolds DEF Recheck
  <1>8. CASE KillAll(t)
    BY <1>8, <1>a, GotoWent, PoppedHolds DEF KillAll
  <1>9. CASE RemoveWorkspace(t)
    BY <1>9, <1>a, GotoWent, FinishEnded, PoppedHolds DEF RemoveWorkspace, AfterDestroy
  <1>10. CASE ClearWorkspace(t)
    BY <1>10, <1>a, GotoWent, PoppedHolds DEF ClearWorkspace
  <1>11. CASE BeginStart(t)
    BY <1>11, <1>a, GotoWent, PoppedHolds DEF BeginStart
  <1>12. CASE SpawnSetup(t)
    BY <1>12, <1>a, SpawnWent, SkipSkipped, PoppedHolds DEF SpawnSetup
  <1>13. CASE PublishSetup(t)
    <2>1. Len(sessions') = Len(sessions)
      BY <1>13, <1>a, <1>b, FlagsTyped DEF PublishSetup, Fits, Restarting, Starting
    <2> QED
      BY <1>13, <2>1, <1>a, GotoWent, PoppedHolds DEF PublishSetup
  <1>14. CASE CheckSetup(t)
    BY <1>14, <1>a, GotoWent, PoppedHolds DEF CheckSetup
  <1>15. CASE AwaitSetup(t)
    <2>1. Len(sessions') = Len(sessions)
      BY <1>15, <1>a, <1>b, FlagsTyped DEF AwaitSetup, Fits, Restarting, Starting
    <2> QED
      BY <1>15, <2>1, <1>a, GotoWent, SkipSkipped, PoppedHolds DEF AwaitSetup
  <1>16. CASE Ready(t)
    BY <1>16, <1>a, GotoWent, SkipSkipped, PoppedHolds DEF Ready
  <1>17. CASE SpawnProc(t)
    BY <1>17, <1>a, SpawnWent, SkipSkipped, PoppedHolds DEF SpawnProc
  <1>18. CASE Publish(t)
    <2>1. Len(sessions') = Len(sessions)
      BY <1>18, <1>a, <1>b, SetPopenTyped DEF Publish, Fits, Restarting, Starting
    <2> QED
      BY <1>18, <2>1, <1>a, GotoWent, PoppedHolds DEF Publish
  <1>19. CASE Check(t)
    BY <1>19, <1>a, SkipSkipped, PoppedHolds DEF Check
  <1>20. CASE Stop(t)
    <2>1. /\ Others(t) /\ thread'[t].session = thread[t].session
          /\ thread[t].pc = "stop" /\ UNCHANGED registered
      BY <1>20, GotoWent DEF Stop
    <2>2. thread[t].session \in 1 .. Len(sessions) /\ Len(sessions') = Len(sessions)
          /\ sessions'[thread[t].session].stopped
      BY <1>20, <1>a, <1>b, FlagsTyped DEF Stop, Fits, Stopping, Typed, TypeOK, Session
    <2>3. \A s \in 1 .. Len(sessions) : AboutTo(s) => AboutTo(s)' \/ s = thread[t].session
      BY <2>1 DEF AboutTo, Others
    <2> QED
      BY <1>a, <2>1, <2>2, <2>3 DEF PoppedIsStopped, StoppedStands
  <1>21. CASE Collect(t)
    <2>1. Others(t) /\ UNCHANGED <<registered, sessions>> /\ thread[t].pc = "collect"
      BY <1>21 DEF Collect, Others, Typed, TypeOK, ThreadState
    <2> QED
      BY <2>1, <1>a, PoppedHolds
  <1>22. CASE TakeOver(t)
    <2>1. /\ Others(t) /\ UNCHANGED sessions
          /\ thread[t].pc = "take" /\ thread'[t].session = registered
          /\ registered # 0 => thread'[t].pc = "stop"
      BY <1>22 DEF TakeOver, Others, Typed, TypeOK, ThreadState
    <2>2. \A s \in 1 .. Len(sessions) : AboutTo(s) \/ registered = s => AboutTo(s)'
      BY <2>1 DEF AboutTo, Others
    <2> QED
      BY <2>1, <2>2 DEF PoppedIsStopped
  <1>23. CASE MakeWorkspace(t)
    <2>1. CASE sessions' # sessions
      <3>1. /\ Others(t) /\ thread'[t].pc = "register" /\ UNCHANGED registered
            /\ thread'[t].session = Len(sessions) + 1 /\ thread[t].pc = "make"
            /\ Len(sessions') = Len(sessions) + 1
            /\ \A s \in 1 .. Len(sessions) : sessions'[s] = sessions[s]
        BY <1>23, <2>1, MakeTyped DEF Moves, Others, Typed, TypeOK, MakeWorkspace
      <3>2. \A s \in 1 .. Len(sessions) : AboutTo(s) => AboutTo(s)'
        BY <3>1 DEF AboutTo, Others
      <3>3. \A s : s = Len(sessions) + 1 => AboutTo(s)'
        BY <3>1 DEF AboutTo
      <3>4. \A s \in 1 .. Len(sessions') : s \in 1 .. Len(sessions) \/ s = Len(sessions) + 1
        BY <1>a, <3>1
      <3> QED
        BY <1>a, <3>1, <3>2, <3>3, <3>4 DEF PoppedIsStopped
    <2>2. CASE sessions' = sessions
      <3>1. Finish(t) /\ UNCHANGED registered /\ thread[t].pc = "make"
        BY <1>23, <2>2 DEF MakeWorkspace, Release, Typed, TypeOK, Session
      <3> QED
        BY <3>1, <2>2, <1>a, FinishEnded, PoppedHolds
    <2> QED
      BY <2>1, <2>2
  <1>24. CASE Register(t)
    <2>1. /\ Others(t) /\ registered' = thread[t].session /\ UNCHANGED sessions
          /\ thread[t].pc = "register"
      BY <1>24 DEF Register, Others, Typed, TypeOK, ThreadState
    <2>2. registered = 0
      BY <2>1, <1>a DEF OneCreates, Fits, Creating, Replacing
    <2>3. \A s \in 1 .. Len(sessions) : AboutTo(s) => AboutTo(s)' \/ s = thread[t].session
      BY <2>1 DEF AboutTo, Others
    <2> QED
      BY <2>1, <2>2, <2>3 DEF PoppedIsStopped
  <1>25. CASE NextProc(t)
    BY <1>25, <1>a, GotoWent, FinishEnded, PoppedHolds DEF NextProc, Release
  <1>26. CASE BeginGet(t)
    BY <1>26, <1>a, BeginBegan, PoppedHolds DEF BeginGet
  <1>27. CASE BeginPost(t)
    BY <1>27, <1>a, BeginBegan, PoppedHolds DEF BeginPost
  <1>28. ASSUME NEW p \in Procs \cup {0}, BeginPatch(t, p) PROVE PoppedIsStopped'
    BY <1>28, <1>a, BeginBegan, PoppedHolds DEF BeginPatch
  <1>29. CASE BeginDelete(t) \/ Reap(t)
    <2>1. /\ Others(t) /\ thread[t].pc = "idle" /\ UNCHANGED sessions
          /\ thread'[t].pc = "stop" /\ thread'[t].session = registered
      BY <1>29, BeginBegan DEF BeginDelete, Reap
    <2>2. \A s \in 1 .. Len(sessions) : AboutTo(s) \/ registered = s => AboutTo(s)'
      BY <2>1 DEF AboutTo, Others
    <2> QED
      BY <2>1, <2>2 DEF PoppedIsStopped
  <1> QED
    BY <1>1, <1>2, <1>3, <1>4, <1>5, <1>6, <1>7, <1>8, <1>9, <1>10, <1>11, <1>12, <1>13, <1>14, <1>15, <1>16, <1>17, <1>18, <1>19, <1>20, <1>21, <1>22, <1>23, <1>24, <1>25, <1>26, <1>27, <1>28, <1>29 DEF Arrive, Work

-----------------------------------------------------------------------------
(* What a step does to the children: those there are may end, and a new one *)
(* is at hand to the thread that spawned it.                                *)
Spawning == {"respawn", "setup", "spawn"}

ChildrenStand ==
    \A c \in DOMAIN children :
        /\ c \in DOMAIN children'
        /\ children'[c].session = children[c].session /\ children'[c].proc = children[c].proc
        /\ children'[c].running => children[c].running

NewIsAtHand(t) ==
    \A c \in DOMAIN children' \ DOMAIN children :
        /\ c = Len(children) + 1 /\ thread[t].pc \in Spawning
        /\ thread'[t].pc \in Holding /\ thread'[t].child = c
        /\ thread'[t].session = thread[t].session /\ thread'[t].proc = thread[t].proc
        /\ children'[c].session = thread[t].session /\ children'[c].proc = thread[t].proc
        /\ thread[t].session # 0 /\ UNCHANGED sessions

ChildrenGoOn(t) == ChildrenStand /\ NewIsAtHand(t)

LEMMA SpawnedChild ==
    ASSUME Typed, NEW t \in Threads, NEW pc \in Holding, Spawned(t, pc), UNCHANGED sessions,
           thread[t].pc \in Spawning, thread[t].session # 0, thread[t].proc \in Procs
    PROVE  ChildrenGoOn(t)
  <1>1. pc \in PCs
    BY DEF Holding, PCs
  <1>2. /\ thread'[t].pc = pc /\ thread'[t].child = Len(children) + 1
        /\ thread'[t].session = thread[t].session /\ thread'[t].proc = thread[t].proc
        /\ \A c \in DOMAIN children : children'[c] = children[c]
        /\ DOMAIN children' = DOMAIN children \cup {Len(children) + 1}
        /\ children'[Len(children) + 1] = [session |-> thread[t].session,
                                          proc |-> thread[t].proc, running |-> TRUE]
    BY <1>1, SpawnTyped
  <1>3. ChildrenStand
    BY <1>2 DEF ChildrenStand
  <1>4. \A c \in DOMAIN children' \ DOMAIN children : c = Len(children) + 1
    BY <1>2
  <1>5. /\ children'[Len(children) + 1].session = thread[t].session
        /\ children'[Len(children) + 1].proc = thread[t].proc
    BY <1>2
  <1>6. NewIsAtHand(t)
    BY <1>2, <1>4, <1>5 DEF NewIsAtHand
  <1> QED
    BY <1>3, <1>6 DEF ChildrenGoOn

LEMMA ChildrenSteps ==
    ASSUME Typed, NEW t \in Threads, Arrive(t) \/ Work(t)
    PROVE  ChildrenGoOn(t)
  <1>a. Fits(t, thread[t])
    BY DEF Typed, InStep
  <1>1. CASE UNCHANGED children
    BY <1>1 DEF ChildrenGoOn, ChildrenStand, NewIsAtHand
  <1>2. ASSUME NEW cs, Kill(cs)
        PROVE  ChildrenGoOn(t)
    BY <1>2, KillTyped DEF ChildrenGoOn, ChildrenStand, NewIsAtHand
  <1>3. CASE Respawn(t)
    <2>1. thread[t].session # 0 /\ thread[t].proc \in Procs
          /\ thread[t].pc \in Spawning /\ "republish" \in Holding
      BY <1>3, <1>a DEF Respawn, Fits, Restarting, Spawning, Holding
    <2> QED
      BY <1>3, <1>1, <2>1, SpawnedChild DEF Respawn
  <1>4. CASE SpawnSetup(t)
    <2>1. thread[t].session # 0 /\ thread[t].proc \in Procs
          /\ thread[t].pc \in Spawning /\ "publishSetup" \in Holding
      BY <1>4, <1>a DEF SpawnSetup, Fits, Starting, Spawning, Holding
    <2> QED
      BY <1>4, <1>1, <2>1, SpawnedChild DEF SpawnSetup
  <1>5. CASE SpawnProc(t)
    <2>1. thread[t].session # 0 /\ thread[t].proc \in Procs
          /\ thread[t].pc \in Spawning /\ "publish" \in Holding
      BY <1>5, <1>a DEF SpawnProc, Fits, Starting, Spawning, Holding
    <2> QED
      BY <1>5, <1>1, <2>1, SpawnedChild DEF SpawnProc
  <1>6. CASE Arrive(t)
    BY <1>6, <1>1 DEF Arrive, BeginGet, BeginDelete, Reap, BeginPost, BeginPatch
  <1>7. CASE Work(t)
    BY <1>7, <1>1, <1>2, <1>3, <1>4, <1>5
       DEF Work, TouchSession, WriteFiles, RestartGuard, KillOld, Republish, Recheck, Stop,
           Collect, KillAll, RemoveWorkspace, TakeOver, ClearWorkspace, MakeWorkspace,
           Register, NextProc, BeginStart, PublishSetup, CheckSetup, AwaitSetup, Ready,
           Publish, Check
  <1> QED
    BY <1>6, <1>7

(* Restarts of one process do not meet when at most one thread patches: the *)
(* child a restart replaces is not running.  What two do is a hazard of its *)
(* own.                                                                     *)
OnePatches == \A t, u \in Threads : "patch" \in Does[t] /\ "patch" \in Does[u] => t = u

OldIsKilled ==
    \A t \in Threads : thread[t].pc \in {"respawn", "republish"} => ~Running(Popen(t))

LEMMA OldIsKilledStays ==
    ASSUME OnePatches, Typed, OneCreates, StartedInOrder, OldIsKilled,
           NEW t \in Threads, Arrive(t) \/ Work(t), Others(t)
    PROVE  OldIsKilled'
  <1> SUFFICES ASSUME NEW u \in Threads, thread'[u].pc \in {"respawn", "republish"}
               PROVE  ~Running(Popen(u))'
    BY DEF OldIsKilled
  <1>a. PopenStands(t) /\ ChildrenGoOn(t)
    BY PopenSteps, ChildrenSteps
  <1>b. ASSUME NEW s \in 1 .. Len(sessions), NEW p \in Procs
        PROVE  sessions[s].popen[p] \in 0 .. Len(children)
    <2>1. sessions[s] \in Session
      BY DEF Typed, TypeOK
    <2> QED
      BY <2>1 DEF Session, ChildNo
  <1>c. DOMAIN children = 1 .. Len(children)
    BY DEF Typed, TypeOK
  <1>1. ASSUME thread[u].pc \in {"respawn", "republish"},
               thread'[u].session = thread[u].session, thread'[u].proc = thread[u].proc,
               Popen(u)' = Popen(u)
        PROVE  ~Running(Popen(u))'
    <2>1. thread[u].session \in 1 .. Len(sessions) /\ thread[u].proc \in Procs
      BY <1>1 DEF Typed, TypeOK, InStep, Fits, Restarting, ThreadState, SessionNo
    <2>2. Popen(u) \in 0 .. Len(children) /\ ~Running(Popen(u))
      BY <1>1, <1>b, <2>1 DEF Popen, S, OldIsKilled
    <2> QED
      BY <1>1, <1>a, <1>c, <2>2 DEF Running, ChildrenGoOn, ChildrenStand
  <1>2. CASE u # t
    <2>1. thread'[u] = thread[u]
      BY <1>2 DEF Others
    <2>2. /\ thread[u].session \in 1 .. Len(sessions) /\ thread[u].proc \in Procs
          /\ thread[u].op = "patch" /\ "patch" \in Does[u]
      BY <2>1 DEF Typed, TypeOK, InStep, Fits, Restarting, ThreadState, SessionNo
    <2>3. thread[t].pc \notin {"respawn", "republish"}
      BY <1>2, <2>2 DEF OnePatches, Typed, InStep, Fits, Restarting
    <2>4. thread[t].pc = "publish" /\ thread[t].session = thread[u].session
             => thread[t].proc # thread[u].proc
      BY <2>1, <2>2 DEF StartedInOrder, Underway, Starting, Restarted, Ahead
    <2>5. sessions'[thread[u].session].popen[thread[u].proc]
             = sessions[thread[u].session].popen[thread[u].proc]
      BY <1>a, <2>2, <2>3, <2>4 DEF PopenStands, Publishing
    <2> QED
      BY <1>1, <2>1, <2>5 DEF Popen, S
  <1>3. CASE u = t /\ KillOld(t)
    <2>1. /\ Kill({Popen(t)}) /\ UNCHANGED sessions
          /\ thread'[t].session = thread[t].session /\ thread'[t].proc = thread[t].proc
      BY <1>3, GotoWent, FinishEnded DEF KillOld, Went, SameBut, Ended
    <2>2. thread[t].session \in 1 .. Len(sessions) /\ thread[t].proc \in Procs
      BY <1>3 DEF KillOld, Typed, TypeOK, InStep, Fits, Restarting, ThreadState, SessionNo
    <2>3. Popen(t) \in 0 .. Len(children) /\ Popen(t)' = Popen(t)
      BY <1>b, <2>1, <2>2 DEF Popen, S
    <2>4. \A c \in DOMAIN children : children'[c].running => c \notin {Popen(t)}
      BY <2>1, KillTyped
    <2>5. Popen(t) # 0 => Popen(t) \in DOMAIN children
      BY <1>c, <2>3
    <2>6. Popen(t) # 0 => ~children'[Popen(t)].running
      BY <2>4, <2>5
    <2> QED
      BY <1>3, <2>3, <2>6 DEF Running
  <1>4. CASE u = t /\ Respawn(t)
    <2>1. Spawned(t, "republish") /\ UNCHANGED sessions
      BY <1>4, FinishEnded DEF Respawn, Ended
    <2>2. /\ thread[t].pc = "respawn"
          /\ thread'[t].session = thread[t].session /\ thread'[t].proc = thread[t].proc
      BY <1>4, <2>1, SpawnWent DEF Respawn
    <2> QED
      BY <1>1, <1>4, <2>1, <2>2 DEF Popen, S
  <1>5. u = t => KillOld(t) \/ Respawn(t)
    <2> SUFFICES ASSUME thread'[t].pc \in {"respawn", "republish"}
                 PROVE  KillOld(t) \/ Respawn(t)
      OBVIOUS
    <2>1. CASE Arrive(t)
      BY <2>1, BeginBegan DEF Arrive, BeginGet, BeginDelete, Reap, BeginPost, BeginPatch, Began
    <2>2. CASE Work(t)
      <3>1. ASSUME Collect(t) \/ TakeOver(t) \/ Register(t)
            PROVE  thread'[t].pc \in {"kill", "stop", "clear", "next"}
        BY <3>1 DEF Collect, TakeOver, Register, Typed, TypeOK, ThreadState
      <3>2. ASSUME MakeWorkspace(t)
            PROVE  thread'[t].pc \in {"register", "idle"}
        BY <3>2, FinishEnded DEF MakeWorkspace, Release, Ended, Typed, TypeOK, ThreadState
      <3> QED
        BY <2>2, <3>1, <3>2, GotoWent, FinishEnded, SkipSkipped, SpawnWent
           DEF Work, TouchSession, WriteFiles, RestartGuard, Republish, Recheck, Stop,
               KillAll, RemoveWorkspace, AfterDestroy, ClearWorkspace, NextProc, Release,
               BeginStart, SpawnSetup, PublishSetup, CheckSetup, AwaitSetup, Ready,
               SpawnProc, Publish, Check, Went, SameBut, Ended, Skipped
    <2> QED
      BY <2>1, <2>2
  <1> QED
    BY <1>2, <1>3, <1>4, <1>5

(* Every child that runs is published, or at hand to the thread that        *)
(* spawned it.                                                              *)
Published(c) == sessions[children[c].session].popen[children[c].proc] = c

AtHand(c) ==
    \E t \in Threads :
        /\ thread[t].pc \in Holding /\ thread[t].child = c
        /\ thread[t].session = children[c].session /\ thread[t].proc = children[c].proc

ChildrenOf == \A c \in DOMAIN children : children[c].session \in 1 .. Len(sessions)

Known == ChildrenOf /\ \A c \in DOMAIN children : Running(c) => Published(c) \/ AtHand(c)

LEMMA ChildrenOfStays ==
    ASSUME Typed, ChildrenOf, NEW t \in Threads, ChildrenGoOn(t), StoppedStands
    PROVE  ChildrenOf'
  <1>1. (Len(sessions) \in Nat /\ Len(sessions') \in Nat) \/ UNCHANGED sessions
    BY DEF Typed, TypeOK
  <1> QED
    BY <1>1 DEF ChildrenOf, ChildrenGoOn, ChildrenStand, NewIsAtHand, StoppedStands,
                Typed, TypeOK, ThreadState, SessionNo

(* What a thread that holds a child does with it next: publishes it, or     *)
(* keeps it.                                                                *)
LEMMA HoldingSteps ==
    ASSUME Typed, NEW t \in Threads, Arrive(t) \/ Work(t), thread[t].pc \in Holding
    PROVE  \/ SetPopen(t, thread[t].child)
           \/ thread[t].pc = "awaitSetup" /\ ~Running(thread[t].child) /\ UNCHANGED children
           \/ /\ thread'[t].pc \in Holding /\ thread'[t].child = thread[t].child
              /\ thread'[t].session = thread[t].session /\ thread'[t].proc = thread[t].proc
  <1>1. CASE Arrive(t)
    BY <1>1, BeginBegan
       DEF Arrive, BeginGet, BeginDelete, Reap, BeginPost, BeginPatch, Began, Holding
  <1>2. CASE Publish(t) \/ Republish(t)
    BY <1>2 DEF Publish, Republish
  <1>3. CASE AwaitSetup(t)
    BY <1>3 DEF AwaitSetup
  <1>4. CASE PublishSetup(t) \/ CheckSetup(t)
    BY <1>4, GotoWent DEF PublishSetup, CheckSetup, Went, SameBut, Holding
  <1>5. CASE Work(t)
    BY <1>2, <1>3, <1>4, <1>5
       DEF Work, TouchSession, WriteFiles, RestartGuard, KillOld, Respawn, Recheck, Stop,
           Collect, KillAll, RemoveWorkspace, TakeOver, ClearWorkspace, MakeWorkspace,
           Register, NextProc, BeginStart, SpawnSetup, Ready, SpawnProc, Check, Holding
  <1> QED
    BY <1>1, <1>5

LEMMA KnownStays ==
    ASSUME Typed, StartedInOrder, OldIsKilled, Known,
           NEW t \in Threads, Arrive(t) \/ Work(t), Others(t)
    PROVE  Known'
  <1>a. PopenStands(t) /\ ChildrenGoOn(t) /\ StoppedStands
    BY PopenSteps, ChildrenSteps, StoppedSteps
  <1>b. ChildrenOf /\ ChildrenOf'
    BY <1>a, ChildrenOfStays DEF Known
  <1>c. DOMAIN children = 1 .. Len(children)
    BY DEF Typed, TypeOK
  <1>d. ASSUME NEW c \in DOMAIN children
        PROVE  /\ children[c].session \in 1 .. Len(sessions) /\ children[c].proc \in Procs
               /\ c # 0
    <2>1. children[c] \in Child
      BY DEF Typed, TypeOK
    <2> QED
      BY <1>b, <1>c, <2>1 DEF ChildrenOf, Child
  <1> SUFFICES ASSUME NEW c \in DOMAIN children', Running(c)'
               PROVE  Published(c)' \/ AtHand(c)'
    BY <1>b DEF Known
  <1>1. CASE c \notin DOMAIN children
    BY <1>1, <1>a DEF ChildrenGoOn, NewIsAtHand, AtHand
  <1>2. CASE c \in DOMAIN children
    <2>1. /\ children'[c].session = children[c].session /\ children'[c].proc = children[c].proc
          /\ Running(c)
      BY <1>2, <1>a DEF ChildrenGoOn, ChildrenStand, Running
    <2>2. CASE Published(c)
      <3>1. CASE sessions'[children[c].session].popen[children[c].proc] = c
        BY <2>1, <3>1 DEF Published
      <3>2. CASE sessions'[children[c].session].popen[children[c].proc] # c
        <4>1. /\ children[c].session = thread[t].session /\ children[c].proc = thread[t].proc
              /\ thread[t].pc \in Publishing
          BY <1>2, <1>a, <1>d, <2>2, <3>2 DEF PopenStands, Published
        <4>2. Popen(t) = c
          BY <2>2, <4>1 DEF Published, Popen, S
        <4>3. thread[t].pc # "publish"
          BY <1>2, <1>d, <4>1, <4>2
             DEF StartedInOrder, Underway, Starting, Ahead, Popen, S
        <4> QED
          BY <2>1, <4>1, <4>2, <4>3 DEF Publishing, OldIsKilled
      <3> QED
        BY <3>1, <3>2
    <2>3. ASSUME NEW u \in Threads, thread[u].pc \in Holding, thread[u].child = c,
                 thread[u].session = children[c].session, thread[u].proc = children[c].proc
          PROVE  Published(c)' \/ AtHand(c)'
      <3>1. CASE u # t
        BY <2>1, <2>3, <3>1 DEF Others, AtHand
      <3>2. CASE u = t
        <4>1. CASE SetPopen(t, thread[t].child)
          <5>1. thread[t].child \in ChildNo
            BY DEF Typed, TypeOK, ThreadState
          <5>2. thread[t].session # 0
            BY <1>2, <1>d, <2>3, <3>2
          <5>3. sessions'[children[c].session].popen[children[c].proc] = c
            BY <1>2, <1>d, <2>3, <3>2, <4>1, <5>1, <5>2, SetPopenTyped
          <5> QED
            BY <2>1, <5>3 DEF Published
        <4>2. CASE thread[t].pc = "awaitSetup" /\ ~Running(thread[t].child) /\ UNCHANGED children
          BY <2>1, <2>3, <3>2, <4>2
        <4>3. CASE /\ thread'[t].pc \in Holding /\ thread'[t].child = thread[t].child
                   /\ thread'[t].session = thread[t].session
                   /\ thread'[t].proc = thread[t].proc
          BY <2>1, <2>3, <3>2, <4>3 DEF AtHand
        <4> QED
          BY <2>3, <3>2, <4>1, <4>2, <4>3, HoldingSteps
      <3> QED
        BY <3>1, <3>2
    <2> QED
      BY <1>2, <2>1, <2>2, <2>3 DEF Known, AtHand
  <1> QED
    BY <1>1, <1>2

(* A published child that runs is one that the registry leads to, or that a *)
(* thread is about to end.                                                  *)
WillBeEnded(c) ==
    \E t \in Threads :
        /\ thread[t].session = children[c].session
        /\ \/ thread[t].pc \in {"stop", "collect"}
           \/ thread[t].pc = "kill" /\ c \in thread[t].targets
           \/ /\ thread[t].pc \in {"check", "recheck"}
              /\ thread[t].proc = children[c].proc
              /\ sessions[children[c].session].stopped

Awaited ==
    \A c \in DOMAIN children : Running(c) /\ Published(c) =>
        registered = children[c].session \/ WillBeEnded(c)

(* What a thread that is to end a child does next.                          *)
LEMMA EndingSteps ==
    ASSUME Typed, NEW t \in Threads, Arrive(t) \/ Work(t),
           thread[t].pc \in {"stop", "collect", "kill", "check", "recheck"}
    PROVE  \/ thread[t].pc = "stop" /\ Went(t, "collect")
           \/ /\ thread[t].pc = "collect" /\ thread'[t].pc = "kill"
              /\ thread'[t].session = thread[t].session
              /\ thread'[t].targets = ({S(t).popen[p] : p \in Procs} \cup {S(t).setup}) \ {0}
           \/ thread[t].pc = "kill" /\ Kill(thread[t].targets)
           \/ /\ thread[t].pc \in {"check", "recheck"}
              /\ S(t).stopped => Kill({Popen(t)})
  <1>1. CASE Arrive(t)
    BY <1>1, BeginBegan
       DEF Arrive, BeginGet, BeginDelete, Reap, BeginPost, BeginPatch, Began
  <1>2. CASE Stop(t)
    BY <1>2, GotoWent DEF Stop
  <1>3. CASE Collect(t)
    BY <1>3 DEF Collect, Typed, TypeOK, ThreadState
  <1>4. CASE KillAll(t)
    BY <1>4 DEF KillAll
  <1>5. CASE Check(t) \/ Recheck(t)
    BY <1>5 DEF Check, Recheck
  <1>6. CASE Work(t)
    BY <1>2, <1>3, <1>4, <1>5, <1>6
       DEF Work, TouchSession, WriteFiles, RestartGuard, KillOld, Respawn, Republish,
           RemoveWorkspace, TakeOver, ClearWorkspace, MakeWorkspace, Register, NextProc,
           BeginStart, SpawnSetup, PublishSetup, CheckSetup, AwaitSetup, Ready, SpawnProc,
           Publish
  <1> QED
    BY <1>1, <1>6

(* The registry changes at three points.                                    *)
LEMMA RegistrySteps ==
    ASSUME Typed, OneCreates, NEW t \in Threads, Arrive(t) \/ Work(t)
    PROVE  \/ UNCHANGED registered
           \/ registered = 0
           \/ thread'[t].pc = "stop" /\ thread'[t].session = registered
  <1>1. CASE UNCHANGED registered
    BY <1>1
  <1>2. CASE Arrive(t)
    BY <1>2, <1>1, BeginBegan
       DEF Arrive, BeginGet, BeginDelete, Reap, BeginPost, BeginPatch, Began
  <1>3. CASE TakeOver(t)
    BY <1>3 DEF TakeOver, Typed, TypeOK, ThreadState
  <1>4. CASE Register(t)
    BY <1>4 DEF Register, OneCreates, Replacing, Typed, InStep, Fits, Creating
  <1>5. CASE Work(t)
    BY <1>1, <1>3, <1>4, <1>5
       DEF Work, TouchSession, WriteFiles, RestartGuard, KillOld, Respawn, Republish,
           Recheck, Stop, Collect, KillAll, RemoveWorkspace, ClearWorkspace, MakeWorkspace,
           NextProc, BeginStart, SpawnSetup, PublishSetup, CheckSetup, AwaitSetup, Ready,
           SpawnProc, Publish, Check
  <1> QED
    BY <1>2, <1>5

(* Who publishes a child goes on to see whether its session was stopped.    *)
LEMMA PublishingSteps ==
    ASSUME Typed, NEW t \in Threads, Arrive(t) \/ Work(t), thread[t].pc \in Publishing,
           NEW c \in DOMAIN children,
           sessions'[thread[t].session].popen[thread[t].proc] = c,
           sessions[thread[t].session].popen[thread[t].proc] # c
    PROVE  /\ thread'[t].pc \in {"check", "recheck"}
           /\ thread'[t].session = thread[t].session /\ thread'[t].proc = thread[t].proc
  <1>1. c # 0
    BY DEF Typed, TypeOK
  <1>2. CASE Arrive(t)
    BY <1>2, BeginBegan
       DEF Arrive, BeginGet, BeginDelete, Reap, BeginPost, BeginPatch, Began, Publishing
  <1>3. CASE Publish(t) \/ Republish(t)
    BY <1>3, GotoWent DEF Publish, Republish, Went, SameBut
  <1>4. CASE Respawn(t)
    <2>1. CASE UNCHANGED sessions
      BY <2>1
    <2>2. CASE SetPopen(t, 0)
      <3>1. thread[t].session # 0 /\ thread[t].proc \in Procs /\ 0 \in ChildNo
        BY <1>4 DEF Respawn, Typed, TypeOK, InStep, Fits, Restarting, ChildNo
      <3>2. thread[t].session \in 1 .. Len(sessions)
        BY <3>1 DEF Typed, TypeOK, ThreadState, SessionNo
      <3>3. sessions'[thread[t].session].popen[thread[t].proc] = 0
        BY <2>2, <3>1, <3>2, SetPopenTyped
      <3> QED
        BY <1>1, <3>3
    <2> QED
      BY <1>4, <2>1, <2>2 DEF Respawn
  <1>5. CASE Work(t)
    BY <1>3, <1>4, <1>5
       DEF Work, TouchSession, WriteFiles, RestartGuard, KillOld, Recheck, Stop, Collect,
           KillAll, RemoveWorkspace, TakeOver, ClearWorkspace, MakeWorkspace, Register,
           NextProc, BeginStart, SpawnSetup, PublishSetup, CheckSetup, AwaitSetup, Ready,
           SpawnProc, Check, Publishing
  <1> QED
    BY <1>2, <1>5

LEMMA AwaitedStays ==
    ASSUME Typed, OneCreates, NewIsItsOwn, PoppedIsStopped, Known, Awaited,
           NEW t \in Threads, Arrive(t) \/ Work(t), Others(t)
    PROVE  Awaited'
  <1>a. PopenStands(t) /\ ChildrenGoOn(t) /\ StoppedStands
    BY PopenSteps, ChildrenSteps, StoppedSteps
  <1>c. DOMAIN children = 1 .. Len(children) /\ Len(children) \in Nat
    BY DEF Typed, TypeOK
  <1>d. ASSUME NEW c \in DOMAIN children
        PROVE  /\ children[c].session \in 1 .. Len(sessions) /\ children[c].proc \in Procs
               /\ c # 0
    <2>1. children[c] \in Child
      BY DEF Typed, TypeOK
    <2> QED
      BY <1>c, <2>1 DEF Known, ChildrenOf, Child
  <1>e. ASSUME NEW s \in 1 .. Len(sessions), NEW p \in Procs
        PROVE  sessions[s].popen[p] \in 0 .. Len(children)
    <2>1. sessions[s] \in Session
      BY DEF Typed, TypeOK
    <2> QED
      BY <2>1 DEF Session, ChildNo
  <1> SUFFICES ASSUME NEW c \in DOMAIN children', Running(c)', Published(c)'
               PROVE  (registered = children[c].session \/ WillBeEnded(c))'
    BY DEF Awaited
  <1>1. c \in DOMAIN children
    <2> SUFFICES ASSUME c \notin DOMAIN children PROVE FALSE
      OBVIOUS
    <2>1. /\ c = Len(children) + 1 /\ UNCHANGED sessions
          /\ children'[c].session = thread[t].session
          /\ children'[c].proc = thread[t].proc /\ thread[t].session # 0
          /\ thread[t].pc \in Spawning
      BY <1>a DEF ChildrenGoOn, NewIsAtHand
    <2>2. thread[t].session \in 1 .. Len(sessions) /\ thread[t].proc \in Procs
      BY <2>1 DEF Spawning, Typed, TypeOK, InStep, Fits, Restarting, Starting,
                  ThreadState, SessionNo
    <2>3. sessions[thread[t].session].popen[thread[t].proc] = c
      BY <2>1 DEF Published
    <2> QED
      BY <1>c, <1>e, <2>1, <2>2, <2>3
  <1>2. /\ children'[c].session = children[c].session /\ children'[c].proc = children[c].proc
        /\ Running(c)
    BY <1>1, <1>a DEF ChildrenGoOn, ChildrenStand, Running
  <1> DEFINE s == children[c].session
  <1>3. s \in 1 .. Len(sessions) /\ children[c].proc \in Procs /\ c # 0
    BY <1>1, <1>d
  <1>4. CASE Published(c)
    <2>1. CASE registered = s
      <3>1. registered # 0
        BY <1>3, <2>1
      <3>2. CASE UNCHANGED registered
        BY <1>2, <2>1, <3>2
      <3>3. CASE thread'[t].pc = "stop" /\ thread'[t].session = registered
        BY <1>2, <2>1, <3>3 DEF WillBeEnded
      <3> QED
        BY <3>1, <3>2, <3>3, RegistrySteps
    <2>2. ASSUME NEW u \in Threads, thread[u].session = s,
                 \/ thread[u].pc \in {"stop", "collect"}
                 \/ thread[u].pc = "kill" /\ c \in thread[u].targets
                 \/ /\ thread[u].pc \in {"check", "recheck"}
                    /\ thread[u].proc = children[c].proc
                    /\ sessions[s].stopped
          PROVE  WillBeEnded(c)'
      <3>1. CASE u # t
        <4>1. thread'[u] = thread[u] /\ (sessions[s].stopped => sessions'[s].stopped)
          BY <1>3, <1>a, <3>1 DEF Others, StoppedStands
        <4> QED
          BY <1>2, <2>2, <4>1 DEF WillBeEnded
      <3>2. CASE u = t
        <4>1. CASE thread[t].pc = "stop" /\ Went(t, "collect")
          BY <1>2, <2>2, <3>2, <4>1 DEF WillBeEnded, Went, SameBut
        <4>2. CASE /\ thread[t].pc = "collect" /\ thread'[t].pc = "kill"
                   /\ thread'[t].session = thread[t].session
                   /\ thread'[t].targets
                         = ({S(t).popen[p] : p \in Procs} \cup {S(t).setup}) \ {0}
          <5>1. c \in thread'[t].targets
            BY <1>3, <1>4, <2>2, <3>2, <4>2 DEF Published, S
          <5> QED
            BY <1>2, <2>2, <3>2, <4>2, <5>1 DEF WillBeEnded
        <4>3. CASE thread[t].pc = "kill" /\ Kill(thread[t].targets)
          <5>1. c \in thread[t].targets
            BY <2>2, <3>2, <4>3
          <5>2. ~children'[c].running
            BY <1>1, <4>3, <5>1, KillTyped
          <5> QED
            BY <5>2 DEF Running
        <4>4. CASE thread[t].pc \in {"check", "recheck"} /\ (S(t).stopped => Kill({Popen(t)}))
          <5>1. Popen(t) = c /\ Kill({Popen(t)})
            BY <1>4, <2>2, <3>2, <4>4 DEF Published, Popen, S
          <5>2. ~children'[c].running
            BY <1>1, <5>1, KillTyped
          <5> QED
            BY <5>2 DEF Running
        <4> QED
          BY <2>2, <3>2, <4>1, <4>2, <4>3, <4>4, EndingSteps
      <3> QED
        BY <3>1, <3>2
    <2> QED
      BY <1>1, <1>2, <1>4, <2>1, <2>2 DEF Awaited, WillBeEnded
  <1>5. CASE ~Published(c)
    <2>1. /\ s = thread[t].session /\ children[c].proc = thread[t].proc
          /\ thread[t].pc \in Publishing
          /\ sessions'[s].popen[thread[t].proc] = c
          /\ sessions[s].popen[thread[t].proc] # c
      BY <1>2, <1>3, <1>5, <1>a DEF PopenStands, Published
    <2>2. /\ thread'[t].pc \in {"check", "recheck"}
          /\ thread'[t].session = thread[t].session /\ thread'[t].proc = thread[t].proc
      BY <1>1, <2>1, PublishingSteps
    <2>3. CASE registered = s
      BY <1>2, <1>3, <2>2, <2>3, RegistrySteps
    <2>4. CASE sessions[s].stopped
      <3>1. sessions'[s].stopped
        BY <1>3, <1>a, <2>4 DEF StoppedStands
      <3> QED
        BY <1>2, <2>1, <2>2, <3>1 DEF WillBeEnded
    <2>5. ASSUME NEW u \in Threads, thread[u].session = s, thread[u].pc \in {"register", "stop"}
          PROVE  WillBeEnded(c)'
      <3>1. u # t
        BY <2>1, <2>5 DEF Publishing
      <3>2. thread[u].pc = "stop"
        BY <2>1, <2>5, <3>1 DEF NewIsItsOwn
      <3> QED
        BY <1>2, <2>5, <3>1, <3>2 DEF WillBeEnded, Others
    <2> QED
      BY <1>3, <2>3, <2>4, <2>5 DEF PoppedIsStopped, AboutTo
  <1> QED
    BY <1>4, <1>5

-----------------------------------------------------------------------------
(* The inductive invariant.                                                 *)
InOrder == Typed /\ OneCreates /\ NewIsItsOwn /\ StartedInOrder /\ PoppedIsStopped

Accounted == InOrder /\ OldIsKilled /\ Known /\ Awaited

LEMMA InitAccounted == Init => Accounted
  <1> SUFFICES ASSUME Init PROVE Accounted
    OBVIOUS
  <1>1. \A t \in Threads : thread[t].pc = "idle" /\ thread[t].op = "none"
    BY DEF Init, Resting
  <1>2. Len(sessions) = 0 /\ DOMAIN children = {}
    BY DEF Init
  <1>3. OneCreates /\ NewIsItsOwn /\ StartedInOrder /\ PoppedIsStopped
    BY <1>1, <1>2 DEF OneCreates, NewIsItsOwn, StartedInOrder, PoppedIsStopped, Underway, Starting
  <1>4. OldIsKilled /\ Known /\ Awaited
    BY <1>1, <1>2 DEF OldIsKilled, Known, ChildrenOf, Awaited
  <1> QED
    BY <1>3, <1>4, InitTyped DEF Accounted, InOrder

LEMMA StepOthers ==
    ASSUME Typed, NEW t \in Threads, Arrive(t) \/ Work(t)
    PROVE  Others(t)
  <1>1. CASE Arrive(t)
    BY <1>1, BeginBegan
       DEF Arrive, BeginGet, BeginDelete, Reap, BeginPost, BeginPatch, Began
  <1>2. ASSUME Collect(t) \/ TakeOver(t) \/ Register(t) \/ MakeWorkspace(t)
        PROVE  Others(t)
    BY <1>2 DEF Collect, TakeOver, Register, MakeWorkspace, Release, Finish, Others,
                Typed, TypeOK
  <1>3. CASE Work(t)
    BY <1>2, <1>3, GotoWent, FinishEnded, SkipSkipped, SpawnWent
       DEF Work, TouchSession, WriteFiles, RestartGuard, KillOld, Respawn, Republish,
           Recheck, Stop, KillAll, RemoveWorkspace, AfterDestroy, ClearWorkspace,
           NextProc, Release, BeginStart, SpawnSetup, PublishSetup, CheckSetup,
           AwaitSetup, Ready, SpawnProc, Publish, Check, Went, Ended, Skipped
  <1> QED
    BY <1>1, <1>3

(* A child ends by itself, or the session is left alone for long: nothing   *)
(* the invariants speak of changes but that a child no longer runs.         *)
OutsideMoves ==
    /\ UNCHANGED <<registered, disk, lock, thread>>
    /\ Len(sessions') = Len(sessions) /\ DOMAIN children' = DOMAIN children
    /\ \A s \in 1 .. Len(sessions) :
          /\ sessions'[s].popen = sessions[s].popen
          /\ sessions[s].stopped => sessions'[s].stopped
    /\ \A c \in DOMAIN children :
          /\ children'[c].session = children[c].session
          /\ children'[c].proc = children[c].proc
          /\ children'[c].running => children[c].running

LEMMA OutsideSteps ==
    ASSUME Typed, (\E c \in DOMAIN children : ChildEnds(c)) \/ GoIdle
    PROVE  OutsideMoves
  <1>1. CASE GoIdle
    <2>1. registered \in 1 .. Len(sessions)
      BY <1>1 DEF GoIdle, Typed, TypeOK, SessionNo
    <2> QED
      BY <1>1, <2>1, FlagsTyped DEF GoIdle, OutsideMoves
  <1>2. ASSUME NEW c \in DOMAIN children, ChildEnds(c)
        PROVE  /\ UNCHANGED <<registered, sessions, disk, lock, thread>>
               /\ DOMAIN children' = DOMAIN children
               /\ \A x \in DOMAIN children :
                     /\ children'[x].session = children[x].session
                     /\ children'[x].proc = children[x].proc
                     /\ children'[x].running => children[x].running
    <2>1. /\ UNCHANGED <<registered, sessions, disk, lock, thread>>
          /\ children' = [children EXCEPT ![c].running = FALSE]
      BY <1>2 DEF ChildEnds
    <2>2. \A x \in DOMAIN children : children[x] \in Child
      BY DEF Typed, TypeOK
    <2>3. ASSUME NEW x \in DOMAIN children
          PROVE  /\ children'[x].session = children[x].session
                 /\ children'[x].proc = children[x].proc
                 /\ children'[x].running => children[x].running
      BY <2>1, <2>2 DEF Child
    <2> QED
      BY <2>1, <2>3
  <1> QED
    BY <1>1, <1>2 DEF OutsideMoves

LEMMA OutsideInOrder ==
    ASSUME InOrder, OutsideMoves, Typed'
    PROVE  InOrder'
  <1> USE DEF OutsideMoves
  <1>1. OneCreates' /\ PoppedIsStopped'
    BY DEF InOrder, OneCreates, PoppedIsStopped, AboutTo
  <1>2. \A t \in Threads : thread[t].pc \in Underway \cup {"register"} =>
           thread[t].session \in 1 .. Len(sessions)
    BY DEF InOrder, Typed, TypeOK, InStep, Fits, ThreadState, SessionNo, Underway, Starting
  <1>3. NewIsItsOwn' /\ StartedInOrder'
    BY <1>2 DEF InOrder, NewIsItsOwn, StartedInOrder, S, Ahead
  <1> QED
    BY <1>1, <1>3 DEF InOrder

LEMMA OutsideAccounted ==
    ASSUME Accounted, OutsideMoves, InOrder'
    PROVE  Accounted'
  <1>a. Typed
    BY DEF Accounted, InOrder
  <1> USE DEF OutsideMoves
  <1>1. OldIsKilled'
    <2> SUFFICES ASSUME NEW t \in Threads, thread[t].pc \in {"respawn", "republish"}
                 PROVE  ~Running(Popen(t))'
      BY DEF OldIsKilled
    <2>1. thread[t].session \in 1 .. Len(sessions) /\ thread[t].proc \in Procs
      BY <1>a DEF Typed, TypeOK, InStep, Fits, Restarting, ThreadState, SessionNo
    <2>2. ~Running(Popen(t))
      BY DEF Accounted, OldIsKilled
    <2>3. sessions[thread[t].session] \in Session
      BY <1>a, <2>1 DEF Typed, TypeOK
    <2>4. Popen(t) \in ChildNo /\ Popen(t)' = Popen(t)
      BY <2>1, <2>3 DEF Session, Popen, S
    <2>5. Popen(t) # 0 => Popen(t) \in DOMAIN children
      BY <1>a, <2>4 DEF ChildNo, Typed, TypeOK
    <2> QED
      BY <2>2, <2>4, <2>5 DEF Running
  <1>2. ChildrenOf /\ ChildrenOf'
    BY DEF Accounted, Known, ChildrenOf
  <1>3. \A c \in DOMAIN children :
           /\ Running(c)' => Running(c)
           /\ Published(c)' <=> Published(c)
           /\ AtHand(c) => AtHand(c)'
           /\ WillBeEnded(c) => WillBeEnded(c)'
    BY <1>2 DEF ChildrenOf, Running, Published, AtHand, WillBeEnded
  <1>4. Known' /\ Awaited'
    BY <1>2, <1>3 DEF Accounted, Known, Awaited
  <1> QED
    BY <1>1, <1>4 DEF Accounted

LEMMA StutterMoves ==
    ASSUME Typed, UNCHANGED vars
    PROVE  OutsideMoves
  BY DEF vars, OutsideMoves

LEMMA InOrderStays == InOrder /\ [Next]_vars => InOrder'
  <1> SUFFICES ASSUME InOrder, [Next]_vars PROVE InOrder'
    OBVIOUS
  <1>a. Typed /\ Typed'
    BY TypedStays DEF InOrder
  <1>1. ASSUME NEW t \in Threads, Arrive(t) \/ Work(t) PROVE InOrder'
    BY <1>a, <1>1, OneCreatesStays, NewIsItsOwnStays, StartedInOrderStays,
       PoppedIsStoppedStays DEF InOrder
  <1>2. CASE (\E c \in DOMAIN children : ChildEnds(c)) \/ GoIdle
    BY <1>a, <1>2, OutsideSteps, OutsideInOrder
  <1>3. CASE UNCHANGED vars
    BY <1>a, <1>3, StutterMoves, OutsideInOrder
  <1> QED
    BY <1>1, <1>2, <1>3 DEF Next

LEMMA AccountedStays ==
    ASSUME OnePatches
    PROVE  Accounted /\ [Next]_vars => Accounted'
  <1> SUFFICES ASSUME Accounted, [Next]_vars PROVE Accounted'
    OBVIOUS
  <1>a. Typed /\ InOrder /\ InOrder'
    BY InOrderStays DEF Accounted, InOrder
  <1>1. ASSUME NEW t \in Threads, Arrive(t) \/ Work(t) PROVE Accounted'
    <2>1. Others(t)
      BY <1>a, <1>1, StepOthers
    <2> QED
      BY <1>a, <1>1, <2>1, OldIsKilledStays, KnownStays, AwaitedStays DEF Accounted, InOrder
  <1>2. CASE (\E c \in DOMAIN children : ChildEnds(c)) \/ GoIdle
    BY <1>a, <1>2, OutsideSteps, OutsideAccounted
  <1>3. CASE UNCHANGED vars
    BY <1>a, <1>3, StutterMoves, OutsideAccounted
  <1> QED
    BY <1>1, <1>2, <1>3 DEF Next

-----------------------------------------------------------------------------
(* The theorems.                                                            *)

(* A thread is where its request takes it, and every session, child and     *)
(* workspace it names is one there is.                                      *)
THEOREM TypeCorrect == Spec => []TypeOK
  <1>1. Typed => TypeOK
    BY DEF Typed
  <1> QED
    BY <1>1, InitTyped, TypedStays, PTL DEF Spec

LEMMA AccountedIsSupervised ==
    ASSUME Accounted
    PROVE  Supervised
  <1> SUFFICES ASSUME NEW c \in DOMAIN children, Running(c), ~AtWorkOn(children[c].session)
               PROVE  /\ registered = children[c].session
                      /\ sessions[registered].popen[children[c].proc] = c
    BY DEF Supervised
  <1>1. children[c].session # 0
    BY DEF Accounted, Known, ChildrenOf
  <1>2. ~AtHand(c)
    BY DEF AtHand, AtWorkOn, Holding
  <1>3. Published(c)
    BY <1>2 DEF Accounted, Known
  <1>4. ~WillBeEnded(c)
    BY DEF WillBeEnded, AtWorkOn
  <1>5. registered = children[c].session
    BY <1>3, <1>4 DEF Accounted, Awaited
  <1> QED
    BY <1>3, <1>5 DEF Published

(* No child outlives its session or escapes it, however requests, the       *)
(* reaper and creates interleave, as long as no two threads patch at once:  *)
(* every spawn is published or looked at by who spawned it, and every       *)
(* session out of the registry is stopped by who took it out.               *)
THEOREM NoChildEscapes ==
    ASSUME OnePatches
    PROVE  Spec => []Supervised
  <1>1. Accounted /\ [Next]_vars => Accounted'
    BY AccountedStays
  <1>2. Accounted => Supervised
    BY AccountedIsSupervised
  <1> QED
    BY <1>1, <1>2, InitAccounted, PTL DEF Spec

(* While a session is up, only who stops a session by DELETE or as the      *)
(* reaper takes its workspace away: creates do not interleave.              *)
LEMMA WorkspaceStep ==
    ASSUME Typed, OneCreates, NEW t \in Threads, Arrive(t) \/ Work(t),
           registered # 0, disk = registered, disk' # disk
    PROVE  /\ thread[t].pc = "remove" /\ thread'[t].pc = "idle"
           /\ thread[t].op \in {"delete", "reap"}
  <1>1. CASE RemoveWorkspace(t)
    <2>1. thread[t].pc = "remove" /\ thread[t].op \in {"post", "delete", "reap"}
      BY <1>1 DEF RemoveWorkspace, Typed, InStep, Fits, Stopping
    <2>2. thread[t].op # "post"
      BY <2>1 DEF OneCreates, Replacing, Stopping
    <2> QED
      BY <1>1, <2>1, <2>2, FinishEnded DEF RemoveWorkspace, AfterDestroy, Ended
  <1>2. ~ClearWorkspace(t)
    BY DEF ClearWorkspace, OneCreates, Replacing, Typed, InStep, Fits, Creating
  <1>3. CASE Arrive(t)
    BY <1>3 DEF Arrive, BeginGet, BeginDelete, Reap, BeginPost, BeginPatch
  <1>4. CASE Work(t)
    BY <1>1, <1>2, <1>4
       DEF Work, TouchSession, WriteFiles, RestartGuard, KillOld, Respawn, Republish,
           Recheck, Stop, Collect, KillAll, TakeOver, MakeWorkspace, Register, NextProc,
           BeginStart, SpawnSetup, PublishSetup, CheckSetup, AwaitSetup, Ready, SpawnProc,
           Publish, Check, TouchDisk
  <1> QED
    BY <1>3, <1>4

THEOREM CreatesAreSerialised == Spec => CreatesDoNotInterleave
  <1>1. Init => InOrder
    BY InitAccounted DEF Accounted
  <1>2. InOrder /\ [Next]_vars
        => [registered # 0 /\ ~sessions[registered].stopped /\ disk = registered /\ disk' # disk
              => \E t \in Threads : /\ thread[t].pc = "remove" /\ thread'[t].pc = "idle"
                                    /\ thread[t].op \in {"delete", "reap"}]_vars
    <2> SUFFICES ASSUME InOrder, Next, registered # 0, disk = registered, disk' # disk
                 PROVE  \E t \in Threads : /\ thread[t].pc = "remove" /\ thread'[t].pc = "idle"
                                           /\ thread[t].op \in {"delete", "reap"}
      BY DEF vars
    <2>1. CASE \E t \in Threads : Arrive(t) \/ Work(t)
      BY <2>1, WorkspaceStep DEF InOrder
    <2>2. CASE (\E c \in DOMAIN children : ChildEnds(c)) \/ GoIdle
      BY <2>2 DEF ChildEnds, GoIdle
    <2> QED
      BY <2>1, <2>2 DEF Next
  <1> QED
    BY <1>1, <1>2, InOrderStays, PTL DEF Spec, CreatesDoNotInterleave
=============================================================================
