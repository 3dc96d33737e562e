--------------------------- MODULE SessionService --------------------------
(***************************************************************************)
(* The app session service (session/server.py): a threading HTTP server     *)
(* that keeps one running app per session id, each with a workspace on disk *)
(* and child processes.  Nothing in it relates two ids except that they     *)
(* share the code, so this module is about one id.                          *)
(*                                                                          *)
(* A thread per request, and the reaper.  A step is what a thread does to   *)
(* shared state between two points where another thread can be scheduled:   *)
(* CPython switches threads at calls and loops, so reading a field twice in *)
(* one expression is one step, a spawn and the assignment of what it        *)
(* returned are two.                                                        *)
(***************************************************************************)
EXTENDS Naturals, Sequences, FiniteSets

CONSTANTS
    Threads,        \* request threads and the reaper
    Does,           \* what each of them does, one request at a time
    NumProcs,       \* processes of the app, in the order they are started
    WithSetup,      \* those that run a setup command first
    MaxSessions,    \* bound: sessions ever made
    MaxChildren     \* bound: children ever spawned; then spawning fails

Nobody == "nobody"
Operations == {"post", "patch", "get", "delete", "reap"}
Procs == 1 .. NumProcs

ASSUME SessionServiceAssumption ==
    /\ Nobody \notin Threads
    /\ Does \in [Threads -> SUBSET Operations]
    /\ NumProcs \in Nat /\ WithSetup \subseteq Procs
    /\ MaxSessions \in Nat /\ MaxChildren \in Nat

VARIABLES
    registered,     \* SESSIONS[id]: a session, or 0
    sessions,       \* every Session made, oldest first
    children,       \* every child process spawned, oldest first
    disk,           \* the directory: 0 when it is not there, the session that
                    \* made it, or Stray when only a late write did
    lock,           \* who holds _CREATION_LOCKS[id]
    thread          \* what each thread is doing

vars == <<registered, sessions, children, disk, lock, thread>>

-----------------------------------------------------------------------------

Stray    == MaxSessions + 1
SessionNo == 0 .. Len(sessions)
ChildNo   == 0 .. Len(children)

(* popen: the published child of each process.  setup: _active_setup.       *)
(* idle: nobody touched it for longer than the reaper allows.               *)
Session == [stopped : BOOLEAN, idle : BOOLEAN,
            popen : [Procs -> ChildNo], setup : ChildNo]
Child   == [session : 1 .. MaxSessions, proc : Procs,
            running : BOOLEAN]

PCs == {"idle", "touch", "write", "restart", "killOld", "respawn", "republish", "recheck",
        "stop", "collect", "kill", "remove",
        "take", "clear", "make", "register", "next", "begin",
        "setup", "publishSetup", "checkSetup", "awaitSetup",
        "ready", "spawn", "publish", "check"}

ThreadState == [op : Operations \cup {"none"}, pc : PCs,
                session : SessionNo,          \* the session at hand
                proc    : 0 .. NumProcs + 1,  \* the process at hand
                child   : ChildNo,            \* spawned, not published yet
                targets : SUBSET ChildNo]     \* what destroy found to kill

Resting == [op |-> "none", pc |-> "idle", session |-> 0, proc |-> 0,
            child |-> 0, targets |-> {}]

TypeOK ==
    /\ registered \in SessionNo
    /\ sessions \in Seq(Session) /\ Len(sessions) <= MaxSessions
    /\ children \in Seq(Child)
    /\ disk \in 0 .. Stray
    /\ lock \in Threads \cup {Nobody}
    /\ thread \in [Threads -> ThreadState]

-----------------------------------------------------------------------------
(* Helpers.                                                                 *)

Running(c) == c # 0 /\ children[c].running

(* The session and the process a thread is at, and the published child.     *)
S(t) == sessions[thread[t].session]
Popen(t) == S(t).popen[thread[t].proc]

Goto(t, pc) == thread' = [thread EXCEPT ![t].pc = pc]
Finish(t)   == thread' = [thread EXCEPT ![t] = Resting]

(* create_session returns or raises: the creation lock is released.         *)
Release(t) == lock' = Nobody /\ Finish(t)

(* destroy() returns: create_session goes on, a DELETE or the reaper ends.  *)
AfterDestroy(t) ==
    IF thread[t].op = "post" THEN Goto(t, "clear") ELSE Finish(t)

(* SIGTERM to the process group, then SIGKILL if it outlives the grace;     *)
(* the wait returns only when they are gone.                                *)
Kill(cs) ==
    children' = [c \in DOMAIN children |->
        [children[c] EXCEPT !.running = @ /\ c \notin cs]]

(* Popen: a child that runs, or an OSError.                                 *)
Spawned(t, pc) ==
    /\ Len(children) < MaxChildren
    /\ children' = Append(children, [session |-> thread[t].session,
                                     proc |-> thread[t].proc, running |-> TRUE])
    /\ thread' = [thread EXCEPT ![t].pc = pc, ![t].child = Len(children) + 1]

SetPopen(t, c) ==
    sessions' = [sessions EXCEPT ![thread[t].session].popen[thread[t].proc] = c]

(* mkdir(parents=True, exist_ok=True) of something inside the workspace.    *)
TouchDisk == disk' = IF disk = 0 THEN Stray ELSE disk

-----------------------------------------------------------------------------
(* Requests that name a session: GET, PATCH.                                *)

Begin(t, op, pc, s, p) ==
    /\ op \in Does[t]
    /\ thread[t].pc = "idle"
    /\ thread' = [thread EXCEPT ![t] = [Resting EXCEPT !.op = op, !.pc = pc,
                                                      !.session = s, !.proc = p]]

(* _session: the registry is read under its lock, the clock touched after.  *)
BeginGet(t) ==
    /\ registered # 0
    /\ Begin(t, "get", "touch", registered, 0)
    /\ UNCHANGED <<registered, sessions, children, disk, lock>>

(* A PATCH writes and deletes files, and may restart a process after.       *)
BeginPatch(t, p) ==
    /\ registered # 0
    /\ Begin(t, "patch", "touch", registered, p)
    /\ UNCHANGED <<registered, sessions, children, disk, lock>>

TouchSession(t) ==
    /\ thread[t].pc = "touch"
    /\ sessions' = [sessions EXCEPT ![thread[t].session].idle = FALSE]
    /\ IF thread[t].op = "patch" THEN Goto(t, "write") ELSE Finish(t)
    /\ UNCHANGED <<registered, children, disk, lock>>

WriteFiles(t) ==
    /\ thread[t].pc = "write"
    /\ TouchDisk
    /\ IF thread[t].proc # 0 THEN Goto(t, "restart") ELSE Finish(t)
    /\ UNCHANGED <<registered, sessions, children, lock>>

(* restart: a stopped session or a process that never started is left be.   *)
RestartGuard(t) ==
    /\ thread[t].pc = "restart"
    /\ IF S(t).stopped \/ Popen(t) = 0 THEN Finish(t) ELSE Goto(t, "killOld")
    /\ UNCHANGED <<registered, sessions, children, disk, lock>>

(* proc.popen is read again here; None raises and ends the request.         *)
KillOld(t) ==
    /\ thread[t].pc = "killOld"
    /\ Kill({Popen(t)})
    /\ IF Popen(t) = 0 THEN Finish(t) ELSE Goto(t, "respawn")
    /\ UNCHANGED <<registered, sessions, disk, lock>>

Respawn(t) ==
    /\ thread[t].pc = "respawn"
    /\ \/ Spawned(t, "republish") /\ UNCHANGED sessions
       \/ SetPopen(t, 0) /\ Finish(t) /\ UNCHANGED children
    /\ UNCHANGED <<registered, disk, lock>>

Republish(t) ==
    /\ thread[t].pc = "republish"
    /\ SetPopen(t, thread[t].child)
    /\ Goto(t, "recheck")
    /\ UNCHANGED <<registered, children, disk, lock>>

(* Faulty: does not look whether the session was stopped meanwhile.         *)
RecheckSkipped(t) ==
    /\ thread[t].pc = "recheck"
    /\ Finish(t)
    /\ UNCHANGED <<registered, sessions, children, disk, lock>>

(* Destroyed underneath us mid-restart: do not leak the child.              *)
Recheck(t) ==
    /\ thread[t].pc = "recheck"
    /\ IF S(t).stopped THEN Kill({Popen(t)}) ELSE UNCHANGED children
    /\ Finish(t)
    /\ UNCHANGED <<registered, sessions, disk, lock>>

-----------------------------------------------------------------------------
(* Stopping a session.                                                      *)

(* DELETE and the reaper pop the session under the registry lock, and       *)
(* destroy it outside of every lock.                                        *)
BeginDelete(t) ==
    /\ registered # 0
    /\ Begin(t, "delete", "stop", registered, 0)
    /\ registered' = 0
    /\ UNCHANGED <<sessions, children, disk, lock>>

Reap(t) ==
    /\ registered # 0
    /\ sessions[registered].idle
    /\ Begin(t, "reap", "stop", registered, 0)
    /\ registered' = 0
    /\ UNCHANGED <<sessions, children, disk, lock>>

Stop(t) ==
    /\ thread[t].pc = "stop"
    /\ sessions' = [sessions EXCEPT ![thread[t].session].stopped = TRUE]
    /\ Goto(t, "collect")
    /\ UNCHANGED <<registered, children, disk, lock>>

Collect(t) ==
    /\ thread[t].pc = "collect"
    /\ thread' = [thread EXCEPT ![t].pc = "kill",
          ![t].targets = ({S(t).popen[p] : p \in Procs} \cup {S(t).setup}) \ {0}]
    /\ UNCHANGED <<registered, sessions, children, disk, lock>>

KillAll(t) ==
    /\ thread[t].pc = "kill"
    /\ Kill(thread[t].targets)
    /\ Goto(t, "remove")
    /\ UNCHANGED <<registered, sessions, disk, lock>>

RemoveWorkspace(t) ==
    /\ thread[t].pc = "remove"
    /\ disk' = 0
    /\ AfterDestroy(t)
    /\ UNCHANGED <<registered, sessions, children, lock>>

-----------------------------------------------------------------------------
(* create_session.                                                          *)

BeginPost(t) ==
    /\ Begin(t, "post", "take", 0, 0)
    /\ UNCHANGED <<registered, sessions, children, disk, lock>>

(* Faulty: creation is not serialised.                                      *)
TakeOverUnserialised(t) ==
    /\ thread[t].pc = "take"
    /\ thread' = [thread EXCEPT ![t].pc = IF registered # 0 THEN "stop" ELSE "clear",
                                ![t].session = registered]
    /\ registered' = 0
    /\ UNCHANGED <<sessions, children, disk, lock>>

(* The creation lock; then the same id again means the old app dies first.  *)
TakeOver(t) ==
    /\ thread[t].pc = "take"
    /\ lock = Nobody
    /\ lock' = t
    /\ thread' = [thread EXCEPT ![t].pc = IF registered # 0 THEN "stop" ELSE "clear",
                                ![t].session = registered]
    /\ registered' = 0
    /\ UNCHANGED <<sessions, children, disk>>

(* A crashed predecessor's leavings.                                        *)
ClearWorkspace(t) ==
    /\ thread[t].pc = "clear"
    /\ disk' = 0
    /\ Goto(t, "make")
    /\ UNCHANGED <<registered, sessions, children, lock>>

(* mkdir fails on a directory that is there again; a file that cannot be    *)
(* written takes the workspace with it.                                     *)
MakeWorkspace(t) ==
    /\ thread[t].pc = "make"
    /\ \/ /\ disk = 0 /\ Len(sessions) < MaxSessions
          /\ sessions' = Append(sessions, [stopped |-> FALSE, idle |-> FALSE, setup |-> 0,
                                           popen |-> [p \in Procs |-> 0]])
          /\ disk' = Len(sessions) + 1
          /\ thread' = [thread EXCEPT ![t].pc = "register",
                                      ![t].session = Len(sessions) + 1]
          /\ UNCHANGED lock
       \/ Release(t) /\ UNCHANGED <<sessions, disk>>
    /\ UNCHANGED <<registered, children>>

(* Registered before the processes start.                                   *)
Register(t) ==
    /\ thread[t].pc = "register"
    /\ registered' = thread[t].session
    /\ thread' = [thread EXCEPT ![t].pc = "next", ![t].proc = 1]
    /\ UNCHANGED <<sessions, children, disk, lock>>

(* Faulty: one process too many.                                            *)
NextProcPastTheLast(t) ==
    /\ thread[t].pc = "next"
    /\ IF S(t).stopped \/ thread[t].proc > NumProcs + 1
       THEN Release(t)
       ELSE Goto(t, "begin") /\ UNCHANGED lock
    /\ UNCHANGED <<registered, sessions, children, disk>>

(* The loop over the processes: until the last one, or until stopped.       *)
NextProc(t) ==
    /\ thread[t].pc = "next"
    /\ IF S(t).stopped \/ thread[t].proc > NumProcs
       THEN Release(t)
       ELSE Goto(t, "begin") /\ UNCHANGED lock
    /\ UNCHANGED <<registered, sessions, children, disk>>

SkipTo(t) ==
    thread' = [thread EXCEPT ![t].pc = "next", ![t].proc = @ + 1, ![t].child = 0]

(* start: the process's directory, its setup, then the process itself.      *)
BeginStart(t) ==
    /\ thread[t].pc = "begin"
    /\ TouchDisk
    /\ Goto(t, IF thread[t].proc \in WithSetup THEN "setup" ELSE "ready")
    /\ UNCHANGED <<registered, sessions, children, lock>>

SpawnSetup(t) ==
    /\ thread[t].pc = "setup"
    /\ \/ ~S(t).stopped /\ Spawned(t, "publishSetup")
       \/ SkipTo(t) /\ UNCHANGED children
    /\ UNCHANGED <<registered, sessions, disk, lock>>

PublishSetup(t) ==
    /\ thread[t].pc = "publishSetup"
    /\ sessions' = [sessions EXCEPT ![thread[t].session].setup = thread[t].child]
    /\ Goto(t, "checkSetup")
    /\ UNCHANGED <<registered, children, disk, lock>>

(* Faulty: does not look whether the session was stopped meanwhile.         *)
CheckSetupSkipped(t) ==
    /\ thread[t].pc = "checkSetup"
    /\ Goto(t, "awaitSetup")
    /\ UNCHANGED <<registered, sessions, children, disk, lock>>

CheckSetup(t) ==
    /\ thread[t].pc = "checkSetup"
    /\ IF S(t).stopped THEN Kill({thread[t].child}) ELSE UNCHANGED children
    /\ Goto(t, "awaitSetup")
    /\ UNCHANGED <<registered, sessions, disk, lock>>

(* Reads the setup's output to its end, then its exit code.  One that was   *)
(* killed fails; its session is stopped then, and Ready looks at that.      *)
AwaitSetup(t) ==
    /\ thread[t].pc = "awaitSetup"
    /\ ~Running(thread[t].child)
    /\ sessions' = [sessions EXCEPT ![thread[t].session].setup = 0]
    /\ Goto(t, "ready") \/ SkipTo(t)
    /\ UNCHANGED <<registered, children, disk, lock>>

Ready(t) ==
    /\ thread[t].pc = "ready"
    /\ IF S(t).stopped THEN SkipTo(t) ELSE Goto(t, "spawn")
    /\ UNCHANGED <<registered, sessions, children, disk, lock>>

SpawnProc(t) ==
    /\ thread[t].pc = "spawn"
    /\ \/ Spawned(t, "publish")
       \/ SkipTo(t) /\ UNCHANGED children
    /\ UNCHANGED <<registered, sessions, disk, lock>>

Publish(t) ==
    /\ thread[t].pc = "publish"
    /\ SetPopen(t, thread[t].child)
    /\ Goto(t, "check")
    /\ UNCHANGED <<registered, children, disk, lock>>

(* Destroyed underneath us mid-start: do not leak the child.                *)
Check(t) ==
    /\ thread[t].pc = "check"
    /\ IF S(t).stopped THEN Kill({Popen(t)}) ELSE UNCHANGED children
    /\ SkipTo(t)
    /\ UNCHANGED <<registered, sessions, disk, lock>>

-----------------------------------------------------------------------------

(* A child ends by itself.                                                  *)
ChildEnds(c) ==
    /\ Running(c)
    /\ children' = [children EXCEPT ![c].running = FALSE]
    /\ UNCHANGED <<registered, sessions, disk, lock, thread>>

(* Nobody asks for the session for longer than the reaper allows.           *)
GoIdle ==
    /\ registered # 0
    /\ ~sessions[registered].idle
    /\ sessions' = [sessions EXCEPT ![registered].idle = TRUE]
    /\ UNCHANGED <<registered, children, disk, lock, thread>>

Init ==
    /\ registered = 0 /\ sessions = <<>> /\ children = <<>>
    /\ disk = 0 /\ lock = Nobody
    /\ thread = [t \in Threads |-> Resting]

Arrive(t) ==
    \/ BeginGet(t) \/ BeginDelete(t) \/ Reap(t) \/ BeginPost(t)
    \/ \E p \in Procs \cup {0} : BeginPatch(t, p)

Work(t) ==
    \/ TouchSession(t) \/ WriteFiles(t)
    \/ RestartGuard(t) \/ KillOld(t) \/ Respawn(t) \/ Republish(t) \/ Recheck(t)
    \/ Stop(t) \/ Collect(t) \/ KillAll(t) \/ RemoveWorkspace(t)
    \/ TakeOver(t) \/ ClearWorkspace(t) \/ MakeWorkspace(t) \/ Register(t)
    \/ NextProc(t) \/ BeginStart(t)
    \/ SpawnSetup(t) \/ PublishSetup(t) \/ CheckSetup(t) \/ AwaitSetup(t)
    \/ Ready(t) \/ SpawnProc(t) \/ Publish(t) \/ Check(t)

Next ==
    \/ \E t \in Threads : Arrive(t) \/ Work(t)
    \/ \E c \in DOMAIN children : ChildEnds(c)
    \/ GoIdle

Spec == Init /\ [][Next]_vars

(* Threads run.  No child is ever assumed to end by itself.                 *)
FairSpec == Spec /\ \A t \in Threads : WF_vars(Work(t))

-----------------------------------------------------------------------------
(* Properties.                                                              *)

AtWorkOn(s) == \E t \in Threads : thread[t].pc # "idle" /\ thread[t].session = s

(* No child outlives its session, or escapes it: once no thread is at work  *)
(* on a session, a child of it that runs is the published child of its      *)
(* process and the session is the registered one, so that a later DELETE or *)
(* the reaper finds it ("do not leak the child", session/server.py:208-211, *)
(* 230-232 and 282-285 against 311-324).                                    *)
Supervised ==
    \A c \in DOMAIN children :
        Running(c) /\ ~AtWorkOn(children[c].session) =>
            /\ registered = children[c].session
            /\ sessions[registered].popen[children[c].proc] = c

(* Creates for one id do not interleave their rmtree and mkdir: while a     *)
(* session is up, the only thread that takes its workspace away is one that *)
(* stops a session by DELETE or as the reaper (session/server.py:331-333).  *)
CreatesDoNotInterleave ==
    [][registered # 0 /\ ~sessions[registered].stopped /\ disk = registered /\ disk' # disk
          => \E t \in Threads : /\ thread[t].pc = "remove" /\ thread'[t].pc = "idle"
                                /\ thread[t].op \in {"delete", "reap"}]_vars

(* The new app takes the old one's place: a session that is registered and  *)
(* not stopped has the workspace it made (session/server.py:343-344).       *)
WorkspaceStays ==
    registered # 0 /\ ~sessions[registered].stopped => disk = registered

(* Stopping a session frees the id, even if a setup command would run for   *)
(* ever: its children end and the create that started them lets go of the   *)
(* lock ("killable through DELETE while it runs", session/server.py:363).   *)
StoppedEnds ==
    \A s \in 1 .. MaxSessions :
        (s <= Len(sessions) /\ sessions[s].stopped) ~>
            /\ \A c \in DOMAIN children : children[c].session = s => ~Running(c)
            /\ ~AtWorkOn(s)
=============================================================================
