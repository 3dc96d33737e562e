----------------------------- MODULE Processes ------------------------------
(* What a session is told to run (apps/api/src/project/session.ts): the      *)
(* processes derived from the composition and from the roles of the emitted  *)
(* files, their names, ports and each other's addresses; the files that      *)
(* travel; and what the routes of session-routes.ts make of them later, when *)
(* the documents are no longer those the session was started from.           *)
EXTENDS Naturals, Sequences, FiniteSets, SequencesExt

CONSTANTS
    WebClients,      \* nodes of type client, web ones with a dev script
    ApiBoundaries,   \* nodes of type boundary, an api
    NodeOrder,       \* all of them in the order of their ids
    ServerFiles,     \* paths that the runner may emit as boundary-server
    ServerOrder,     \* in the order of the paths
    StemOf,          \* the stem of each
    Sources,         \* other files of the project, in the order of its list
    PortBase,        \* sessionPortBase of the project
    FileLimit        \* SESSION_FILE_LIMIT

CompositionNodes == WebClients \cup ApiBoundaries
NoServer == 0

Each(seq) == \A i, j \in DOMAIN seq : seq[i] = seq[j] => i = j

ASSUME ProcessesAssumption ==
    /\ NodeOrder \in Seq(CompositionNodes) /\ ToSet(NodeOrder) = CompositionNodes /\ Each(NodeOrder)
    /\ ServerOrder \in Seq(ServerFiles) /\ ToSet(ServerOrder) = ServerFiles /\ Each(ServerOrder)
    /\ WebClients \cap ApiBoundaries = {}
    /\ Sources \in Seq(ToSet(Sources))
    /\ PortBase \in Nat \ {0} /\ FileLimit \in Nat
    /\ DOMAIN StemOf = ServerFiles

VARIABLES
    composition,     \* the nodes of the composition, as the overlay reads it
    emitted,         \* the server files of the last transpile
    travels,         \* [Sources -> can it be shipped: text within the size]
    app,             \* the session: [up, procs, files, nodes, servers]
    answer,          \* what the last call answered: none since an edit
    restarted        \* the process names the last sync restarted

processesVars == <<composition, emitted, travels, app, answer, restarted>>

NoApp == [up |-> FALSE, procs |-> <<>>, files |-> {}, nodes |-> {}, servers |-> {}]
NoAnswer == [by |-> "none", previews |-> <<>>, boundaries |-> <<>>]

ProcessesInit ==
    /\ composition = {} /\ emitted = {}
    /\ travels \in [ToSet(Sources) -> BOOLEAN]
    /\ app = NoApp /\ answer = NoAnswer /\ restarted = {}

-----------------------------------------------------------------------------
(* deriveProcesses.                                                          *)

(* The elements of a sequence that are in a set, in order.                   *)
Kept(seq, S) ==
    LET kept[n \in 0 .. Len(seq)] ==
            IF n = 0 THEN <<>>
            ELSE IF seq[n] \in S THEN Append(kept[n - 1], seq[n]) ELSE kept[n - 1]
    IN kept[Len(seq)]

Clients(nodes) == Kept(NodeOrder, nodes \cap WebClients)
Servers(files) == Kept(ServerOrder, files)
Apis(nodes) == nodes \cap ApiBoundaries

(* Clients first, then servers.                                              *)
ClientPort(i) == PortBase + i - 1

ServerPort(nodes, j) == PortBase + Len(Clients(nodes)) + j - 1

(* Faulty: the first server, whatever it serves.                             *)
ApiServerGuessed(nodes, files) == IF files = {} THEN NoServer ELSE 1

(* The server that clients are told of: the only one, or the one named like  *)
(* the only api boundary; a guess would send them to the wrong process.      *)
ApiServer(nodes, files) ==
    LET servers == Servers(files)
        named == {j \in DOMAIN servers : StemOf[servers[j]] \in Apis(nodes)}
    IN CASE Len(servers) = 1 -> 1
         [] Len(servers) # 1 /\ Cardinality(Apis(nodes)) = 1 /\ named # {} ->
              CHOOSE j \in named : \A k \in named : j <= k
         [] OTHER -> NoServer

ServerName(nodes, files, file) ==
    IF Cardinality(files) = 1 /\ Cardinality(Apis(nodes)) = 1
    THEN CHOOSE b \in Apis(nodes) : TRUE
    ELSE StemOf[file]

(* Each side is told where the other is: VITE_API_URL, CORS_ORIGINS.         *)
ClientProcs(nodes, files) ==
    LET clients == Clients(nodes)
        server == ApiServer(nodes, files)
    IN [i \in DOMAIN clients |->
           [name |-> clients[i], port |-> ClientPort(i), client |-> TRUE, origins |-> {},
            api |-> IF server = NoServer THEN 0 ELSE ServerPort(nodes, server)]]

ServerProcs(nodes, files) ==
    LET servers == Servers(files)
    IN [j \in DOMAIN servers |->
           [name |-> ServerName(nodes, files, servers[j]), port |-> ServerPort(nodes, j),
            client |-> FALSE, origins |-> {ClientPort(i) : i \in DOMAIN Clients(nodes)}, api |-> 0]]

DeriveProcesses(nodes, files) == ClientProcs(nodes, files) \o ServerProcs(nodes, files)

Address(procs) == [i \in DOMAIN procs |-> [name |-> procs[i].name, port |-> procs[i].port]]

-----------------------------------------------------------------------------
(* gatherSessionFiles, assembleSessionFiles: the project's own files up to   *)
(* the cap, the emitted ones on top whatever the cap.                        *)
Gathered ==
    LET good == Kept(Sources, {f \in ToSet(Sources) : travels[f]})
    IN {good[i] : i \in 1..(IF Len(good) < FileLimit THEN Len(good) ELSE FileLimit)}

SessionFiles(files) == Gathered \cup files

(* The author edits the composition; a transpile emits other servers.        *)
EditComposition(n) ==
    /\ composition' = IF n \in composition THEN composition \ {n} ELSE composition \cup {n}
    /\ answer' = NoAnswer
    /\ UNCHANGED <<emitted, travels, app, restarted>>

(* POST session: the transpile, then stop old, start fresh.                  *)
RunApp(files) ==
    /\ emitted' = files
    /\ app' = [up |-> TRUE, procs |-> DeriveProcesses(composition, files), files |-> SessionFiles(files),
               nodes |-> composition, servers |-> files]
    /\ answer' = [by |-> "run", previews |-> Address(ClientProcs(composition, files)),
                  boundaries |-> Address(ServerProcs(composition, files))]
    /\ restarted' = {} /\ UNCHANGED <<composition, travels>>

RestartNames(nodes, files) == {ServerProcs(nodes, files)[j].name : j \in DOMAIN Servers(files)}

(* transpileAndSync: emitted files and the servers' names go to the session, *)
(* which passes over a name it does not run.                                 *)
SyncToSession(files) ==
    /\ emitted' = files
    /\ IF app.up
       THEN /\ app' = [app EXCEPT !.files = (@ \ emitted) \cup files]
            /\ restarted' = {i \in DOMAIN app.procs :
                                /\ app.procs[i].name \in RestartNames(composition, files)
                                /\ \A k \in DOMAIN app.procs : app.procs[k].name = app.procs[i].name => i <= k}
            /\ answer' = [answer EXCEPT !.by = "sync"]
       ELSE UNCHANGED <<app, restarted, answer>>
    /\ UNCHANGED <<composition, travels>>

(* A process is a preview when its name is a client's, as of now.            *)
Previews == {proc \in ToSet(app.procs) : proc.name \in composition \cap WebClients}

(* GET session.                                                              *)
Status ==
    /\ app.up
    /\ answer' = [by |-> "status",
                  previews |-> Address(Kept(app.procs, Previews)),
                  boundaries |-> Address(Kept(app.procs, ToSet(app.procs) \ Previews))]
    /\ UNCHANGED <<composition, emitted, travels, app, restarted>>

StopApp == app.up /\ app' = NoApp /\ answer' = NoAnswer /\ restarted' = {} /\ UNCHANGED <<composition, emitted, travels>>

ProcessesNext ==
    \/ \E n \in CompositionNodes : EditComposition(n)
    \/ \E files \in SUBSET ServerFiles : RunApp(files) \/ SyncToSession(files)
    \/ Status \/ StopApp

ProcessesSpec == ProcessesInit /\ [][ProcessesNext]_processesVars

-----------------------------------------------------------------------------
ProcessesTypeOK ==
    /\ composition \subseteq CompositionNodes /\ emitted \subseteq ServerFiles
    /\ travels \in [ToSet(Sources) -> BOOLEAN]
    /\ app.files \subseteq ToSet(Sources) \cup ServerFiles
    /\ app.nodes \subseteq CompositionNodes /\ app.servers \subseteq ServerFiles
    /\ \A i \in DOMAIN app.procs :
          app.procs[i].port \in PortBase..(PortBase + Cardinality(WebClients) + Cardinality(ServerFiles) - 1)
    /\ restarted \subseteq DOMAIN app.procs

(* No two processes of an app bind one port, and every address one is told   *)
(* is another's: a client's api is a server that admits the client           *)
(* (session.ts:152-172).                                                     *)
AddressesPair ==
    LET procs == app.procs
    IN /\ \A i, j \in DOMAIN procs : i # j => procs[i].port # procs[j].port
       /\ \A i \in DOMAIN procs : procs[i].api # 0 =>
             \E j \in DOMAIN procs : /\ procs[j].port = procs[i].api /\ ~procs[j].client
                                     /\ procs[i].port \in procs[j].origins

(* Where there is one api boundary, a client is told of its server or of     *)
(* none (session.ts:156-158).                                                *)
ClientsReachTheApi ==
    \A i, j \in DOMAIN app.procs :
        (app.procs[i].api = app.procs[j].port /\ Cardinality(app.servers) > 1)
            => Apis(app.nodes) = {app.procs[j].name}

(* The whole emitted app reaches the workspace, whatever the cap leaves out  *)
(* of the project's own files (session.ts:77-81).                            *)
EmissionTravels == app.up => emitted \subseteq app.files

(* A sync restarts servers and never a client, and every server the app runs *)
(* while the documents are those it was started from                         *)
(* (session-routes.ts:124-131).                                              *)
RestartsTheServers ==
    [][answer'.by = "sync" =>
          /\ \A i \in restarted' : ~app.procs[i].client
          /\ composition = app.nodes /\ emitted' = app.servers =>
                restarted' = {i \in DOMAIN app.procs : ~app.procs[i].client}]_<<app, answer, restarted>>

(* The two routes agree on which process is which, while the composition is  *)
(* the one the app was started from (session-routes.ts:346-371).             *)
RoutesAgree ==
    answer.by = "status" /\ composition = app.nodes =>
        /\ answer.previews = Address(ClientProcs(app.nodes, app.servers))
        /\ answer.boundaries = Address(ServerProcs(app.nodes, app.servers))

(* The processes of an app find each other, run what was emitted and are the *)
(* same ones to every route that speaks of them.                             *)
ProcessesHold ==
    /\ [](AddressesPair /\ ClientsReachTheApi /\ EmissionTravels /\ RoutesAgree)
    /\ RestartsTheServers
=============================================================================
