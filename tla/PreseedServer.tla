---------------------------- MODULE PreseedServer ---------------------------
(***************************************************************************)
(* The temporary HTTP service that hands the answer file to the Kali       *)
(* installer (provisioning/preseed_server.py), and the with block of       *)
(* create_machine around it: start, boot the installer, wait for the       *)
(* fetch, stop.  The accept loop is a thread of its own and every          *)
(* connection gets a handler thread.  Clients connect, ask, fall silent    *)
(* and break off as they like.                                             *)
(***************************************************************************)
EXTENDS FiniteSets

CONSTANTS
  Client,     \* whatever can reach the loopback port
  Installer   \* the client that is the guest's installer

ASSUME InstallerAssumption == Installer \in Client

VARIABLES
  block,      \* where the with block is
  verdict,    \* how the wait ended
  loop,       \* the accept loop: "off", "polling", "ended"
  fetched,    \* _fetch_event
  conn,       \* each client's connection, as its handler sees it
  asked,      \* the path a client has sent, "nothing" before
  broken,     \* clients that broke their connection off
  file,       \* whether the answer file can be read
  handed      \* history: clients whose socket took the whole file

server == <<loop, fetched>>

clients == <<conn, asked, broken>>

serverVars == <<block, verdict, server, clients, file, handed>>

-----------------------------------------------------------------------------
ServerInit ==
  /\ block = "start"
  /\ verdict = "none"
  /\ loop = "off"
  /\ fetched = FALSE
  /\ conn = [c \in Client |-> "none"]
  /\ asked = [c \in Client |-> "nothing"]
  /\ broken = {}
  /\ file = TRUE
  /\ handed = {}

(* start: the socket is bound and the loop's thread runs.                  *)
Start ==
  /\ block = "start"
  /\ file
  /\ loop' = "polling"
  /\ block' = "boot"
  /\ UNCHANGED <<verdict, fetched, clients, file, handed>>

(* The file is missing or the port taken; __exit__ is never called.        *)
StartFails ==
  /\ block = "start"
  /\ verdict' = "failed"
  /\ block' = "done"
  /\ UNCHANGED <<server, clients, file, handed>>

(* start_kali_preseed_install: the block is left when it raises.           *)
BootInstaller ==
  /\ block = "boot"
  /\ \/ block' = "wait" /\ verdict' = verdict
     \/ block' = "stop" /\ verdict' = "failed"
  /\ UNCHANGED <<server, clients, file, handed>>

FetchSeen ==
  /\ block = "wait"
  /\ fetched
  /\ verdict' = "fetched"
  /\ block' = "stop"
  /\ UNCHANGED <<server, clients, file, handed>>

FetchTimesOut ==
  /\ block = "wait"
  /\ ~fetched
  /\ verdict' = "timeout"
  /\ block' = "stop"
  /\ UNCHANGED <<server, clients, file, handed>>

(* Definitions whose names end in Mutant are faulty variants of the one    *)
(* that follows: an HTTPServer handles requests in the loop's own thread.  *)
LoopIsFreeMutant ==
  loop = "polling" /\ \A c \in Client : conn[c] # "accepted"

LoopIsFree == loop = "polling"

(***************************************************************************)
(* stop: shutdown() waits for the loop to leave, server_close() and join() *)
(* follow.  Handler threads are daemons and are not waited for.            *)
(***************************************************************************)
Stop ==
  /\ block = "stop"
  /\ LoopIsFree
  /\ loop' = "ended"
  /\ block' = "done"
  /\ UNCHANGED <<verdict, fetched, clients, file, handed>>

-----------------------------------------------------------------------------
Accept(c) ==
  /\ LoopIsFree
  /\ conn[c] = "queued"
  /\ conn' = [conn EXCEPT ![c] = "accepted"]
  /\ UNCHANGED <<block, verdict, server, asked, broken, file, handed>>

(* do_GET for another path, or with a file it cannot read: 404 and 500.    *)
Refuse(c) ==
  /\ conn[c] = "accepted"
  /\ asked[c] = "other" \/ (asked[c] = "preseed" /\ ~file)
  /\ conn' = [conn EXCEPT ![c] = "closed"]
  /\ UNCHANGED <<block, verdict, server, asked, broken, file, handed>>

ReadPayload(c) ==
  /\ conn[c] = "accepted"
  /\ asked[c] = "preseed"
  /\ file
  /\ conn' = [conn EXCEPT ![c] = "writing"]
  /\ UNCHANGED <<block, verdict, server, asked, broken, file, handed>>

(***************************************************************************)
(* The whole payload is handed to the socket; the event is not yet set.    *)
(* The socket may take it though the client has just broken off.           *)
(***************************************************************************)
WritePayload(c) ==
  /\ conn[c] = "writing"
  /\ handed' = handed \cup {c}
  /\ conn' = [conn EXCEPT ![c] = "written"]
  /\ UNCHANGED <<block, verdict, server, asked, broken, file>>

(* The handler of BrokenPipeError does not return.                         *)
WriteFailsMutant(c) ==
  /\ conn[c] = "writing"
  /\ c \in broken
  /\ conn' = [conn EXCEPT ![c] = "written"]
  /\ UNCHANGED <<block, verdict, server, asked, broken, file, handed>>

(* The client is gone: BrokenPipeError or ConnectionResetError, of the     *)
(* headers, which ends the thread, or of the payload, which is caught.     *)
WriteFails(c) ==
  /\ conn[c] = "writing"
  /\ c \in broken
  /\ conn' = [conn EXCEPT ![c] = "closed"]
  /\ UNCHANGED <<block, verdict, server, asked, broken, file, handed>>

SetEvent(c) ==
  /\ conn[c] = "written"
  /\ fetched' = TRUE
  /\ conn' = [conn EXCEPT ![c] = "closed"]
  /\ UNCHANGED <<block, verdict, loop, asked, broken, file, handed>>

(* The request line never comes because the client is gone.                *)
GiveUp(c) ==
  /\ conn[c] = "accepted"
  /\ asked[c] = "nothing"
  /\ c \in broken
  /\ conn' = [conn EXCEPT ![c] = "closed"]
  /\ UNCHANGED <<block, verdict, server, asked, broken, file, handed>>

-----------------------------------------------------------------------------
(* The installer runs once it was booted; the file may go at any time.     *)
Connect(c) ==
  /\ loop = "polling"
  /\ c = Installer => block # "boot"
  /\ conn[c] \in {"none", "closed"}
  /\ conn' = [conn EXCEPT ![c] = "queued"]
  /\ asked' = [asked EXCEPT ![c] = "nothing"]
  /\ broken' = broken \ {c}
  /\ UNCHANGED <<block, verdict, server, file, handed>>

Ask(c) ==
  /\ conn[c] \in {"queued", "accepted"}
  /\ asked[c] = "nothing"
  /\ c \notin broken
  /\ \E path \in {"preseed", "other"} : asked' = [asked EXCEPT ![c] = path]
  /\ UNCHANGED <<block, verdict, server, conn, broken, file, handed>>

BreakOff(c) ==
  /\ conn[c] \notin {"none", "closed"}
  /\ broken' = broken \cup {c}
  /\ UNCHANGED <<block, verdict, server, conn, asked, file, handed>>

FileGoes ==
  /\ file
  /\ file' = FALSE
  /\ UNCHANGED <<block, verdict, server, clients, handed>>

(* The block is done; nothing has to happen any more.                      *)
ServerRests == block = "done" /\ UNCHANGED serverVars

-----------------------------------------------------------------------------
Block == Start \/ StartFails \/ BootInstaller \/ FetchSeen \/ FetchTimesOut
           \/ Stop

Handler(c) == Refuse(c) \/ ReadPayload(c) \/ WritePayload(c) \/ WriteFails(c)
                \/ SetEvent(c) \/ GiveUp(c)

ServerNext ==
  \/ Block
  \/ \E c \in Client :
       Accept(c) \/ Handler(c) \/ Connect(c) \/ Ask(c) \/ BreakOff(c)
  \/ FileGoes
  \/ ServerRests

(***************************************************************************)
(* The scheduler runs the threads of the program and its clock runs on;    *)
(* nothing is assumed of the clients.                                      *)
(***************************************************************************)
Fairness ==
  /\ WF_serverVars(Block)
  /\ \A c \in Client : WF_serverVars(Accept(c)) /\ WF_serverVars(Handler(c))

ServerSpec == ServerInit /\ [][ServerNext]_serverVars /\ Fairness

-----------------------------------------------------------------------------
ServerTypeOK ==
  /\ block \in {"start", "boot", "wait", "stop", "done"}
  /\ verdict \in {"none", "fetched", "timeout", "failed"}
  /\ loop \in {"off", "polling", "ended"}
  /\ fetched \in BOOLEAN
  /\ conn \in [Client -> {"none", "queued", "accepted", "writing", "written",
                          "closed"}]
  /\ asked \in [Client -> {"nothing", "preseed", "other"}]
  /\ broken \subseteq Client
  /\ file \in BOOLEAN
  /\ handed \subseteq Client

(***************************************************************************)
(* The Forge goes on only after the whole file was handed to somebody who  *)
(* asked for it: not after a 404 or 500, nor after a write that failed.    *)
(***************************************************************************)
FetchedMeansServed == verdict = "fetched" => handed # {}

(***************************************************************************)
(* No client keeps the Forge in the block: one that connects and says      *)
(* nothing occupies a handler, never the loop that stop waits for.         *)
(***************************************************************************)
BlockEnds == <>(block = "done")
=============================================================================
