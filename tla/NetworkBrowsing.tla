--------------------------- MODULE NetworkBrowsing ---------------------------
(***************************************************************************)
(* Finding servers on the network: MountServerActivity starts a            *)
(* LoadServersTask when it is created.  The task asks the master browser   *)
(* for servers and, when there are none, every interface by broadcast;     *)
(* then it lists the shares of each server.                                *)
(*                                                                         *)
(* Broadcasts are datagrams on sockets of their own, answers to which may  *)
(* be lost, doubled and late, so that they arrive at a port that another   *)
(* socket has by then.  Each query has a number to tell them apart.        *)
(***************************************************************************)
EXTENDS Naturals, FiniteSets

CONSTANTS
  Activities, \* the instances of MountServerActivity
  InterfaceCount, \* number of broadcast addresses
  Ports,      \* that sockets are given
  Servers,
  None        \* no activity, no port

ASSUME NetworkBrowsingAssumption ==
  /\ InterfaceCount \in Nat
  /\ IsFiniteSet(Servers)
  /\ None \notin Activities

VARIABLES
  screen,     \* what the activities show
  listed,     \* the servers that they list
  scanning,   \* the activity whose LoadServersTask is in TaskManager
  task,       \* where the tasks are
  found,      \* the servers of each task
  toList,     \* those whose shares it has yet to list
  socket,     \* the sockets: state and port
  heard,      \* the servers in the answers that a socket has received
  answers,    \* datagrams under way
  answered,   \* who has answered a query (never read by an action but Answer)
  arrived,    \* whose answers have reached the query's socket (never read)
  crash       \* what uncaught exception has killed the process

browsingVars == <<screen, listed, scanning, task, found, toList, socket, heard,
          answers, answered, arrived, crash>>

network == <<socket, heard, answers, answered, arrived>>

\* Broadcast addresses, in the order that they are asked in
Interfaces == 1..InterfaceCount

Queries == Activities \X Interfaces

\* mTransId++ for each query of a NetworkBrowser; each activity makes a new one
TransId(q) == q[2]

Free(p) == \A q \in Queries : socket[q] # [state |-> "listening", port |-> p]

Goto(a, pc) == task' = [task EXCEPT ![a] = pc]

-----------------------------------------------------------------------------
BrowsingInit ==
  /\ screen = [a \in Activities |-> "none"]
  /\ listed = [a \in Activities |-> {}]
  /\ scanning = None
  /\ task = [a \in Activities |-> "none"]
  /\ found = [a \in Activities |-> {}]
  /\ toList = [a \in Activities |-> {}]
  /\ socket = [q \in Queries |-> [state |-> "none", port |-> None]]
  /\ heard = [q \in Queries |-> {}]
  /\ answers = {}
  /\ answered = [q \in Queries |-> {}]
  /\ arrived = [q \in Queries |-> {}]
  /\ crash = "none"

\* TaskManager takes another task.
NoScan == scanning = None \/ task[scanning] = "done"

\* onCreate, startBrowsing, TaskManager.runTask
Create(a) ==
  /\ screen[a] = "none"
  /\ screen' = [screen EXCEPT ![a] = "loading"]
  /\ scanning' = IF NoScan THEN a ELSE scanning
  /\ Goto(a, IF NoScan THEN "master" ELSE "ignored")
  /\ UNCHANGED <<listed, found, toList, network, crash>>

\* The activity is closed, or created anew after a rotation; its task goes on.
Leave(a) ==
  /\ screen[a] \in {"loading", "loaded"}
  /\ screen' = [screen EXCEPT ![a] = "left"]
  /\ UNCHANGED <<listed, scanning, task, found, toList, network, crash>>

-----------------------------------------------------------------------------
(* The task *)

\* MasterBrowsingProvider: an IOException, and an empty list, lead to broadcast.
AskMaster(a) ==
  /\ task[a] = "master"
  /\ \E names \in SUBSET Servers :
       /\ found' = [found EXCEPT ![a] = names]
       /\ toList' = [toList EXCEPT ![a] = names]
       /\ Goto(a, IF names = {} THEN "broadcast" ELSE "shares")
  /\ UNCHANGED <<screen, listed, scanning, network, crash>>

\* A directory of the master browser, or a server, denies access:
\* AuthFailedException is no IOException and not caught.
DenyAccess(a) ==
  /\ task[a] \in {"master", "shares"}
  /\ crash' = "refused"
  /\ UNCHANGED <<screen, listed, scanning, task, found, toList, network>>

\* BroadcastBrowsingProvider.getServers submits a query for each interface.
Submit(a) ==
  /\ task[a] = "broadcast"
  /\ \A i \in Interfaces : socket[<<a, i>>].state = "none"
  /\ socket' = [q \in Queries |->
                  IF q[1] = a THEN [socket[q] EXCEPT !.state = "submitted"] ELSE socket[q]]
  /\ Goto(a, "collect")
  /\ UNCHANGED <<screen, listed, scanning, found, toList, heard, answers,
                 answered, arrived, crash>>

\* future.get of all in turn
Collect(a) ==
  /\ task[a] = "collect"
  /\ \A i \in Interfaces : socket[<<a, i>>].state = "closed"
  /\ found' = [found EXCEPT ![a] = UNION {heard[<<a, i>>] : i \in Interfaces}]
  /\ toList' = [toList EXCEPT ![a] = found'[a]]
  /\ Goto(a, "shares")
  /\ UNCHANGED <<screen, listed, scanning, network, crash>>

\* ExecutionException of the first future that failed, or SocketException from
\* getBroadcastAddress: a BrowsingException
BroadcastFails(a) ==
  /\ \/ task[a] = "broadcast"
     \/ /\ task[a] = "collect"
        /\ \E i \in Interfaces :
             /\ socket[<<a, i>>].state = "failed"
             /\ \A j \in 1..(i - 1) : socket[<<a, j>>].state = "closed"
  /\ Goto(a, "failed")
  /\ UNCHANGED <<screen, listed, scanning, found, toList, network, crash>>

\* An altered ListShares: a server that has failed is tried again.
ListSharesRetry(a) ==
  /\ task[a] = "shares"
  /\ \E s \in toList[a] :
       \/ UNCHANGED toList /\ found' = [found EXCEPT ![a] = @ \ {s}]
       \/ UNCHANGED found /\ toList' = [toList EXCEPT ![a] = @ \ {s}]
  /\ UNCHANGED <<screen, listed, scanning, task, network, crash>>

\* getSharesForServer; a server that fails with an IOException is left out
ListShares(a) ==
  /\ task[a] = "shares"
  /\ \E s \in toList[a] :
       /\ toList' = [toList EXCEPT ![a] = @ \ {s}]
       /\ \/ UNCHANGED found
          \/ found' = [found EXCEPT ![a] = @ \ {s}]
  /\ UNCHANGED <<screen, listed, scanning, task, network, crash>>

SharesEnd(a) ==
  /\ task[a] = "shares"
  /\ toList[a] = {}
  /\ Goto(a, "posted")
  /\ UNCHANGED <<screen, listed, scanning, found, toList, network, crash>>

\* onPostExecute and mBrowsingCallback: the adapter is given the servers.
Succeeded(a) ==
  /\ task[a] = "posted"
  /\ listed' = [listed EXCEPT ![a] = found[a]]
  /\ screen' = [screen EXCEPT ![a] = IF @ = "loading" THEN "loaded" ELSE @]
  /\ Goto(a, "done")
  /\ UNCHANGED <<scanning, found, toList, network, crash>>

\* mBrowsingCallback does not ask for the status: result.keySet() of null
Failed(a) ==
  /\ task[a] = "failed"
  /\ crash' = "result"
  /\ UNCHANGED <<screen, listed, scanning, task, found, toList, network>>

-----------------------------------------------------------------------------
(* The queries, each in a thread of its own *)

browser == <<screen, listed, scanning, task, found, toList>>

\* The socket is opened, and the query sent.
Send(q) ==
  /\ socket[q].state = "submitted"
  /\ \E p \in Ports :
       /\ Free(p)
       /\ socket' = [socket EXCEPT ![q] = [state |-> "listening", port |-> p]]
  /\ UNCHANGED <<browser, heard, answers, answered, arrived, crash>>

\* IOException: from socket.send or socket.receive
SocketFails(q) ==
  /\ socket[q].state \in {"submitted", "listening"}
  /\ socket' = [socket EXCEPT ![q].state = "failed"]
  /\ UNCHANGED <<browser, heard, answers, answered, arrived, crash>>

\* A server answers, once, with a list of names or with what has none.
Answer(q, s) ==
  /\ socket[q].port # None
  /\ s \notin answered[q]
  /\ \E sound \in BOOLEAN :
       answers' = answers \cup
         {[port |-> socket[q].port, id |-> TransId(q), query |-> q, server |-> s, sound |-> sound]}
  /\ answered' = [answered EXCEPT ![q] = @ \cup {s}]
  /\ UNCHANGED <<browser, socket, heard, arrived, crash>>

Lose ==
  /\ \E m \in answers : answers' = answers \ {m}
  /\ UNCHANGED <<browser, socket, heard, answered, arrived, crash>>

\* An altered Ours: does not look at the number.
OursAny(q, m) == TRUE

\* extractServers: the answer has the number of the query.
Ours(q, m) == m.id = TransId(q)

\* An altered Receive: what cannot be parsed ends the query.
ReceiveUnlessUnsound(q, m) ==
  /\ socket[q] = [state |-> "listening", port |-> m.port]
  /\ \/ UNCHANGED answers
     \/ answers' = answers \ {m}
  /\ heard' = [heard EXCEPT ![q] = IF ~m.sound THEN {}
                                   ELSE IF Ours(q, m) THEN @ \cup {m.server} ELSE @]
  /\ arrived' = [arrived EXCEPT ![q] = IF m.sound /\ m.query = q THEN @ \cup {m.server} ELSE @]
  /\ UNCHANGED <<browser, socket, answered, crash>>

\* socket.receive of an answer that may come again
Receive(q, m) ==
  /\ socket[q] = [state |-> "listening", port |-> m.port]
  /\ \/ UNCHANGED answers
     \/ answers' = answers \ {m}
  /\ heard' = [heard EXCEPT ![q] = IF m.sound /\ Ours(q, m) THEN @ \cup {m.server} ELSE @]
  /\ arrived' = [arrived EXCEPT ![q] = IF m.sound /\ m.query = q THEN @ \cup {m.server} ELSE @]
  /\ UNCHANGED <<browser, socket, answered, crash>>

\* An altered Timeout: waits until somebody has answered.
TimeoutWhenHeard(q) ==
  /\ socket[q].state = "listening"
  /\ heard[q] # {}
  /\ socket' = [socket EXCEPT ![q].state = "closed"]
  /\ UNCHANGED <<browser, heard, answers, answered, arrived, crash>>

\* SocketTimeoutException: nothing came for three seconds.
Timeout(q) ==
  /\ socket[q].state = "listening"
  /\ socket' = [socket EXCEPT ![q].state = "closed"]
  /\ UNCHANGED <<browser, heard, answers, answered, arrived, crash>>

-----------------------------------------------------------------------------
TaskStep(a) ==
  \/ AskMaster(a) \/ Submit(a) \/ Collect(a) \/ BroadcastFails(a)
  \/ ListShares(a) \/ SharesEnd(a) \/ Succeeded(a) \/ Failed(a)

QueryStep(q) == Send(q) \/ Timeout(q)

BrowsingNext ==
  /\ crash = "none"
  /\ \/ \E a \in Activities : Create(a) \/ Leave(a) \/ TaskStep(a) \/ DenyAccess(a)
     \/ \E q \in Queries :
          \/ QueryStep(q) \/ SocketFails(q)
          \/ \E s \in Servers : Answer(q, s)
          \/ \E m \in answers : Receive(q, m)
     \/ Lose

BrowsingSpec == BrowsingInit /\ [][BrowsingNext]_browsingVars

\* Threads run, the master browser and servers answer or fail, and the network
\* is quiet at last.
BrowsingFairSpec ==
  /\ BrowsingSpec
  /\ \A a \in Activities : WF_browsingVars(crash = "none" /\ TaskStep(a))
  /\ \A q \in Queries : WF_browsingVars(crash = "none" /\ QueryStep(q))

-----------------------------------------------------------------------------
Message == [port : Ports, id : Interfaces, query : Queries, server : Servers, sound : BOOLEAN]

BrowsingTypeOK ==
  /\ screen \in [Activities -> {"none", "loading", "loaded", "left"}]
  /\ listed \in [Activities -> SUBSET Servers]
  /\ scanning \in Activities \cup {None}
  /\ task \in [Activities -> {"none", "ignored", "master", "broadcast", "collect",
                              "shares", "failed", "posted", "done"}]
  /\ found \in [Activities -> SUBSET Servers]
  /\ toList \in [Activities -> SUBSET Servers]
  /\ \A a \in Activities : toList[a] \subseteq found[a]
  /\ socket \in [Queries -> [state : {"none", "submitted", "listening", "closed", "failed"},
                             port : Ports \cup {None}]]
  /\ heard \in [Queries -> SUBSET Servers]
  /\ answers \subseteq Message
  /\ answered \in [Queries -> SUBSET Servers]
  /\ arrived \in [Queries -> SUBSET Servers]
  /\ crash \in {"none", "refused", "result"}

(***************************************************************************)
(* What a query takes for an answer is an answer to it: late ones and      *)
(* those to other queries are told apart by number ("This response is not  *)
(* to our broadcast.", BroadcastUtils.java:101).  It holds for the queries *)
(* of one activity; the next one starts to number anew, and it fails.      *)
(***************************************************************************)
OnlyOurAnswers == \A q \in Queries : heard[q] \subseteq answered[q]

(***************************************************************************)
(* No server that has answered in time, on any interface, is forgotten     *)
(* before its shares are listed (listenForServers, getServers).            *)
(***************************************************************************)
AnswersCollected ==
  [][\A a \in Activities : task[a] = "collect" /\ task'[a] = "shares" =>
       \A i \in Interfaces : arrived[<<a, i>>] \subseteq found'[a]]_browsingVars

(***************************************************************************)
(* A scan comes to an end, and so do its sockets, also those of other      *)
(* interfaces when one has failed (GetServersForInterfaceTask.call).       *)
(***************************************************************************)
ScansEnd ==
  /\ \A a \in Activities : task[a] = "master" ~> task[a] = "done" \/ crash # "none"
  /\ \A q \in Queries : socket[q].state = "submitted" ~>
       socket[q].state \in {"closed", "failed"} \/ crash # "none"

(***************************************************************************)
(* Expectations that the code does not meet; no run checks them.           *)
(***************************************************************************)

(***************************************************************************)
(* A server whose shares cannot be listed is left out: "Failed to load     *)
(* shares for server" (NetworkBrowser.java:79).                            *)
(***************************************************************************)
RefusalsAreSkipped == crash # "refused"

(***************************************************************************)
(* The activity can be told that browsing failed, with a null result as    *)
(* OnTaskFinishedCallback.java:35 declares it.                             *)
(***************************************************************************)
FailuresAreHandled == crash # "result"

(***************************************************************************)
(* An activity that stays gets its list, "Asynchronously get available     *)
(* servers and shares under them." (NetworkBrowser.java:59).               *)
(***************************************************************************)
LoadingEnds ==
  \A a \in Activities : screen[a] = "loading" ~> screen[a] # "loading" \/ crash # "none"
=============================================================================
