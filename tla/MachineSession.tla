--------------------------- MODULE MachineSession ---------------------------
(***************************************************************************)
(* The machine connector, `nolo connect --ws`: it keeps a websocket to the *)
(* server (runMachineWsSession in src/machineWsSession.ts, in a loop of    *)
(* src/machineCommands.ts) and executes the runs the server dispatches     *)
(* through it (handleConnectorRunMessage in src/machineWsRunDispatch.ts).  *)
(* A run goes on when its socket closes; what it sends is collected per    *)
(* session and leaves when the handler of a message ends.                  *)
(*                                                                         *)
(* No caller of the command passes an abort signal, so there is none.  The *)
(* three kinds of run differ in what they execute, not in what they send.  *)
(* Progress frames wait in the same list as the results and are left out.  *)
(***************************************************************************)
EXTENDS Naturals, Sequences, FiniteSets

CONSTANTS
  Requests,     \* request ids the server uses, again after it lost a result
  MaxSessions,  \* bound: attempts to connect
  MaxRuns       \* bound: run frames

ASSUME MachineAssumption == {MaxSessions, MaxRuns} \subseteq Nat \ {0}

VARIABLES
  session,    \* attempts begun
  link,       \* where the attempt is
  beating,    \* the heartbeat loop runs
  raced,      \* its promise is in the Promise.race, so that its failure is handled
  verdict,    \* what follows the attempt: "again" or "end"
  runs,       \* the runs so far, in the order of their frames
  controller, \* activeRunAbortControllers: the run registered for a request, else 0
  sent,       \* sentMessages of each session: the runs whose results it holds
  got         \* how often the server got each run's result

linkVars == <<session, link, beating, raced, verdict>>
runVars == <<runs, controller, sent, got>>
machineVars == <<linkVars, runVars>>

Links == {"greeting", "locating", "opening", "open", "settling", "pausing", "ended", "crashed"}

MachineInit ==
  /\ session = 1 /\ link = "greeting" /\ beating = FALSE /\ raced = FALSE
  /\ verdict = "again"
  /\ runs = <<>> /\ controller = [q \in Requests |-> 0]
  /\ sent = [s \in 1..MaxSessions |-> <<>>] /\ got = [r \in 1..MaxRuns |-> 0]

-----------------------------------------------------------------------------
(* The session *)

(* The first heartbeat; then the loop, which beats again at once, starts.   *)
Greet ==
  /\ link = "greeting"
  /\ \/ link' = "locating" /\ beating' = TRUE
     \/ link' = "pausing" /\ UNCHANGED beating
  /\ UNCHANGED <<session, raced, verdict, runVars>>

(* heartbeatAbort.abort() and Promise.allSettled: on to the heartbeat loop, *)
(* which may be sending or asleep, unless it is over.                       *)
WindUp == link' = IF beating THEN "settling" ELSE "pausing"

(* resolveConnectorWebSocketTarget; a rejected key ends the connector.      *)
Locate ==
  /\ link = "locating"
  /\ \/ link' = "opening" /\ raced' = TRUE /\ UNCHANGED verdict
     \/ WindUp /\ verdict' \in {"again", "end"} /\ UNCHANGED raced
  /\ UNCHANGED <<session, beating, runVars>>

SocketOpens ==
  /\ link = "opening" /\ link' = "open"
  /\ UNCHANGED <<session, beating, raced, verdict, runVars>>

(* The socket fails or closes. *)
SocketCloses ==
  /\ link \in {"opening", "open"} /\ WindUp
  /\ UNCHANGED <<session, beating, raced, verdict, runVars>>

(* A heartbeat of the loop is refused, which ends the loop.  In the race    *)
(* that ends the session - which still waits for a socket that nobody       *)
(* closes.  Before the race nobody handles the rejection, and the process   *)
(* ends with it.                                                            *)
BeatFails ==
  /\ beating /\ beating' = FALSE
  /\ link' = CASE ~raced -> "crashed"
               [] raced /\ link = "settling" -> "pausing"
               [] raced /\ link # "settling" -> link
  /\ UNCHANGED <<session, raced, verdict, runVars>>

(* The loop sees its signal once the beat and the sleep under way are over. *)
BeatStops ==
  /\ link = "settling" /\ beating' = FALSE
  /\ link' = IF verdict = "end" THEN "ended" ELSE "pausing"
  /\ UNCHANGED <<session, raced, verdict, runVars>>

(* The reconnect delay is over. *)
Reconnect ==
  /\ link = "pausing" /\ session < MaxSessions
  /\ session' = session + 1 /\ link' = "greeting" /\ raced' = FALSE
  /\ UNCHANGED <<beating, verdict, runVars>>

-----------------------------------------------------------------------------
(* The runs *)

Up == link \notin {"ended", "crashed"}
Running(r) == r \in DOMAIN runs /\ runs[r].outcome = "running"
Mates(s) == {r \in DOMAIN runs : Running(r) /\ runs[r].session = s}

(* A run frame: the controller is registered before any await. *)
Dispatch(q) ==
  /\ link = "open" /\ Len(runs) < MaxRuns
  /\ LET mates == Mates(session)
     IN  runs' = Append([r \in DOMAIN runs |->
                           [runs[r] EXCEPT !.alone = @ /\ r \notin mates]],
                        [request |-> q, session |-> session,
                         startIndex |-> Len(sent[session]), outcome |-> "running",
                         alone |-> mates = {}, cancelled |-> FALSE])
  /\ controller' = [controller EXCEPT ![q] = Len(runs')]
  /\ UNCHANGED <<linkVars, sent, got>>

(* A cancel frame; one for an unknown request is ignored.  Nothing is       *)
(* collected while it is handled, so nothing goes out when that ends.       *)
Cancel(q) ==
  /\ link = "open" /\ controller[q] # 0
  /\ runs' = [runs EXCEPT ![controller[q]].cancelled = TRUE]
  /\ UNCHANGED <<linkVars, controller, sent, got>>

SocketOpen(r) == link = "open" /\ runs[r].session = session

(* What has been received once the messages behind an index are sent.       *)
Flushed(messages, from) ==
  [r \in 1..MaxRuns |->
     got[r] + Cardinality({i \in (from + 1)..Len(messages) : messages[i] = r})]

RunEndsResending(r) ==   \* mutant: sends the list from its start
  /\ Up /\ Running(r)
  /\ LET s == runs[r].session
         messages == Append(sent[s], r)
     IN  /\ sent' = [sent EXCEPT ![s] = messages]
         /\ got' = IF SocketOpen(r) THEN Flushed(messages, 0) ELSE got
  /\ runs' = [runs EXCEPT ![r].outcome = IF SocketOpen(r) THEN "connected" ELSE "cutoff"]
  /\ controller' = [controller EXCEPT ![runs[r].request] = IF @ = r THEN 0 ELSE @]
  /\ UNCHANGED linkVars

RunEndsUnchecked(r) ==   \* mutant: deregisters whoever holds the request id
  /\ Up /\ Running(r)
  /\ LET s == runs[r].session
         messages == Append(sent[s], r)
     IN  /\ sent' = [sent EXCEPT ![s] = messages]
         /\ got' = IF SocketOpen(r) THEN Flushed(messages, runs[r].startIndex) ELSE got
  /\ runs' = [runs EXCEPT ![r].outcome = IF SocketOpen(r) THEN "connected" ELSE "cutoff"]
  /\ controller' = [controller EXCEPT ![runs[r].request] = 0]
  /\ UNCHANGED linkVars

(* The run ends, in a result or an error: either is a result frame.  It     *)
(* takes back its own controller, and then everything its session collected *)
(* since its frame came goes out, if the socket is still open.              *)
RunEnds(r) ==
  /\ Up /\ Running(r)
  /\ LET s == runs[r].session
         messages == Append(sent[s], r)
     IN  /\ sent' = [sent EXCEPT ![s] = messages]
         /\ got' = IF SocketOpen(r) THEN Flushed(messages, runs[r].startIndex) ELSE got
  /\ runs' = [runs EXCEPT ![r].outcome = IF SocketOpen(r) THEN "connected" ELSE "cutoff"]
  /\ controller' = [controller EXCEPT ![runs[r].request] = IF @ = r THEN 0 ELSE @]
  /\ UNCHANGED linkVars

-----------------------------------------------------------------------------
MachineNext ==
  \/ Greet \/ Locate \/ SocketOpens \/ SocketCloses \/ BeatFails \/ BeatStops \/ Reconnect
  \/ \E q \in Requests : Dispatch(q) \/ Cancel(q)
  \/ \E r \in DOMAIN runs : RunEnds(r)

MachineSpec == MachineInit /\ [][MachineNext]_machineVars

-----------------------------------------------------------------------------
(* Properties *)

Run == [request : Requests, session : 1..MaxSessions, startIndex : Nat,
        outcome : {"running", "connected", "cutoff"}, alone : BOOLEAN, cancelled : BOOLEAN]

(* Every variable has its type. *)
MachineTypeOK ==
  /\ session \in 1..MaxSessions /\ link \in Links
  /\ {beating, raced} \subseteq BOOLEAN /\ verdict \in {"again", "end"}
  /\ runs \in Seq(Run) /\ controller \in [Requests -> 0..Len(runs)]
  /\ sent \in [1..MaxSessions -> Seq(1..Len(runs))]
  /\ got \in [1..MaxRuns -> Nat]

(* The server gets the result of a run if and only if the socket the run    *)
(* came through is still open when it ends, whatever other runs have sent   *)
(* meanwhile; and gets it once if no other run of the session was under way *)
(* beside it.                                                               *)
ResultsArrive ==
  \A r \in DOMAIN runs :
    /\ runs[r].outcome = "connected" <=> got[r] > 0
    /\ runs[r].alone => got[r] <= 1

(* "a later run reusing the same requestId is never accidentally            *)
(* deregistered" (comment on activeRunAbortControllers): while the run last *)
(* dispatched under an id is executing, a cancel frame for the id finds it, *)
(* also when an earlier one, of a session now lost, ends meanwhile.         *)
LatestIsCancellable ==
  \A r \in DOMAIN runs :
    Running(r) /\ (\A later \in (r + 1)..Len(runs) : runs[later].request # runs[r].request)
      => controller[runs[r].request] = r
=============================================================================
