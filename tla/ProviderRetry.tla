--------------------------- MODULE ProviderRetry ---------------------------
(***************************************************************************)
(* One provider.complete() of the local loop and the two retry layers      *)
(* around it: fetchWithTransientRetry (src/client/localRuntimeFetchRetry)  *)
(* repeats the HTTP exchange up to the response headers, and               *)
(* withProviderStreamRetry (src/client/providerStreamRetry) the whole      *)
(* completion when its stream dies.  Which layers apply depends on the     *)
(* transport: localRuntimeAdapter.ts leaves the stream retry off the       *)
(* platform's chat proxy, whose POST must not be replayed.                 *)
(*                                                                         *)
(* Delays are kept as the state "sleeping"; how long they are is not, nor  *)
(* is the text that was streamed and the marker between two tries of it.   *)
(***************************************************************************)
EXTENDS Naturals

CONSTANTS
  MaxAttempts,    \* TRANSIENT_FETCH_MAX_ATTEMPTS
  DrainAttempts   \* CORE_DRAINING_MAX_ATTEMPTS

ASSUME RetryAssumption ==
  /\ MaxAttempts \in Nat \ {0} /\ DrainAttempts \in Nat \ {0}

(* platform: the chat proxy; direct: an OpenAI-compatible or OAuth endpoint, *)
(* loopback: one on this machine; antigravity: the transport that hands the  *)
(* abort signal on; cursor: runs tools in its stream, without this fetch.    *)
Transports == {"platform", "direct", "loopback", "antigravity", "cursor"}
MaxTries == 2    \* PROVIDER_STREAM_RETRY_MAX_ATTEMPTS

VARIABLES
  transport,
  phase,      \* of the call
  tries,      \* provider.complete attempts begun
  attempt,    \* fetch attempts of this try
  heard,      \* what the exchanges of this try came to, by kind
  stopped,    \* the turn's abort signal
  sawTool,    \* sawToolEvent
  processed   \* requests the upstream may have acted on

retryVars == <<transport, phase, tries, attempt, heard, stopped, sawTool, processed>>

Phases == {"sending", "sleeping", "streaming", "answered", "failed"}
Kinds == {"draining", "busy", "lost"}
HeardNothing == [k \in Kinds |-> 0]
Heard(k) == [heard EXCEPT ![k] = @ + 1]

Larger(a, b) == IF a > b THEN a ELSE b
LoopMaxAttempts == Larger(MaxAttempts, DrainAttempts)

(* The signal reaches the fetch, so that an abort ends it. *)
Signalled == transport = "antigravity" /\ stopped

RetryInit ==
  /\ transport \in Transports
  /\ phase = "sending" /\ tries = 1 /\ attempt = 1 /\ heard = HeardNothing
  /\ stopped = FALSE /\ sawTool = FALSE /\ processed = 0

-----------------------------------------------------------------------------
RegeneratesAnywhere(transient) ==   \* mutant: for the platform too
  ~stopped /\ tries < MaxTries /\ transient /\ ~sawTool

RegeneratesAfterTool(transient) ==   \* mutant: tool events do not count
  transport # "platform" /\ ~stopped /\ tries < MaxTries /\ transient

(* The catch branch of withProviderStreamRetry: the completion threw an     *)
(* error, which looks transient or not.  Without it the call has failed.    *)
Regenerates(transient) ==
  /\ transport # "platform"
  /\ ~stopped /\ tries < MaxTries /\ transient /\ ~sawTool

Throw(transient, h) ==
  IF Regenerates(transient)
  THEN /\ tries' = tries + 1 /\ attempt' = 1 /\ heard' = HeardNothing
       /\ phase' = "sending"
  ELSE phase' = "failed" /\ heard' = h /\ UNCHANGED <<tries, attempt>>

(* Another fetch attempt, after a delay or at once. *)
Retry(next, h) == phase' = next /\ heard' = h /\ UNCHANGED tries

-----------------------------------------------------------------------------
(* The exchange *)

(* A response other than a retryable one: its body will be read. *)
RespondOk ==
  /\ phase = "sending" /\ ~Signalled
  /\ phase' = "streaming" /\ processed' = processed + 1
  /\ UNCHANGED <<transport, tries, attempt, heard, stopped, sawTool>>

BudgetGeneral(kind) == MaxAttempts   \* mutant: drains have no budget of their own

Budget(kind) == IF kind = "draining" THEN DrainAttempts ELSE MaxAttempts

(* A response of a retryable status.  A loopback endpoint's is returned as  *)
(* it is, and shouldRetryPlatformProxyResponse waits for drains only.  What *)
(* is returned makes the provider throw; the text of an ordinary one may    *)
(* look transient ("... timeout"), that of a drain does not.  Upstreams     *)
(* answer so before they act; only a gateway before the platform may not.   *)
RespondRetryable(kind) ==
  /\ phase = "sending" /\ ~Signalled /\ transport # "cursor"
  /\ IF /\ transport # "loopback"
        /\ transport = "platform" => kind = "draining"
        /\ attempt < Budget(kind)
     THEN Retry("sleeping", Heard(kind)) /\ UNCHANGED attempt
     ELSE \E transient \in BOOLEAN :
            (transient => kind # "draining") /\ Throw(transient, Heard(kind))
  /\ processed' = IF kind = "busy" /\ transport = "platform"
                  THEN processed + 1 ELSE processed
  /\ UNCHANGED <<transport, stopped, sawTool>>

(* The connection fails.  Whether the upstream got the request is unknown.  *)
(* The general budget decides whether to wait before the next attempt, the  *)
(* bound of the loop whether there is one.                                  *)
NetworkFails ==
  /\ phase = "sending" /\ ~Signalled
  /\ processed' = processed + 1
  /\ IF transport \in {"platform", "cursor"} \/ attempt >= LoopMaxAttempts
     THEN Throw(TRUE, Heard("lost"))
     ELSE IF attempt < MaxAttempts
     THEN Retry("sleeping", Heard("lost")) /\ UNCHANGED attempt
     ELSE Retry("sending", Heard("lost")) /\ attempt' = attempt + 1
  /\ UNCHANGED <<transport, stopped, sawTool>>

Wake ==
  /\ phase = "sleeping"
  /\ phase' = "sending" /\ attempt' = attempt + 1
  /\ UNCHANGED <<transport, tries, heard, stopped, sawTool, processed>>

(* A fetch whose signal is stopped rejects. *)
FetchAborts ==
  /\ phase = "sending" /\ Signalled
  /\ Throw(TRUE, heard)
  /\ UNCHANGED <<transport, stopped, sawTool, processed>>

(* The exchange ends in an error that is not worth repeating. *)
ProviderRefuses ==
  /\ phase = "sending"
  /\ Throw(FALSE, heard)
  /\ UNCHANGED <<transport, stopped, sawTool, processed>>

-----------------------------------------------------------------------------
(* The stream *)

ToolEvent ==
  /\ phase = "streaming" /\ transport = "cursor"
  /\ sawTool' = TRUE
  /\ UNCHANGED <<transport, phase, tries, attempt, heard, stopped, processed>>

StreamEnds ==
  /\ phase = "streaming"
  /\ phase' = "answered"
  /\ UNCHANGED <<transport, tries, attempt, heard, stopped, sawTool, processed>>

StreamDies ==
  /\ phase = "streaming"
  /\ \E transient \in BOOLEAN : Throw(transient, heard)
  /\ UNCHANGED <<transport, stopped, sawTool, processed>>

(* The user stops the turn; the loop no longer waits for the call. *)
Stop ==
  /\ phase \in {"sending", "sleeping", "streaming"} /\ ~stopped
  /\ stopped' = TRUE
  /\ UNCHANGED <<transport, phase, tries, attempt, heard, sawTool, processed>>

RetryNext ==
  \/ RespondOk \/ RespondRetryable("draining") \/ RespondRetryable("busy")
  \/ NetworkFails \/ Wake \/ FetchAborts \/ ProviderRefuses
  \/ ToolEvent \/ StreamEnds \/ StreamDies \/ Stop

RetrySpec == RetryInit /\ [][RetryNext]_retryVars

-----------------------------------------------------------------------------
(* Properties *)

(* Every variable has its type and the attempts stay within the loop. *)
RetryTypeOK ==
  /\ transport \in Transports /\ phase \in Phases
  /\ tries \in 1..MaxTries /\ attempt \in 1..LoopMaxAttempts
  /\ heard \in [Kinds -> 0..LoopMaxAttempts]
  /\ {stopped, sawTool} \subseteq BOOLEAN
  /\ processed \in Nat

(* The platform's chat POST is acted on at most once: neither layer repeats *)
(* a request that may have been accepted, whatever was drained before it.   *)
PlatformSentOnce == transport = "platform" => processed <= 1

(* A tool a provider ran in its stream is not run again: nothing is sent    *)
(* once a tool event was seen, in whichever try that was.                   *)
ToolsRunOnce == sawTool => phase \in {"streaming", "answered", "failed"}

(* A drain is waited out: a call that has met nothing but drains gives up   *)
(* only at the DrainAttempts-th.  (A loopback endpoint has no such wait.)   *)
DrainWaitedOut ==
  [][/\ phase' = "failed" /\ transport # "loopback"
     /\ heard'.draining > heard.draining
     /\ heard'.busy = 0 /\ heard'.lost = 0
     => heard'.draining = DrainAttempts]_retryVars

(* "Ordinary 429/503 and network errors keep TRANSIENT_FETCH_MAX_ATTEMPTS"  *)
(* (comment on CORE_DRAINING_MAX_ATTEMPTS): one exchange does not meet more *)
(* network errors than that.                                                *)
NetworkErrorsStayInBudget == heard.lost <= MaxAttempts
=============================================================================
