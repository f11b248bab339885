------------------------------ MODULE FeedClient ------------------------------
(***************************************************************************)
(* The WebSocket client of market_context/feed/client.py.  Four kinds of   *)
(* threads share it: the feed thread connects and reconnects (feed), the   *)
(* thread of each websocket runs the callbacks of its socket, the watchdog *)
(* looks for a silent feed (watch), and the service thread reconciles the  *)
(* subscriptions with the requests of other containers and stops the       *)
(* client (svc).  Nothing but the register of outages (openGaps) and the   *)
(* requests outlives the process.                                          *)
(***************************************************************************)
EXTENDS Integers, FiniteSets, FiniteSetsExt, Functions

CONSTANTS
    Sockets, NoSocket,
    Plan,           \* <<instrument, mode>> pairs of the static plan
    FirstMode,      \* the mode a streamer is constructed with
    RequestSets,    \* sets of pairs that other containers ask for
    LateOpen,       \* an abandoned handshake may still emit "open"
    GapsMayFail,    \* writes to the register of outages may fail
    MayStop,
    MaxEvents,      \* bound: what the outside world may do in one behaviour
    MaxGaps         \* bound: rows of the register that can be open at once

(* Each instrument is subscribed in one mode.                              *)
OneMode(pairs) == \A p, q \in pairs : p[1] = q[1] => p = q

ASSUME FeedClientAssumption ==
    /\ NoSocket \notin Sockets
    /\ \A pairs \in RequestSets \cup {Plan} : IsFiniteSet(pairs) /\ OneMode(pairs)
    /\ IsFiniteSet(RequestSets)
    /\ {LateOpen, GapsMayFail, MayStop} \subseteq BOOLEAN
    /\ MaxEvents \in Nat /\ MaxGaps \in Nat \ {0}

VARIABLES
    feed,           \* what the feed thread is doing
    state,          \* the published state of the client
    stop,           \* _stop
    force,          \* _force_reconnect
    streamer,       \* _streamer
    opened,         \* _socket_open
    subscribed,     \* _subscribed, as a set of pairs
    sockets,        \* the websockets of the process
    crossed,        \* whether what was meant for another one has reached the current one
    gapId,          \* _gap_id, 0 for None
    openGaps,       \* rows of mc_feed_gaps that have no end
    watch, svc,     \* what the watchdog and the service thread are doing
    requests,       \* the live rows of mc_subscription_requests
    market, wire,   \* the session, and the age of the last tier-1 frame
    events          \* how often the outside world has acted

connection == <<streamer, opened, subscribed, sockets, crossed>>
gaps == <<gapId, openGaps>>
world == <<requests, market, wire, events>>
vars == <<feed, state, stop, force, connection, gaps, watch, svc, world>>

Dead == [net |-> "dead", wanted |-> {}, carries |-> {}, calls |-> {}]
IdleSvc == [pc |-> "idle", send |-> {}, drop |-> {}]

Init ==
    /\ feed = "loop" /\ state = "DISCONNECTED"
    /\ stop = FALSE /\ force = FALSE
    /\ streamer = NoSocket /\ opened = FALSE /\ subscribed = {}
    /\ sockets = [s \in Sockets |-> Dead] /\ crossed = FALSE
    /\ gapId = 0 /\ openGaps = {}
    /\ watch = "check" /\ svc = IdleSvc
    /\ requests \in RequestSets /\ market = TRUE /\ wire = "never" /\ events = 0

-------------------------------------------------------------------------------
(* Subscriptions: sets of <<instrument, mode>>, one pair per instrument.   *)

Keys(pairs) == {p[1] : p \in pairs}
OfMode(pairs, m) == {p \in pairs : p[2] = m}
ModesOf(pairs) == {p[2] : p \in pairs}
Put(old, new) == {p \in old : p[1] \notin Keys(new)} \cup new

(* desired_state: the plan, and the requests it does not carry already.    *)
DesiredState == Plan \cup {p \in requests : p[1] \notin Keys(Plan)}

Alive == {s \in Sockets : sockets[s].net # "dead"}

(* What may become of the sockets when the client disconnects the current  *)
(* one.  The close callback comes later, on the socket's own thread, if it *)
(* comes at all.                                                           *)
AfterDisconnect ==
    IF streamer \notin Alive THEN {sockets}
    ELSE LET late == IF LateOpen /\ sockets[streamer].net = "dialing"
                     THEN {{}, {"open"}} ELSE {{}}
             pending == sockets[streamer].calls \ {"open"}
         IN  {[sockets EXCEPT ![streamer] =
                  [Dead EXCEPT !.calls = pending \cup close \cup open]] :
                 close \in {{}, {"close"}}, open \in late}

DisconnectStreamer ==
    /\ sockets' \in AfterDisconnect
    /\ streamer' = NoSocket /\ subscribed' = {} /\ opened' = FALSE /\ crossed' = FALSE

-------------------------------------------------------------------------------
(* The register of outages.  Opening a gap is a check followed by an       *)
(* INSERT whose id is stored; closing one is an UPDATE followed by the     *)
(* reset of the id.  Every thread does it on its own account.              *)

(* Beyond MaxGaps open rows the newest ones are not told apart.            *)
FreshGap ==
    LET free == (1..MaxGaps) \ openGaps
    IN  IF free = {} THEN MaxGaps ELSE Min(free)

InsertGap ==
    \/ gapId' = FreshGap /\ openGaps' = openGaps \cup {FreshGap}
    \/ GapsMayFail /\ gapId' = 0 /\ UNCHANGED openGaps

UpdateGap ==
    /\ \/ openGaps' = openGaps \ {gapId}
       \/ GapsMayFail /\ UNCHANGED openGaps
    /\ UNCHANGED gapId

(* Mutant: the id of the closed row is kept.                               *)
ResetGapMutant == UNCHANGED gaps

ResetGap == gapId' = 0 /\ UNCHANGED openGaps

-------------------------------------------------------------------------------
(* The feed thread: _run_forever and _connect_once.  How long it waits in  *)
(* a backoff is left out.                                                  *)

At(here) == feed = here

StopLoop ==
    /\ At("loop") /\ stop
    /\ feed' = "done"
    /\ UNCHANGED <<state, stop, force, connection, gaps, watch, svc, world>>

IdleOutsideSession ==
    /\ At("loop") /\ ~stop /\ ~market
    /\ state' = "DISCONNECTED"
    /\ DisconnectStreamer
    /\ UNCHANGED <<feed, stop, force, gaps, watch, svc, world>>

BeginConnect ==
    /\ At("loop") /\ ~stop /\ market
    /\ state' = "CONNECTING" /\ feed' = "authorise"
    /\ UNCHANGED <<stop, force, connection, gaps, watch, svc, world>>

(* No token, nothing to subscribe, no SDK, or an exception on the way.     *)
ConnectFails ==
    /\ At("authorise")
    /\ streamer' = NoSocket /\ feed' = "lost"
    /\ UNCHANGED <<state, stop, force, opened, subscribed, sockets, crossed, gaps, watch, svc, world>>

(* The open callback keeps the desired state of this moment.  A socket is  *)
(* free again when its thread has run all its callbacks, and free ones are *)
(* all alike.                                                              *)
Free == {s \in Sockets : sockets[s] = Dead}

Dial ==
    /\ At("authorise") /\ DesiredState # {} /\ Free # {}
    /\ streamer' = CHOOSE s \in Free : TRUE
    /\ sockets' = [sockets EXCEPT ![streamer'].net = "dialing",
                                  ![streamer'].wanted = DesiredState]
    /\ subscribed' = {} /\ opened' = FALSE /\ crossed' = FALSE
    /\ feed' = "await"
    /\ UNCHANGED <<state, stop, force, gaps, watch, svc, world>>

(* A connection that opened closes the gap, if there is one.               *)
AwaitOpen ==
    /\ At("await")
    /\ feed' = IF ~opened THEN "lost" ELSE IF gapId = 0 THEN "stream" ELSE "endgap"
    /\ UNCHANGED <<state, stop, force, connection, gaps, watch, svc, world>>

(* The id is read again after the resync, which may take a minute; when a  *)
(* stop has closed the gap meanwhile, int(None) raises.                    *)
EndGap ==
    /\ At("endgap")
    /\ IF gapId = 0 THEN feed' = "lost" /\ UNCHANGED gaps
                    ELSE feed' = "resetgap" /\ UpdateGap
    /\ UNCHANGED <<state, stop, force, connection, watch, svc, world>>

ForgetGap ==
    /\ At("resetgap")
    /\ ResetGap
    /\ feed' = "stream"
    /\ UNCHANGED <<state, stop, force, connection, watch, svc, world>>

StartStreaming ==
    /\ At("stream")
    /\ state' = "STREAMING" /\ feed' = "wait"
    /\ UNCHANGED <<stop, force, connection, gaps, watch, svc, world>>

WakeUp ==
    /\ At("wait") /\ force
    /\ force' = FALSE /\ feed' = "lost"
    /\ UNCHANGED <<state, stop, connection, gaps, watch, svc, world>>

(* Mutant: the socket is left to itself.                                   *)
LoseConnectionMutant ==
    /\ At("lost")
    /\ IF stop THEN feed' = "done" ELSE feed' = "gap"
    /\ UNCHANGED connection
    /\ UNCHANGED <<state, stop, force, gaps, watch, svc, world>>

LoseConnection ==
    /\ At("lost")
    /\ IF stop THEN feed' = "done" /\ UNCHANGED connection
               ELSE feed' = "gap" /\ DisconnectStreamer
    /\ UNCHANGED <<state, stop, force, gaps, watch, svc, world>>

CheckGapToOpen ==
    /\ At("gap")
    /\ IF gapId = 0 THEN feed' = "newgap" /\ UNCHANGED state
                    ELSE feed' = "loop" /\ state' = "BACKING_OFF"
    /\ UNCHANGED <<stop, force, connection, gaps, watch, svc, world>>

RecordGap ==
    /\ At("newgap")
    /\ InsertGap
    /\ feed' = "loop" /\ state' = "BACKING_OFF"
    /\ UNCHANGED <<stop, force, connection, watch, svc, world>>

FeedStep ==
    \/ StopLoop \/ IdleOutsideSession \/ BeginConnect \/ ConnectFails \/ Dial
    \/ AwaitOpen \/ EndGap \/ ForgetGap \/ StartStreaming
    \/ WakeUp \/ LoseConnection \/ CheckGapToOpen \/ RecordGap

-------------------------------------------------------------------------------
(* The websocket threads.  The SDK subscribes the keys of the first mode   *)
(* before it emits "open"; what it emits is handled later.                 *)

Happens == events < MaxEvents /\ events' = events + 1

Handshake(s) ==
    /\ sockets[s].net = "dialing"
    /\ sockets' = [sockets EXCEPT
          ![s].net = "open", ![s].calls = @ \cup {"open"},
          ![s].carries = OfMode(sockets[s].wanted, FirstMode)]
    /\ UNCHANGED <<feed, state, stop, force, streamer, opened, subscribed, crossed, gaps,
                   watch, svc, world>>

(* The server closes the connection, or it breaks with an error.           *)
Break(s) ==
    /\ sockets[s].net # "dead"
    /\ Happens
    /\ \E calls \in {{"close"}, {"error", "close"}} :
          sockets' = [sockets EXCEPT
                        ![s] = [Dead EXCEPT !.calls = sockets[s].calls \cup calls]]
    /\ UNCHANGED <<feed, state, stop, force, streamer, opened, subscribed, crossed, gaps,
                   watch, svc, requests, market, wire>>

(* Mutant: a mode whose subscription failed is marked all the same.        *)
OnOpenMutant(s) ==
    /\ "open" \in sockets[s].calls
    /\ LET wanted == sockets[s].wanted
       IN  \E done \in SUBSET (ModesOf(wanted) \ {FirstMode}) :
              LET sent == {p \in wanted : p[2] \in done}
              IN  /\ streamer = s /\ sockets[s].net = "open"
                  /\ sockets' = [sockets EXCEPT ![s].calls = @ \ {"open"},
                                                ![s].wanted = {}, ![s].carries = Put(@, sent)]
                  /\ subscribed' = wanted /\ opened' = TRUE
    /\ UNCHANGED <<feed, state, stop, force, streamer, crossed, gaps, watch, svc, world>>

(* _on_open works on the current streamer, whoever has called it.  Sending *)
(* fails on a socket that is not open, and may fail on one that is.        *)
OnOpen(s) ==
    /\ "open" \in sockets[s].calls
    /\ LET wanted == sockets[s].wanted
           others == ModesOf(wanted) \ {FirstMode}
           usable == streamer # NoSocket /\ sockets[streamer].net = "open"
       IN  \E done \in IF usable THEN SUBSET others ELSE {{}} :
              LET sent == {p \in wanted : p[2] \in done}
              IN  /\ sockets' = [t \in Sockets |->
                        [sockets[t] EXCEPT
                           !.calls = IF t = s THEN @ \ {"open"} ELSE @,
                           !.wanted = IF t = s THEN {} ELSE @,
                           !.carries = IF t = streamer THEN Put(@, sent) ELSE @]]
                  /\ IF streamer = NoSocket THEN UNCHANGED <<opened, subscribed, crossed>>
                     ELSE /\ subscribed' = OfMode(wanted, FirstMode) \cup sent
                          /\ opened' = TRUE /\ crossed' = (crossed \/ s # streamer)
    /\ UNCHANGED <<feed, state, stop, force, streamer, gaps, watch, svc, world>>

(* Mutant: only an error asks for a reconnect.                             *)
OnCloseMutant(s) ==
    /\ "close" \in sockets[s].calls /\ "error" \notin sockets[s].calls
    /\ sockets' = [sockets EXCEPT ![s].calls = @ \ {"close"}]
    /\ UNCHANGED <<feed, state, stop, force, streamer, opened, subscribed, crossed, gaps,
                   watch, svc, world>>

OnError(s) ==
    /\ "error" \in sockets[s].calls
    /\ sockets' = [sockets EXCEPT ![s].calls = @ \ {"error"}]
    /\ force' = TRUE
    /\ UNCHANGED <<feed, state, stop, streamer, opened, subscribed, crossed, gaps,
                   watch, svc, world>>

OnClose(s) ==
    /\ "close" \in sockets[s].calls /\ "error" \notin sockets[s].calls
    /\ sockets' = [sockets EXCEPT ![s].calls = @ \ {"close"}]
    /\ force' = TRUE
    /\ UNCHANGED <<feed, state, stop, streamer, opened, subscribed, crossed, gaps,
                   watch, svc, world>>

SocketStep(s) == Handshake(s) \/ OnOpen(s) \/ OnError(s) \/ OnClose(s)

-------------------------------------------------------------------------------
(* The watchdog.                                                           *)

Stale == wire = "stale"

WatchdogStops ==
    /\ watch = "check" /\ stop
    /\ watch' = "done"
    /\ UNCHANGED <<feed, state, stop, force, connection, gaps, svc, world>>

(* Mutant: the test of the session is the wrong way round.                 *)
WatchdogChecksMutant ==
    /\ watch = "check" /\ ~stop
    /\ state = "STREAMING" /\ ~market /\ Stale
    /\ IF gapId = 0 THEN watch' = "newgap" /\ UNCHANGED force
                    ELSE force' = TRUE /\ UNCHANGED watch
    /\ UNCHANGED <<feed, state, stop, connection, gaps, svc, world>>

WatchdogChecks ==
    /\ watch = "check" /\ ~stop
    /\ state = "STREAMING" /\ market /\ Stale
    /\ IF gapId = 0 THEN watch' = "newgap" /\ UNCHANGED force
                    ELSE force' = TRUE /\ UNCHANGED watch
    /\ UNCHANGED <<feed, state, stop, connection, gaps, svc, world>>

WatchdogForces ==
    /\ watch = "newgap"
    /\ InsertGap
    /\ force' = TRUE
    /\ watch' = "check"
    /\ UNCHANGED <<feed, state, stop, connection, svc, world>>

WatchStep == WatchdogStops \/ WatchdogChecks \/ WatchdogForces

-------------------------------------------------------------------------------
(* The service thread: reconcile on its tick.  The guard is looked at      *)
(* before the requests are read from the database.                         *)

Reconcile ==
    /\ svc.pc = "idle" /\ ~stop
    /\ streamer # NoSocket /\ state = "STREAMING"
    /\ svc' = [svc EXCEPT !.pc = "read"]
    /\ UNCHANGED <<feed, state, stop, force, connection, gaps, watch, world>>

(* The service thread is done with a reconcile that has nothing to send.   *)
Pending(send, drop) ==
    IF send = {} /\ drop = {} THEN IdleSvc ELSE [pc |-> "send", send |-> send, drop |-> drop]

ReadDesired ==
    /\ svc.pc = "read"
    /\ svc' = Pending(DesiredState \ subscribed,
                      {p \in subscribed : p[1] \notin Keys(DesiredState)})
    /\ UNCHANGED <<feed, state, stop, force, connection, gaps, watch, world>>

Usable == streamer # NoSocket /\ sockets[streamer].net = "open"

(* What is sent before the open callback was worked out for an earlier     *)
(* connection, and the callback books what it replays all the same.        *)
Crosses == crossed \/ "open" \in sockets[streamer].calls

(* Sending to the current streamer, if there is one, and the note of what  *)
(* it carries; a reconnect takes longer than the moment between the two.   *)
SendNext ==
    /\ svc.pc = "send" /\ svc.send # {}
    /\ \E m \in ModesOf(svc.send) :
          LET group == OfMode(svc.send, m)
          IN  /\ svc' = Pending(svc.send \ group, svc.drop)
              /\ IF Usable
                 THEN /\ sockets' = [sockets EXCEPT ![streamer].carries = Put(@, group)]
                      /\ subscribed' = Put(subscribed, group) /\ crossed' = Crosses
                 ELSE UNCHANGED <<sockets, subscribed, crossed>>
    /\ UNCHANGED <<feed, state, stop, force, streamer, opened, gaps, watch, world>>

DropStale ==
    /\ svc.pc = "send" /\ svc.send = {}
    /\ svc' = IdleSvc
    /\ IF Usable
       THEN LET kept(pairs) == {p \in pairs : p[1] \notin Keys(svc.drop)}
            IN  /\ sockets' = [sockets EXCEPT ![streamer].carries = kept(@)]
                /\ subscribed' = kept(subscribed) /\ crossed' = Crosses
       ELSE UNCHANGED <<sockets, subscribed, crossed>>
    /\ UNCHANGED <<feed, state, stop, force, streamer, opened, gaps, watch, world>>

(* A subscribe or an unsubscribe that raises is logged and skipped.        *)
SendFails ==
    /\ svc.pc = "send"
    /\ Happens
    /\ IF svc.send = {} THEN svc' = IdleSvc
       ELSE \E m \in ModesOf(svc.send) :
               svc' = Pending(svc.send \ OfMode(svc.send, m), svc.drop)
    /\ UNCHANGED <<feed, state, stop, force, connection, gaps, watch,
                   requests, market, wire>>

(* Mutant: stop() does not wake the feed thread.                           *)
BeginStopMutant ==
    /\ MayStop /\ ~stop /\ svc.pc = "idle"
    /\ Happens
    /\ stop' = TRUE
    /\ svc' = [svc EXCEPT !.pc = "disconnect"]
    /\ UNCHANGED <<feed, state, force, connection, gaps, watch,
                   requests, market, wire>>

(* stop(), called at midnight and at shutdown.                             *)
BeginStop ==
    /\ MayStop /\ ~stop /\ svc.pc = "idle"
    /\ Happens
    /\ stop' = TRUE /\ force' = TRUE
    /\ svc' = [svc EXCEPT !.pc = "disconnect"]
    /\ UNCHANGED <<feed, state, connection, gaps, watch,
                   requests, market, wire>>

Stopped == state' = "STOPPED" /\ svc' = [svc EXCEPT !.pc = "stopped"]

StopDisconnects ==
    /\ svc.pc = "disconnect"
    /\ DisconnectStreamer
    /\ IF gapId = 0 THEN Stopped
                    ELSE svc' = [svc EXCEPT !.pc = "endgap"] /\ UNCHANGED state
    /\ UNCHANGED <<feed, stop, force, gaps, watch, world>>

StopEndsGap ==
    /\ svc.pc = "endgap"
    /\ UpdateGap
    /\ svc' = [svc EXCEPT !.pc = "resetgap"]
    /\ UNCHANGED <<feed, state, stop, force, connection, watch, world>>

StopForgetsGap ==
    /\ svc.pc = "resetgap"
    /\ ResetGap
    /\ Stopped
    /\ UNCHANGED <<feed, stop, force, connection, watch, world>>

SvcStep ==
    \/ Reconcile \/ ReadDesired \/ SendNext \/ DropStale
    \/ StopDisconnects \/ StopEndsGap \/ StopForgetsGap

-------------------------------------------------------------------------------
(* The outside world: frames, silence, the session and the requests.       *)

FrameArrives ==
    /\ wire # "fresh"
    /\ \E s \in Alive : sockets[s].carries # {}
    /\ wire' = "fresh"
    /\ UNCHANGED <<feed, state, stop, force, connection, gaps, watch, svc,
                   requests, market, events>>

FeedFallsSilent ==
    /\ wire = "fresh"
    /\ Happens
    /\ wire' = "stale"
    /\ UNCHANGED <<feed, state, stop, force, connection, gaps, watch, svc,
                   requests, market>>

SessionChanges ==
    /\ Happens
    /\ market' = ~market
    /\ UNCHANGED <<feed, state, stop, force, connection, gaps, watch, svc,
                   requests, wire>>

RequestsChange ==
    /\ requests' \in RequestSets \ {requests}
    /\ IF requests \subseteq requests' THEN UNCHANGED events ELSE Happens
    /\ UNCHANGED <<feed, state, stop, force, connection, gaps, watch, svc,
                   market, wire>>

WorldStep == FrameArrives \/ FeedFallsSilent \/ SessionChanges \/ RequestsChange

Next ==
    \/ FeedStep
    \/ \E s \in Sockets : SocketStep(s) \/ Break(s)
    \/ WatchStep
    \/ SvcStep \/ SendFails \/ BeginStop
    \/ WorldStep

(* The threads run, the websocket library brings every handshake to an end *)
(* and every callback to its thread, and the service comes round to its    *)
(* tick.  The outside world owes nothing, and nobody has to call stop.     *)
Fairness ==
    /\ WF_vars(FeedStep) /\ WF_vars(WatchStep) /\ WF_vars(SvcStep)
    /\ WF_vars(\E s \in Sockets : SocketStep(s))

Spec == Init /\ [][Next]_vars /\ Fairness

-------------------------------------------------------------------------------

TypeOK ==
    /\ feed \in {"loop", "authorise", "await", "endgap", "resetgap", "stream",
                 "wait", "lost", "gap", "newgap", "done"}
    /\ state \in {"DISCONNECTED", "CONNECTING", "STREAMING", "BACKING_OFF", "STOPPED"}
    /\ {stop, force, opened, crossed, market} \subseteq BOOLEAN
    /\ streamer \in Sockets \cup {NoSocket}
    /\ Cardinality(Keys(subscribed)) = Cardinality(subscribed)
    /\ \A s \in Sockets :
          /\ sockets[s].net \in {"dead", "dialing", "open"}
          /\ sockets[s].calls \subseteq {"open", "error", "close"}
          /\ Cardinality(Keys(sockets[s].carries)) = Cardinality(sockets[s].carries)
    /\ openGaps \subseteq 1..MaxGaps /\ gapId \in 0..MaxGaps
    /\ watch \in {"check", "newgap", "done"}
    /\ svc.pc \in {"idle", "read", "send", "disconnect", "endgap", "resetgap",
                   "stopped"}
    /\ wire \in {"never", "fresh", "stale"}
    /\ events \in 0..MaxEvents

(* However often it reconnects, and also while it is being stopped, the    *)
(* client never has a second socket: each connect is preceded by a         *)
(* disconnect of what the last one left behind (client.py:3, "ONLY         *)
(* WebSocket connection").                                                 *)
OneConnection == Cardinality(Alive) <= 1

(* While the client backs off after a loss, the outage has an open row in  *)
(* the register, whichever thread opened it and although every reconnect   *)
(* closes one (client.py:6, "records every outage").                       *)
OutageIsRecorded ==
    state = "BACKING_OFF" /\ ~stop /\ ~GapsMayFail => gapId \in openGaps

(* No wake-up is lost: when the feed thread sleeps on a connection that is *)
(* gone, the event is set or a callback that sets it is still to run       *)
(* (_on_error, _on_close, stop).                                           *)
NoLostWakeUp ==
    At("wait") /\ streamer \notin Alive =>
        \/ force
        \/ streamer # NoSocket /\ sockets[streamer].calls \cap {"error", "close"} # {}

(* A live connection that has stopped delivering during the session is     *)
(* given up (_watchdog, "STALENESS BEATS PING/PONG").                      *)
SilenceEndsTheWait ==
    <>[](Stale /\ market /\ ~stop) => []<>(~At("wait"))

(* Once the connection is stable, everything the plan and the other        *)
(* containers want is carried by it, whatever failed or changed on the way *)
(* (_on_open replays the desired state, reconcile repairs it).  Not so of  *)
(* a connection that was reached by what an overtaken thread meant for the *)
(* one before: the books then differ from it for as long as it lasts.      *)
RequestsAreServed ==
    <>[](state = "STREAMING" /\ ~stop /\ ~crossed) =>
        <>[](streamer # NoSocket /\ DesiredState \subseteq sockets[streamer].carries)

(* Whatever it is doing, the feed thread ends after stop() (_stop is set,  *)
(* then _force_reconnect; _stop is never taken back).                      *)
StopEndsTheLoop == <>[]stop => <>[]At("done")

===============================================================================
