------------------------------- MODULE ChatLink -------------------------------
(***************************************************************************)
(* The connection of the chat screen (chat-screen.ts): Connect, Stop, the  *)
(* status poll and the reconnect timer, against the DarkIRC daemon that    *)
(* chat_start, chat_stop and chat_status drive (commands.rs).              *)
(*                                                                         *)
(* Every call to the host is an await: start() is four segments, stop()    *)
(* two, a poll one question and one answer, and clicks, ticks and timers   *)
(* come in between.  The host's answers arrive in the order it gave them.  *)
(* chat_status, which it answers at once, is one step with what start and  *)
(* stop do with the answer; only a poll's answer can be late.  The daemon  *)
(* is external; "syncing" stands for every phase between the start and     *)
(* "connected", "stopped" also for "not_running".  Two bounds: a screen is *)
(* left only when no call is under way, and a poll that has asked waits.   *)
(***************************************************************************)
EXTENDS Naturals

CONSTANTS
  Calls,        \* runs of start() that can be under way: a bound
  StopFails,    \* whether chat_stop can fail and leave the daemon up
  MaxAttempts,  \* 5 in the code
  None

ASSUME ChatAssumption ==
  /\ MaxAttempts \in Nat \ {0}
  /\ StopFails \in BOOLEAN
  /\ None \notin {"stopped", "syncing", "connected", "failed"}

VARIABLES
  daemon,       \* the phase chat_status would return
  mounted,      \* whether the chat screen is shown
  status,       \* the phase it shows
  poll,         \* whether the status poll is ticking
  answer,       \* the phase a poll was told and has not processed
  wasConnected,
  attempts,     \* reconnectAttempts
  timer,        \* whether the reconnect timer is set
  starting,     \* starting[c]: where this run of start() is
  stopping,     \* where stop() is
  wanted        \* whether Connect was clicked after the last Stop, and that over

vars == <<daemon, mounted, status, poll, answer, wasConnected, attempts, timer,
          starting, stopping, wanted>>
retry == <<wasConnected, attempts, timer>>

Phases == {"stopped", "syncing", "connected", "failed"}
Idle   == {"stopped", "failed"}         \* isIdlePhase
Up     == Phases \ Idle

TypeOK ==
  /\ daemon \in Phases
  /\ status \in Phases \cup {"starting", "stopping"}
  /\ answer \in Phases \cup {None}
  /\ {mounted, poll, wasConnected, timer, wanted} \subseteq BOOLEAN
  /\ attempts \in 0..MaxAttempts
  /\ starting \in [Calls -> {"idle", "retry", "look", "stop", "drain", "start", "started",
                             "refused"}]
  /\ stopping \in {"idle", "stop", "stopped"}

Quiet == answer = None /\ stopping = "idle" /\ \A c \in Calls : starting[c] = "idle"

\* The screen finds the daemon as an earlier visit left it.
Init ==
  /\ daemon \in Phases
  /\ mounted = TRUE /\ status = daemon /\ poll = (daemon \in Up)
  /\ answer = None /\ wasConnected = FALSE /\ attempts = 0 /\ timer = FALSE
  /\ starting = [c \in Calls |-> "idle"] /\ stopping = "idle"
  /\ wanted = TRUE

-----------------------------------------------------------------------------
\* A mutant of ScheduleReconnect: no limit on the attempts.
ScheduleReconnectAlways(n) ==
  IF timer THEN timer' = timer /\ attempts' = n
  ELSE timer' = TRUE /\ attempts' = n + 1

\* scheduleReconnect, with n attempts so far
ScheduleReconnect(n) ==
  IF timer \/ n >= MaxAttempts THEN timer' = timer /\ attempts' = n
  ELSE timer' = TRUE /\ attempts' = n + 1

\* A tick of the poll asks; its answer is processed before any later one.
PollTick ==
  /\ poll /\ answer = None
  /\ answer' = daemon
  /\ UNCHANGED <<daemon, mounted, status, poll, retry, starting, stopping, wanted>>

PollAnswer ==
  /\ answer # None
  /\ answer' = None
  /\ status' = answer
  /\ wasConnected' = (wasConnected \/ answer = "connected")
  /\ IF answer \in Idle /\ wasConnected THEN ScheduleReconnect(attempts)
     ELSE /\ attempts' = IF answer = "connected" THEN 0 ELSE attempts
          /\ UNCHANGED timer
  /\ poll' = (poll /\ answer # "stopped")
  /\ UNCHANGED <<daemon, mounted, starting, stopping, wanted>>

At(c, from, to) == starting[c] = from /\ starting' = [starting EXCEPT ![c] = to]
Resumes(c, from, to) == answer = None /\ At(c, from, to)

\* The user clicks Connect, or Retry: the button is never disabled.
Connect(c) ==
  /\ mounted
  /\ At(c, "idle", "look")
  /\ wanted' = (stopping = "idle")
  /\ UNCHANGED <<daemon, mounted, status, poll, answer, retry, stopping>>

\* The reconnect timer fires: chat_stop, then start().
Reconnect(c) ==
  /\ timer /\ timer' = FALSE
  /\ At(c, "idle", "retry")
  /\ UNCHANGED <<daemon, mounted, status, poll, answer, wasConnected, attempts, stopping, wanted>>

\* chat_stop ends the daemon, or fails; start() and the timer swallow the error.
Ends == daemon' = "stopped" \/ (StopFails /\ UNCHANGED daemon)

ChatStop(c) ==
  /\ \/ Resumes(c, "retry", "look") \/ Resumes(c, "stop", "drain")
  /\ Ends
  /\ UNCHANGED <<mounted, status, poll, answer, retry, stopping, wanted>>

\* start() has read the phase.
Look(c) ==
  /\ Resumes(c, "look", IF daemon = "stopped" THEN "drain" ELSE "stop")
  /\ UNCHANGED <<daemon, mounted, status, poll, answer, retry, stopping, wanted>>

\* awaitDaemonNotRunning returns, with an idle daemon or after its timeout.
Drained(c) ==
  /\ Resumes(c, "drain", "start")
  /\ status' = "starting"
  /\ poll' = TRUE
  /\ UNCHANGED <<daemon, mounted, answer, retry, stopping, wanted>>

\* chat_start returns; a daemon that is not idle refuses.
ChatStart(c) ==
  /\ \/ daemon \in Idle /\ Resumes(c, "start", "started") /\ daemon' = "syncing"
     \/ Resumes(c, "start", "refused") /\ UNCHANGED daemon
     \/ daemon \in Idle /\ Resumes(c, "start", "refused") /\ daemon' = "failed"
  /\ UNCHANGED <<mounted, status, poll, answer, retry, stopping, wanted>>

\* A mutant of Started: the poll, which an old answer may have ended, stays off.
StartedLeavesPoll(c) ==
  /\ Resumes(c, "started", "idle")
  /\ status' = daemon
  /\ UNCHANGED <<daemon, mounted, poll, answer, retry, stopping, wanted>>

Started(c) ==
  /\ Resumes(c, "started", "idle")
  /\ status' = daemon
  /\ poll' = (poll \/ daemon \in Up)
  /\ UNCHANGED <<daemon, mounted, answer, retry, stopping, wanted>>

\* A mutant of Refused: a retry that is refused is the last one.
RefusedGivesUp(c) ==
  /\ Resumes(c, "refused", "idle")
  /\ status' = daemon
  /\ poll' = FALSE
  /\ UNCHANGED <<daemon, mounted, answer, retry, stopping, wanted>>

Refused(c) ==
  /\ Resumes(c, "refused", "idle")
  /\ status' = daemon
  /\ IF wasConnected THEN ScheduleReconnect(attempts) /\ UNCHANGED poll
     ELSE poll' = FALSE /\ UNCHANGED <<attempts, timer>>
  /\ UNCHANGED <<daemon, mounted, answer, wasConnected, stopping, wanted>>

\* The user clicks Stop, at any time.
Stop ==
  /\ mounted /\ stopping = "idle"
  /\ wasConnected' = FALSE /\ attempts' = 0 /\ timer' = FALSE
  /\ status' = "stopping" /\ poll' = TRUE
  /\ stopping' = "stop"
  /\ wanted' = FALSE
  /\ UNCHANGED <<daemon, mounted, answer, starting>>

StopReturns ==
  /\ answer = None
  /\ stopping = "stop" /\ stopping' = "stopped"
  /\ Ends
  /\ UNCHANGED <<mounted, status, poll, answer, retry, starting, wanted>>

\* A mutant of Stopped: the poll ends and nobody reads the last phase.
StoppedUnread ==
  /\ answer = None
  /\ stopping = "stopped" /\ stopping' = "idle"
  /\ poll' = (poll /\ daemon # "stopped")
  /\ UNCHANGED <<daemon, mounted, status, answer, retry, starting, wanted>>

Stopped ==
  /\ answer = None
  /\ stopping = "stopped" /\ stopping' = "idle"
  /\ status' = daemon
  /\ poll' = (poll /\ daemon # "stopped")
  /\ UNCHANGED <<daemon, mounted, answer, retry, starting, wanted>>

\* disconnectedCallback and connectedCallback
Leave ==
  /\ mounted /\ Quiet
  /\ mounted' = FALSE /\ poll' = FALSE /\ timer' = FALSE
  /\ UNCHANGED <<daemon, status, answer, wasConnected, attempts, starting, stopping, wanted>>

Return ==
  /\ ~mounted
  /\ mounted' = TRUE
  /\ status' = daemon /\ poll' = (daemon \in Up)
  /\ wasConnected' = FALSE /\ attempts' = 0
  /\ UNCHANGED <<daemon, answer, timer, starting, stopping, wanted>>

\* The daemon comes up, falls back, fails or ends on its own.
Daemon ==
  /\ daemon \in Up
  /\ daemon' \in Phases \ {daemon}
  /\ UNCHANGED <<mounted, status, poll, answer, retry, starting, stopping, wanted>>

Host(c) == ChatStop(c) \/ Look(c) \/ Drained(c) \/ ChatStart(c) \/ Started(c) \/ Refused(c)
Next ==
  \/ PollTick \/ PollAnswer
  \/ \E c \in Calls : Connect(c) \/ Reconnect(c) \/ Host(c)
  \/ Stop \/ StopReturns \/ Stopped
  \/ Leave \/ Return
  \/ Daemon

\* Intervals tick, timers fire and every call to the host returns.  Where it is
\* strong, it only undoes two simplifications of this module: that an answer which
\* is due first holds back the return of another call, and that Calls holds back a
\* timer.  In the code neither waits for the other.
Fairness ==
  /\ WF_vars(PollTick) /\ WF_vars(PollAnswer)
  /\ SF_vars(\E c \in Calls : Reconnect(c))
  /\ \A c \in Calls : SF_vars(Host(c))
  /\ SF_vars(StopReturns) /\ SF_vars(Stopped)
Spec == Init /\ [][Next]_vars
FairSpec == Spec /\ Fairness

-----------------------------------------------------------------------------
\* While the daemon is up and no call is under way the screen goes on asking, so
\* that it learns of the daemon's end: whatever order start, stop and the answers of
\* earlier polls came in, the last one to set or clear the interval left it right.
PollsWhileUp == mounted /\ Quiet /\ daemon \in Up => poll

\* A reconnect is for a connection that was lost: the chat_stop it begins with does
\* not take down one that is up.
RetrySpares ==
  [][\A c \in Calls : starting[c] = "retry" /\ starting'[c] = "look" => daemon # "connected"]_vars

\* A connection that was up and is lost is tried again, until it is up, the user
\* stops it or leaves, or the attempts are used up (the poll, scheduleReconnect and
\* the catch branch of start together).
LostIsRetried ==
  mounted /\ wanted /\ wasConnected /\ daemon \in Idle
    ~> daemon \in Up \/ ~wanted \/ ~mounted \/ attempts = MaxAttempts

\* The screen does not show a phase for ever that is not the daemon's: "starting" and
\* "stopping" end, and no late answer is the last word.
StatusSettles == []<>(mounted => status = daemon)
=============================================================================
