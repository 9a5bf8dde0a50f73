---------------------------- MODULE ChatLinkProofs ----------------------------
(***************************************************************************)
(* Proofs about ChatLink for one run of start() at a time, a chat_stop     *)
(* that does not fail, and any number of reconnect attempts.               *)
(***************************************************************************)
EXTENDS ChatLink, TLAPS

OneStart == (\A c, d \in Calls : c = d) /\ StopFails = FALSE

\* A poll told that the daemon is gone is right until it has processed that.
AnswerIsTrue == answer = "stopped" => daemon = "stopped"

\* start() calls chat_start on a daemon that is down, and if it is refused leaves
\* none that runs.
StartsStopped ==
  \A c \in Calls : /\ starting[c] \in {"drain", "start"} => daemon = "stopped"
                   /\ starting[c] = "refused" => daemon \in Idle

\* Only between chat_start's return and the end of start() may a daemon run unpolled.
PollsUnlessStarted ==
  mounted /\ daemon \in Up /\ (\A c \in Calls : starting[c] # "started") => poll

IInv == TypeOK /\ AnswerIsTrue /\ StartsStopped /\ PollsUnlessStarted
-----------------------------------------------------------------------------
Flags ==
  /\ mounted \in BOOLEAN /\ poll \in BOOLEAN /\ wasConnected \in BOOLEAN
  /\ timer \in BOOLEAN /\ wanted \in BOOLEAN
Fields ==
  /\ daemon \in Phases
  /\ status \in Phases \cup {"starting", "stopping"}
  /\ answer \in Phases \cup {None}
  /\ attempts \in 0..MaxAttempts
  /\ starting \in [Calls -> {"idle", "retry", "look", "stop", "drain", "start", "started",
                             "refused"}]
  /\ stopping \in {"idle", "stop", "stopped"}

LEMMA TypeParts == (TypeOK <=> Flags /\ Fields) /\ (Flags' /\ Fields' => TypeOK')
<1>1. {mounted, poll, wasConnected, timer, wanted} \subseteq BOOLEAN <=> Flags
  BY DEF Flags
<1>2. Flags' => {mounted', poll', wasConnected', timer', wanted'} \subseteq BOOLEAN
  BY DEF Flags
<1>. QED
  BY <1>1, <1>2, Zenon DEF TypeOK, Fields

\* scheduleReconnect keeps within the limit.
LEMMA ReconnectBounded ==
  ASSUME NEW n \in 0..MaxAttempts, ScheduleReconnect(n)
  PROVE  attempts' \in 0..MaxAttempts
BY ChatAssumption DEF ScheduleReconnect

LEMMA InitInv == Init => IInv
<1>. SUFFICES ASSUME Init
              PROVE  IInv
  OBVIOUS
<1>1. Flags
  <2>1. (daemon \in Up) \in BOOLEAN
    OBVIOUS
  <2>. QED
    BY <2>1, Zenon DEF Init, Flags
<1>2. Fields
  BY ChatAssumption DEF Init, Fields, Phases
<1>3. AnswerIsTrue /\ StartsStopped /\ PollsUnlessStarted
  BY ChatAssumption DEF Init, AnswerIsTrue, StartsStopped, PollsUnlessStarted
<1>. QED
  BY <1>1, <1>2, <1>3, TypeParts DEF IInv

LEMMA StepFlags ==
  ASSUME Flags, [Next]_vars
  PROVE  Flags'
<1>. USE DEF Flags
<1>1. CASE PollTick \/ PollAnswer
  <2>1. PollAnswer => ScheduleReconnect(attempts) \/ UNCHANGED timer
    BY DEF PollAnswer
  <2>2. PollAnswer => timer' \in BOOLEAN
    BY <2>1, Zenon DEF ScheduleReconnect
  <2>. QED
    BY <1>1, <2>2, Zenon DEF PollTick, PollAnswer, retry
<1>2. ASSUME NEW c \in Calls, Connect(c) \/ Reconnect(c) \/ ChatStop(c) \/ Look(c)
      PROVE  Flags'
  BY <1>2, Zenon DEF Connect, Reconnect, ChatStop, Look, retry
<1>3. ASSUME NEW c \in Calls, Drained(c) \/ ChatStart(c) \/ Started(c)
      PROVE  Flags'
  BY <1>3, Zenon DEF Drained, ChatStart, Started, retry
<1>4. ASSUME NEW c \in Calls, Refused(c)
      PROVE  Flags'
  <2>1. ScheduleReconnect(attempts) \/ UNCHANGED timer
    BY <1>4 DEF Refused
  <2>2. timer' \in BOOLEAN
    BY <2>1, Zenon DEF ScheduleReconnect
  <2>. QED
    BY <1>4, <2>2, Zenon DEF Refused
<1>5. CASE Stop \/ StopReturns \/ Stopped
  BY <1>5, Zenon DEF Stop, StopReturns, Stopped, retry
<1>6. CASE Leave \/ Return \/ Daemon
  <2>1. (daemon \in Up) \in BOOLEAN
    OBVIOUS
  <2>. QED
    BY <1>6, <2>1, Zenon DEF Leave, Return, Daemon, retry
<1>7. CASE UNCHANGED vars
  BY <1>7, Zenon DEF vars
<1>. QED
  BY <1>1, <1>2, <1>3, <1>4, <1>5, <1>6, <1>7, Zenon DEF Next, Host

LEMMA StepFields ==
  ASSUME Fields, [Next]_vars
  PROVE  Fields'
<1>. USE ChatAssumption DEF Fields, Phases, Idle, Up
<1>1. CASE PollTick
  BY <1>1 DEF PollTick, retry
<1>2. CASE PollAnswer
  <2>1. attempts' \in 0..MaxAttempts
    BY <1>2, ReconnectBounded DEF PollAnswer
  <2>. QED
    BY <1>2, <2>1 DEF PollAnswer
<1>3. ASSUME NEW c \in Calls, Connect(c) \/ Reconnect(c) \/ ChatStop(c) \/ Look(c)
      PROVE  Fields'
  BY <1>3 DEF Connect, Reconnect, ChatStop, Look, Ends, At, Resumes, retry
<1>4. ASSUME NEW c \in Calls, Drained(c) \/ ChatStart(c) \/ Started(c)
      PROVE  Fields'
  BY <1>4 DEF Drained, ChatStart, Started, At, Resumes, retry
<1>5. ASSUME NEW c \in Calls, Refused(c)
      PROVE  Fields'
  <2>1. attempts' \in 0..MaxAttempts
    BY <1>5, ReconnectBounded DEF Refused
  <2>. QED
    BY <1>5, <2>1 DEF Refused, At, Resumes
<1>6. CASE Stop \/ StopReturns \/ Stopped
  BY <1>6 DEF Stop, StopReturns, Stopped, Ends, retry
<1>7. CASE Leave \/ Return \/ Daemon
  BY <1>7 DEF Leave, Return, Daemon, retry
<1>8. CASE UNCHANGED vars
  BY <1>8 DEF vars
<1>. QED
  BY <1>1, <1>2, <1>3, <1>4, <1>5, <1>6, <1>7, <1>8 DEF Next, Host

LEMMA StepTyped ==
  ASSUME TypeOK, [Next]_vars
  PROVE  TypeOK'
BY TypeParts, StepFlags, StepFields, Zenon

LEMMA StepInv ==
  ASSUME OneStart, IInv, [Next]_vars
  PROVE  IInv'
<1>. USE DEF IInv, AnswerIsTrue, StartsStopped, PollsUnlessStarted
<1>0. /\ TypeOK' /\ Idle = {"stopped", "failed"} /\ Up = {"syncing", "connected"}
      /\ daemon \in Phases /\ starting \in [Calls -> {"idle", "retry", "look", "stop", "drain",
                                                     "start", "started", "refused"}]
  BY StepTyped, TypeParts DEF Fields, Idle, Up, Phases
<1>1. CASE PollTick
  BY <1>0, <1>1 DEF PollTick, retry
<1>2. CASE PollAnswer
  <2>1. AnswerIsTrue' /\ StartsStopped'
    BY <1>0, <1>2, ChatAssumption DEF PollAnswer
  <2>2. answer # "stopped" /\ poll => poll'
    BY <1>2, Zenon DEF PollAnswer
  <2>3. PollsUnlessStarted'
    BY <1>0, <1>2, <2>2 DEF PollAnswer
  <2>. QED
    BY <1>0, <2>1, <2>3
<1>3. ASSUME NEW c \in Calls, Connect(c) \/ Reconnect(c)
      PROVE  IInv'
  BY <1>0, <1>3 DEF Connect, Reconnect, At, retry
<1>4. ASSUME NEW c \in Calls, ChatStop(c) \/ Look(c)
      PROVE  IInv'
  BY <1>0, <1>4 DEF ChatStop, Look, Ends, OneStart, At, Resumes, retry
<1>5. ASSUME NEW c \in Calls, Drained(c)
      PROVE  IInv'
  BY <1>0, <1>5 DEF Drained, At, Resumes, retry
<1>6. ASSUME NEW c \in Calls, ChatStart(c)
      PROVE  IInv'
  <2>1. /\ starting[c] = "start" /\ answer' = answer /\ answer = None
        /\ poll' = poll /\ mounted' = mounted /\ \A d \in Calls : d = c
    BY <1>6 DEF ChatStart, OneStart, At, Resumes
  <2>2. \/ starting'[c] = "started"
        \/ starting'[c] = "refused" /\ daemon' \in Idle
    BY <1>0, <1>6, <2>1 DEF ChatStart, At, Resumes
  <2>3. AnswerIsTrue'
    BY <2>1, ChatAssumption
  <2>4. StartsStopped' /\ PollsUnlessStarted'
    BY <1>0, <2>1, <2>2
  <2>. QED
    BY <1>0, <2>3, <2>4
<1>7. ASSUME NEW c \in Calls, Started(c) \/ Refused(c)
      PROVE  IInv'
  BY <1>0, <1>7 DEF Started, Refused, OneStart, At, Resumes, retry
<1>8. CASE Stop
  BY <1>0, <1>8 DEF Stop
<1>9. CASE StopReturns
  <2>1. /\ daemon' = "stopped"
        /\ UNCHANGED <<mounted, poll, answer, starting>>
    BY <1>9 DEF StopReturns, Ends, OneStart
  <2>. QED
    BY <1>0, <2>1
<1>10. CASE Stopped
  <2>1. daemon # "stopped" /\ poll => poll'
    BY <1>10, Zenon DEF Stopped
  <2>2. UNCHANGED <<daemon, mounted, answer, starting>>
    BY <1>10 DEF Stopped
  <2>. QED
    BY <1>0, <2>1, <2>2
<1>11. CASE Leave
  BY <1>0, <1>11 DEF Leave
<1>12. CASE Return
  <2>1. daemon \in Up => poll'
    BY <1>12 DEF Return
  <2>2. UNCHANGED <<daemon, answer, starting>>
    BY <1>12 DEF Return
  <2>. QED
    BY <1>0, <2>1, <2>2
<1>13. CASE Daemon
  <2>1. daemon \in Up /\ UNCHANGED <<mounted, poll, answer, starting>>
    BY <1>13 DEF Daemon
  <2>. QED
    BY <1>0, <2>1
<1>14. CASE UNCHANGED vars
  BY <1>0, <1>14 DEF vars
<1>. QED
  BY <1>1, <1>2, <1>3, <1>4, <1>5, <1>6, <1>7, <1>8, <1>9, <1>10, <1>11, <1>12, <1>13, <1>14
  DEF Next, Host
-----------------------------------------------------------------------------
\* The screen's fields keep their types, and reconnectAttempts its limit, whatever the
\* runs of start() and a chat_stop that fails (chat-screen.ts).
THEOREM ChatTypeCorrect == Spec => []TypeOK
<1>1. Init => TypeOK
  BY InitInv DEF IInv
<1>2. TypeOK /\ [Next]_vars => TypeOK'
  BY StepTyped
<1>. QED
  BY <1>1, <1>2, PTL DEF Spec

\* A daemon that is up is polled whenever no call is under way (start, stop, pollStatus).
THEOREM UpIsPolled == OneStart => (Spec => []PollsWhileUp)
<1>. SUFFICES ASSUME OneStart
              PROVE  Spec => []PollsWhileUp
  OBVIOUS
<1>1. IInv /\ [Next]_vars => IInv'
  BY StepInv
<1>2. IInv => PollsWhileUp
  BY DEF IInv, PollsUnlessStarted, PollsWhileUp, Quiet
<1>. QED
  BY InitInv, <1>1, <1>2, PTL DEF Spec
=============================================================================
