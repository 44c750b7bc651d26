----------------------------- MODULE NcpStartup -----------------------------
(***************************************************************************)
(* The start-up of the NCP host (ncp_host_startup.c): the host resets the  *)
(* SoC, asks for its version, and then goes through a list of steps, each  *)
(* a blocking request (NcpHL) whose answer schedules the next step.  Two   *)
(* alarms run beside it: one delays the reset, one repeats it when the SoC *)
(* does not answer.  The SoC may restart by itself, and the serial port    *)
(* may fail while the SoC resets and be opened again.                      *)
(*                                                                         *)
(* Abstracted: the steps of both stages are numbered in one row, and one   *)
(* that sends several requests stands for several.                         *)
(***************************************************************************)
EXTENDS NcpHL, SequencesExt

CONSTANTS
  STEPS,      \* number of steps: PARAM_STEP_DONE + SOC_STATE_STEP_DONE
  SKIPPED,    \* steps with nothing to ask for (a parameter that is not set)
  STRICT,     \* steps whose answer must find the start-up at that step
  MaxLost,    \* bound on the requests that are lost
  MaxLate,    \* bound on time-outs that beat an answer, and on restarts of
              \* the SoC after it has told its version
  MaxExtra,   \* bound on restarts and on repeated reset responses
  MaxErrors,  \* bound on read errors of the serial port
  MaxAway     \* bound on time-outs while the port cannot be opened

RESET   == 0    \* PARAM_STEP_RESET
VERSION == 1    \* PARAM_STEP_REQUEST_MODULE_VERSION
DONE    == STEPS

Step == 0..STEPS - 1

ASSUME StartupConstants == /\ STEPS \in Nat /\ STEPS > VERSION
                           /\ SKIPPED \subseteq VERSION + 1..STEPS - 1
                           /\ STRICT \subseteq VERSION + 1..STEPS - 1
                           /\ {MaxLost, MaxLate, MaxExtra, MaxErrors, MaxAway} \subseteq Nat

\* From the SoC: the answer to a step's request, or the reset indication.
RESET_IND == STEPS
Message == Step \cup {RESET_IND}

\* The ZB_ASSERT, or the fatal error, that has stopped the host.
Failures == {"NONE", "TIMER", "RESET_RESPONSE", "STEP", "NO_BUFFER", "SERIAL"}

Host == [hl : HLState,
         pos : 0..STEPS,               \* current_stage and current_step
         respProcessed : BOOLEAN,      \* soc_initial_reset_resp_processed
         pending : BOOLEAN,            \* is_reset_request_pending
         calls : Nat,                  \* startup_next_step callbacks scheduled
         resetAlarm : BOOLEAN,         \* soc_reset
         timer : BOOLEAN,              \* startup_timer_alarm
         retry : {"NONE", "FIRST", "REINIT"},    \* init_transport and its param
         failure : Failures]

VARIABLES
  host,       \* the host
  erase,      \* nvram_erase, set by the application before the start
  toSoc,      \* requests the LL has taken, on their way to the SoC
  atSoc,      \* requests the SoC has not answered yet
  toHost,     \* messages on their way to the host
  told,       \* the SoC has told its version
  answered,   \* steps whose answer the host has handled
  lost, late, extra, errors, away    \* how often each has happened

soc == <<toSoc, atSoc, toHost, told>>
vars == <<host, erase, soc, answered, lost, late, extra, errors, away>>

TypeOK == /\ host \in Host
          /\ erase \in BOOLEAN
          /\ toSoc \in Seq(Step) /\ atSoc \in Seq(Step) /\ toHost \in Seq(Message)
          /\ told \in BOOLEAN
          /\ answered \subseteq Step
          /\ lost \in 0..MaxLost /\ late \in 0..MaxLate
          /\ extra \in 0..MaxExtra /\ errors \in 0..MaxErrors /\ away \in 0..MaxAway

\* zboss_start: init_transport(INIT_PARAM_FIRST) is to come.
Init == /\ host = [hl |-> HLInit, pos |-> RESET, respProcessed |-> FALSE, pending |-> FALSE,
                   calls |-> 0, resetAlarm |-> FALSE, timer |-> FALSE, retry |-> "FIRST",
                   failure |-> "NONE"]
        /\ erase \in BOOLEAN
        /\ toSoc = << >> /\ atSoc = << >> /\ toHost = << >>
        /\ told = FALSE
        /\ answered = {}
        /\ lost = 0 /\ late = 0 /\ extra = 0 /\ errors = 0 /\ away = 0

----------------------------------------------------------------------------
(* The functions of ncp_host_startup.c. *)

Fail(h, why) == [h EXCEPT !.failure = why]

\* ZB_SCHEDULE_CALLBACK(startup_next_step, 0)
ScheduleNext(h) == [h EXCEPT !.calls = @ + 1]

\* The request of a step: ZB_ASSERT(ret == RET_OK) fails without a free buffer.
Ask(h, step) == IF FreeBufs(h.hl) = {} THEN Fail(h, "NO_BUFFER")
                ELSE [h EXCEPT !.hl = Request(h.hl, TRUE, step)]

\* ncp_host_reset_general, whose RET_BUSY nobody looks at
AskReset(h) == IF FreeBufs(h.hl) = {} THEN h
               ELSE [Ask(h, RESET) EXCEPT !.pending = TRUE]

\* startup_dispatch: setting_param_dispatch, reading_soc_state_dispatch or
\* startup_done
Dispatch(h) == CASE h.pos = RESET      -> [h EXCEPT !.resetAlarm = TRUE]
                 [] h.pos = DONE       -> h
                 [] h.pos \in SKIPPED  -> ScheduleNext(h)
                 [] OTHER              -> Ask(h, h.pos)

\* Mutant of NextStep: nothing stops it when the start-up is done.
NextStepPastDone(h) == Dispatch([h EXCEPT !.pos = @ + 1])

\* startup_next_step
NextStep(h) == IF h.pos = DONE THEN h ELSE Dispatch([h EXCEPT !.pos = @ + 1])

\* Mutant of SocReset: the startup timer is not restarted.
SocResetUntimed(h) == IF erase \/ ~ h.respProcessed THEN AskReset(h) ELSE ScheduleNext(h)

\* soc_reset
SocReset(h) ==
  LET t == [h EXCEPT !.timer = TRUE]
  IN IF erase \/ ~ h.respProcessed THEN AskReset(t) ELSE ScheduleNext(t)

\* startup_timer_alarm
TimerAlarm(h) ==
  IF h.pos > VERSION THEN Fail(h, "TIMER") ELSE Dispatch([h EXCEPT !.respProcessed = FALSE])

\* ncp_host_handle_reset_response
HandleResetResponse(h, solicited) ==
  IF solicited /\ h.pos <= RESET THEN ScheduleNext(h) ELSE Fail(h, "RESET_RESPONSE")

\* Mutant of HandleResetIndication: an early indication ends the reset step.
HandleResetIndicationNext(h) ==
  IF h.pos <= VERSION THEN ScheduleNext(h) ELSE HandleResetResponse(h, FALSE)

\* ncp_host_handle_reset_indication
HandleResetIndication(h) ==
  IF h.pos <= VERSION THEN [h EXCEPT !.respProcessed = TRUE] ELSE HandleResetResponse(h, FALSE)

Finish(h) == [h EXCEPT !.hl = MarkFinished(h.hl)]

\* Mutants of ResetResponse: every reset response counts as solicited, or
\* finishes the blocking request before it is found to be a repetition.
ResetResponseAlways(h) == HandleResetResponse([Finish(h) EXCEPT !.pending = FALSE], TRUE)
ResetResponseFinishFirst(h) ==
  LET u == [Finish(h) EXCEPT !.pending = FALSE]
  IN IF h.pending THEN HandleResetResponse(u, TRUE) ELSE u

\* handle_reset_response
ResetResponse(h) ==
  LET u == [h EXCEPT !.pending = FALSE]
  IN IF h.pending THEN HandleResetResponse(Finish(u), TRUE) ELSE u

\* handle_get_module_version_response and the handler it calls
VersionResponse(h) == ScheduleNext([Finish(h) EXCEPT !.timer = FALSE])

\* Mutant of StepResponse: the next step is scheduled twice.
StepResponseTwice(h, step) == ScheduleNext(ScheduleNext(Finish(h)))

\* The response handler of any other step.
StepResponse(h, step) ==
  CASE step \in STRICT /\ h.pos = DONE              -> Finish(h)
    [] step \in STRICT /\ h.pos \notin {step, DONE} -> Fail(h, "STEP")
    [] OTHER                                        -> ScheduleNext(Finish(h))

Handle(h, msg) == CASE msg = RESET_IND -> HandleResetIndication(h)
                    [] msg = RESET     -> ResetResponse(h)
                    [] msg = VERSION   -> VersionResponse(h)
                    [] OTHER           -> StepResponse(h, msg)

\* init_transport: the port cannot be opened, which zb_error_top_level_handler
\* forgives at the first step only, or it can.
InitTransport(h, param, ok) ==
  LET u == [h EXCEPT !.hl = ProtoInit(h.hl), !.retry = "NONE"]
  IN CASE ok /\ param = "FIRST"   -> Dispatch(u)    \* begin_startup
       [] ok /\ param = "REINIT"  -> u
       [] ~ ok /\ h.pos = RESET   -> [u EXCEPT !.retry = param]
       [] ~ ok /\ h.pos # RESET   -> Fail(u, "SERIAL")

----------------------------------------------------------------------------
(* The host's steps. *)

Running == host.failure = "NONE" /\ ~ host.hl.aborted

Callback ==
  /\ Running /\ host.calls > 0
  /\ host' = NextStep([host EXCEPT !.calls = @ - 1])
  /\ UNCHANGED <<erase, soc, answered, lost, late, extra, errors, away>>

\* A callback that is scheduled runs before the second's delay is over.
ResetAlarm ==
  /\ Running /\ host.resetAlarm /\ host.calls = 0
  /\ host' = SocReset([host EXCEPT !.resetAlarm = FALSE])
  /\ UNCHANGED <<erase, soc, answered, lost, late, extra, errors, away>>

\* Nothing is under way: only a time-out can wake the start-up.
Quiet == /\ toSoc = << >> /\ atSoc = << >> /\ toHost = << >>
         /\ ~ host.hl.active /\ host.calls = 0 /\ ~ host.resetAlarm

\* init_transport does not cancel the alarm: it goes off while the port cannot be
\* opened, too.
Timer ==
  /\ Running /\ host.timer
  /\ Quiet \/ late < MaxLate
  /\ host.retry # "NONE" => away < MaxAway
  /\ host' = TimerAlarm([host EXCEPT !.timer = FALSE])
  /\ late' = late + IF Quiet THEN 0 ELSE 1
  /\ away' = away + IF host.retry # "NONE" THEN 1 ELSE 0
  /\ UNCHANGED <<erase, soc, answered, lost, extra, errors>>

\* What is on its way to the SoC is gone with the LL's queue, which init_transport
\* creates anew; the SoC's LL repeats its last frames or has given them up.
PortRestarts(repeated) ==
  /\ toSoc' = << >>
  /\ toHost' = IF repeated THEN toHost ELSE << >>

RetryInit(ok, repeated) ==
  /\ Running /\ host.retry # "NONE"
  /\ host' = InitTransport(host, host.retry, ok)
  /\ PortRestarts(repeated)
  /\ UNCHANGED <<erase, atSoc, told, answered, lost, late, extra, errors, away>>

\* The port fails (zb_error_top_level_handler).
ReadError(ok, repeated) ==
  /\ Running /\ host.retry = "NONE"
  /\ errors < MaxErrors
  /\ errors' = errors + 1
  /\ host' = IF host.pos = RESET THEN InitTransport(host, "REINIT", ok) ELSE Fail(host, "SERIAL")
  /\ PortRestarts(repeated)
  /\ UNCHANGED <<erase, atSoc, told, answered, lost, late, extra, away>>

\* ncp_ll_quant: the LL takes the packet or not, and a message comes or not.
Quantum(takes, receives) ==
  LET h == IF receives THEN Handle(host, Head(toHost)) ELSE host
  IN /\ Running
     /\ takes => host.hl.div # NoPkt
     /\ receives => toHost # << >> /\ host.retry = "NONE"
     /\ host' = [h EXCEPT !.hl = EndOfQuantum(h.hl, takes)]
     /\ toSoc' = IF takes THEN Append(toSoc, host.hl.div.id) ELSE toSoc
     /\ toHost' = IF receives THEN Tail(toHost) ELSE toHost
     /\ answered' = answered \cup (IF receives THEN {Head(toHost)} \cap Step ELSE {})
     /\ UNCHANGED <<erase, atSoc, told, lost, late, extra, errors, away>>

----------------------------------------------------------------------------
(* The link and the SoC. *)

\* The link gives up a request (NO_ACK).
GiveUp ==
  /\ toSoc # << >> /\ lost < MaxLost
  /\ toSoc' = Tail(toSoc)
  /\ lost' = lost + 1
  /\ UNCHANGED <<host, erase, atSoc, toHost, told, answered, late, extra, errors, away>>

\* A reset makes the SoC forget what else it was asked.
SocReceive ==
  /\ toSoc # << >> /\ host.retry = "NONE"
  /\ toSoc' = Tail(toSoc)
  /\ atSoc' = IF Head(toSoc) = RESET THEN <<RESET>> ELSE Append(atSoc, Head(toSoc))
  /\ UNCHANGED <<host, erase, toHost, told, answered, lost, late, extra, errors, away>>

\* The response to a reset may be repeated.
SocAnswer(again) ==
  /\ atSoc # << >>
  /\ again => Head(atSoc) = RESET /\ extra < MaxExtra
  /\ extra' = extra + IF again THEN 1 ELSE 0
  /\ toHost' = toHost \o IF again THEN <<RESET, RESET>> ELSE <<Head(atSoc)>>
  /\ atSoc' = Tail(atSoc)
  /\ told' = (told \/ Head(atSoc) = VERSION)
  /\ UNCHANGED <<host, erase, toSoc, answered, lost, late, errors, away>>

\* The SoC restarts by itself and says so, in one of two ways.
SocRestarts(msg) ==
  /\ extra < MaxExtra /\ lost + Len(atSoc) <= MaxLost /\ (told => late < MaxLate)
  /\ extra' = extra + 1
  /\ lost' = lost + Len(atSoc)
  /\ late' = late + IF told THEN 1 ELSE 0
  /\ atSoc' = << >>
  /\ toHost' = Append(toHost, msg)
  /\ UNCHANGED <<host, erase, toSoc, told, answered, errors, away>>

Next == \/ Callback
        \/ ResetAlarm
        \/ Timer
        \/ \E ok, repeated \in BOOLEAN : RetryInit(ok, repeated)
        \/ \E ok, repeated \in BOOLEAN : ReadError(ok, repeated)
        \/ \E takes, receives \in BOOLEAN : Quantum(takes, receives)
        \/ GiveUp
        \/ SocReceive
        \/ \E again \in BOOLEAN : SocAnswer(again)
        \/ \E msg \in {RESET, RESET_IND} : SocRestarts(msg)

Spec == Init /\ [][Next]_vars

\* The scheduler runs callbacks and due alarms, the LL goes on polling, the port
\* comes back, and the SoC handles and answers what reaches it.
Fairness == /\ WF_vars(Callback)
            /\ WF_vars(ResetAlarm)
            /\ WF_vars(Timer)
            /\ WF_vars(\E repeated \in BOOLEAN : RetryInit(TRUE, repeated))
            /\ WF_vars(Quantum(FALSE, FALSE))
            /\ WF_vars(\E receives \in BOOLEAN : Quantum(TRUE, receives))
            /\ WF_vars(\E takes \in BOOLEAN : Quantum(takes, TRUE))
            /\ WF_vars(SocReceive)
            /\ WF_vars(\E again \in BOOLEAN : SocAnswer(again))

FairSpec == Spec /\ Fairness

----------------------------------------------------------------------------
(* Properties. *)

One(b) == IF b THEN 1 ELSE 0

\* Time-outs are prompt, and requests are lost, or the port fails, or the SoC
\* restarts and repeats itself, but only one of the three.
OneTrouble == late = 0 /\ One(lost > 0) + One(errors > 0) + One(extra > 0) <= 1

\* While nothing is lost and no time-out comes too early, exactly one thing
\* drives the start-up - a scheduled callback, an alarm or a blocking request -
\* until it is done, however the SoC restarts or repeats itself meanwhile.
SingleChain ==
  lost = 0 /\ late = 0 /\ errors = 0 =>
    host.calls + Len(host.hl.bq) + One(host.resetAlarm) + One(host.retry # "NONE")
      = One(host.pos # DONE)

\* One kind of trouble makes no assertion of the start-up fail; only an error of
\* the port after the reset step is fatal.
AssertsHold == OneTrouble => host.failure \in {"NONE", "SERIAL"} /\ ~ host.hl.aborted

\* A message that would finish a blocking request answers the request at the
\* head of the blocking queue: repeated and unasked-for reset responses never
\* finish another request.
AnswerMatches ==
  OneTrouble /\ toHost # << >> =>
    LET msg == Head(toHost)
        q == host.hl.bq
    IN \/ msg = RESET_IND
       \/ msg = RESET /\ ~ host.pending
       \/ q # << >> /\ host.hl.pool[Head(q)].id = msg
       \/ q = << >> /\ errors > 0    \* init_transport has emptied the queue

\* No step is passed over: every step behind the current one had its answer (but
\* the reset, which is not needed if the SoC has just restarted).
NoStepSkipped ==
  OneTrouble => \A p \in VERSION..host.pos - 1 : p \in answered \cup SKIPPED

\* The start-up ends, or an error ends it, unless a request is lost or a time-out
\* comes too early: after the port failed, too, the timer brings it back to life,
\* as long as errors + away, the buffers that init_transport may have leaked, leave
\* one in the pool (MaxErrors + MaxAway < POOL_SIZE; see RecallCompletes).
Completes == <>[](host.pos = DONE \/ ~ Running \/ lost > 0 \/ late > 0)

\* When the Reset Request was lost, its answer is late or the port failed, once,
\* "the startup logic is recalled, which will send the second Reset Request command"
\* (comment of startup_timer_alarm), and comes to its end, or to an error of the port
\* after the reset step, which is fatal.
RecallCompletes ==
  (host.pos = RESET /\ lost + late + errors = 1)
    ~> (host.pos = DONE \/ host.failure = "SERIAL" \/ lost + late + errors > 1)
=============================================================================
