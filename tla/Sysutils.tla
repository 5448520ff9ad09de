------------------------------ MODULE Sysutils ------------------------------
(***************************************************************************)
(* The Unix socket to the sysutils daemon: the requests (platform,         *)
(* settings, their update, camera setup, wifi cards), the wait at start,   *)
(* and the Reporter with its thread. Each call connects anew; a message    *)
(* stands in the daemon's queue in the order of the connects. The daemon   *)
(* is external: it may answer in pieces, wrongly, late or never, and may   *)
(* be restarted.                                                           *)
(***************************************************************************)
EXTENDS Integers, Sequences, FiniteSets, SequencesExt

CONSTANTS
    Plans,      \* the calls the threads make, and how often the daemon restarts
    Backlog,    \* connections the kernel holds for the daemon
    MaxChunks   \* pieces of an answer that make kMaxLineLength

\* The calls a thread of any module makes, and those only main() makes.
Kinds == {"platform", "settings", "update", "camera", "cards"}
States == {"BOOTING", "STARTING", "READY", "LINK_LOST", "STOPPED", "ERROR"}
AnyCalls == [op: {"request"}, kind: Kinds] \cup [op: {"status"}, code: STRING]
MainCalls == [op: {"report"}, state: States] \cup [op: {"wait", "clear", "exit"}]

Worker == "worker"

ASSUME SysutilsAssumption ==
    /\ Backlog \in Nat /\ MaxChunks \in Nat
    /\ \A p \in Plans :
         /\ p \in [use: BOOLEAN, calls: [DOMAIN p.calls -> Seq(AnyCalls \cup MainCalls)],
                  restarts: Nat, days: Nat]
         /\ Worker \notin DOMAIN p.calls
         /\ \A t \in DOMAIN p.calls \ {"main"} : p.calls[t] \in Seq(AnyCalls)

VARIABLES
    plan,     \* << thread, calls >> still to be made, restarts, days
    thread,   \* each thread: where it is in its call, and its connection
    reporter,      \* Reporter: m_status, m_pending_send, m_last_sent, m_last_status_messages
    sock      \* the daemon: up or not, and the connections it has not served

sysVars == << plan, thread, reporter, sock >>

Unset == "unset"
NoMsg == << Unset >>
Threads == DOMAIN thread
Resting == [at |-> "idle", call |-> [op |-> Unset], msg |-> NoMsg, n |-> 0, rx |-> "empty",
            chunks |-> 0, smooth |-> TRUE, ok |-> FALSE, did |-> FALSE]

SysInit ==
    /\ plan \in Plans
    /\ thread = [t \in DOMAIN plan.calls \cup {Worker} |-> Resting]
    /\ reporter = [status |-> Unset, pending |-> FALSE, fresh |-> FALSE, recent |-> {}, shutdown |-> FALSE]
    /\ sock = [up |-> TRUE, queue |-> << >>]

---------------------------------------------------------------------------
(* A connection.                                                           *)

At(t, from) == thread[t].at = from
Goes(t, r) == thread' = [thread EXCEPT ![t] = r]

\* The call of t is over, with this result.
Returned(t, ok) ==
    [thread[t] EXCEPT !.at = "idle", !.ok = ok, !.msg = NoMsg, !.rx = "empty", !.chunks = 0,
                      !.did = @ /\ ok]

\* send_state and send_clear set m_last_sent whether the message went out or not.
Sends(t) == thread[t].msg[1] \in {"indicator.set", "indicator.clear"}
Sent(t) == reporter' = IF Sends(t) THEN [reporter EXCEPT !.fresh = TRUE] ELSE reporter

Connection(t) == {i \in DOMAIN sock.queue : sock.queue[i].by = t /\ sock.queue[i].n = thread[t].n}

\* Refused while the daemon is away; blocks while its queue is full.
connect(t) ==
    /\ At(t, "connect")
    /\ \/ ~sock.up /\ Goes(t, Returned(t, FALSE)) /\ Sent(t) /\ UNCHANGED sock
       \/ /\ sock.up /\ Len(sock.queue) < Backlog
          /\ sock' = [sock EXCEPT !.queue = Append(@, [by |-> t, n |-> thread[t].n + 1, msg |-> NoMsg])]
          /\ Goes(t, [thread[t] EXCEPT !.at = "write", !.n = @ + 1, !.rx = "empty", !.chunks = 0, !.did = FALSE])
          /\ UNCHANGED reporter
    /\ UNCHANGED plan

\* write_all: fails if the daemon has gone since. A report is over with it, a
\* request waits for its answer; the wait at start closes without a word.
write_all(t) ==
    /\ At(t, "write")
    /\ LET gone == Connection(t) = {} IN
       /\ sock' = IF gone THEN sock
                  ELSE [sock EXCEPT !.queue[CHOOSE i \in Connection(t) : TRUE].msg = thread[t].msg]
       /\ IF thread[t].msg[1] = "request" /\ ~gone
          THEN Goes(t, [thread[t] EXCEPT !.at = "read"]) /\ UNCHANGED reporter
          ELSE Goes(t, Returned(t, ~gone \/ thread[t].call.op = "wait")) /\ Sent(t)
    /\ UNCHANGED plan

\* What each call takes for an answer: "good" is of the type asked for and has
\* all it should, "bare" lacks the payload or the "ok", "refused" says "ok": false.
\* In one that is "mistyped" a value is of another type than the call reads it as.
AcceptPlatform(rx) == rx = "good"
AcceptSettings(rx) == rx \in {"good", "bare"}
AcceptUpdate(rx) == rx \in {"good", "bare"}
AcceptCamera(rx) == rx \in {"good", "bare"}
AcceptCards(rx) == rx \in {"good", "bare"}          \* without "cards": none

Accepted(kind, rx) ==
    CASE kind = "platform" -> AcceptPlatform(rx)
      [] kind = "settings" -> AcceptSettings(rx)
      [] kind = "update" -> AcceptUpdate(rx)
      [] kind = "camera" -> AcceptCamera(rx)
      [] kind = "cards" -> AcceptCards(rx)

Deadline(t) ==
    /\ At(t, "read") /\ Goes(t, Returned(t, FALSE))
    /\ UNCHANGED << plan, reporter, sock >>

\* read_line_with_timeout: pieces are collected until there is a line, the end
\* of the connection, or more than a line may hold.
read_line(t) ==
    /\ At(t, "read") /\ thread[t].rx \notin {"empty", "mistyped"}
    /\ IF thread[t].rx = "part" /\ thread[t].chunks + 1 < MaxChunks
       THEN Goes(t, [thread[t] EXCEPT !.rx = "empty", !.chunks = @ + 1])
       ELSE Goes(t, Returned(t, Accepted(thread[t].call.kind, thread[t].rx)))
    /\ UNCHANGED << plan, reporter, sock >>

\* get<int>() and value(key, default) of the JSON library throw, and no call
\* catches it: neither main() before its try nor another thread does, and the
\* process ends. (What main() asks inside its try is Startup's clear_reset_flag.)
throws(t) ==
    /\ At(t, "read") /\ thread[t].rx = "mistyped"
    /\ thread' = [u \in Threads |-> [Resting EXCEPT !.at = "ended"]]
    /\ UNCHANGED << plan, reporter, sock >>

---------------------------------------------------------------------------
(* The calls.                                                              *)

Begins(t, op) == /\ t # Worker /\ At(t, "idle")
                 /\ plan.calls[t] # << >> /\ Head(plan.calls[t]).op = op
                 /\ plan' = [plan EXCEPT !.calls[t] = Tail(@)]
Call(t) == Head(plan.calls[t])
Calls(t, at, msg) ==
    Goes(t, [thread[t] EXCEPT !.at = at, !.call = Call(t), !.msg = msg, !.smooth = sock.up, !.ok = FALSE])

\* request_platform_type, request_sysutil_settings, update_sysutil_settings,
\* request_sysutil_camera_setup, request_sysutil_wifi_cards.
request(t) ==
    /\ Begins(t, "request")
    /\ Calls(t, "connect", << "request" >>)
    /\ UNCHANGED << reporter, sock >>

\* can_connect_sysutils, every 200 ms until it succeeds or 30 s are over.
can_connect_sysutils(t) ==
    /\ Begins(t, "wait")
    /\ \/ sock.up /\ Calls(t, "connect", << "nothing" >>)
       \/ ~sock.up /\ Calls(t, "idle", << "nothing" >>)
    /\ UNCHANGED << reporter, sock >>

\* A status already reported within the refresh interval is not sent again.
report_state(t) ==
    /\ Begins(t, "report")
    /\ IF reporter.status = Call(t).state /\ reporter.fresh
       THEN Calls(t, "idle", << "nothing" >>) /\ UNCHANGED reporter
       ELSE /\ Calls(t, "now", << "nothing" >>)
            /\ reporter' = [reporter EXCEPT !.status = Call(t).state, !.pending = TRUE]
    /\ UNCHANGED sock

clear(t) ==
    /\ Begins(t, "clear")
    /\ Calls(t, "now", << "nothing" >>)
    /\ reporter' = [reporter EXCEPT !.status = Unset, !.pending = TRUE]
    /\ UNCHANGED sock

Message == IF reporter.status = Unset THEN << "indicator.clear" >> ELSE << "indicator.set", reporter.status >>

\* Mutant: the caller sends what there is now, whoever lowered the flag.
MutSendNow(t) ==
    /\ At(t, "now")
    /\ Goes(t, IF reporter.pending THEN [thread[t] EXCEPT !.at = "connect", !.msg = Message] ELSE Returned(t, TRUE))
    /\ reporter' = [reporter EXCEPT !.pending = FALSE]
    /\ UNCHANGED << plan, sock >>

send_now(t) ==
    /\ At(t, "now")
    /\ Goes(t, [thread[t] EXCEPT !.at = "connect", !.msg = Message])
    /\ reporter' = [reporter EXCEPT !.pending = FALSE]
    /\ UNCHANGED << plan, sock >>

\* At most one message of a code in five seconds, over all threads.
report_status(t) ==
    /\ Begins(t, "status")
    /\ reporter' = [reporter EXCEPT !.recent = @ \cup {Call(t).code}]
    /\ Calls(t, IF Call(t).code \in reporter.recent THEN "idle" ELSE "connect",
             << "indicator.status", Call(t).code >>)
    /\ UNCHANGED sock

\* The thread of the Reporter. When the refresh interval has passed it wakes
\* for nothing: only m_pending_send makes it send.
worker_loop ==
    /\ At(Worker, "idle") /\ (reporter.pending \/ reporter.shutdown)
    /\ Goes(Worker, IF reporter.shutdown THEN [Resting EXCEPT !.at = "ended"]
                    ELSE [thread[Worker] EXCEPT !.at = "connect", !.msg = Message, !.smooth = sock.up])
    /\ reporter' = [reporter EXCEPT !.pending = @ /\ reporter.shutdown]
    /\ UNCHANGED << plan, sock >>

\* The static object is destroyed when the process exits: its thread is joined.
exit(t) ==
    /\ Begins(t, "exit")
    /\ Calls(t, "join", << "nothing" >>)
    /\ reporter' = [reporter EXCEPT !.shutdown = TRUE]
    /\ UNCHANGED sock
join_worker(t) ==
    /\ At(t, "join") /\ At(Worker, "ended")
    /\ Goes(t, Returned(t, TRUE))
    /\ UNCHANGED << plan, reporter, sock >>

---------------------------------------------------------------------------
(* The daemon and the time.                                                *)

\* It has read the message, or seen that there will be none, and goes on to
\* the next connection; of a request it sends something, or nothing at all.
Reply(t, rx) == [thread EXCEPT ![t] = [@ EXCEPT !.rx = rx, !.did = rx \in {"good", "bare"}]]
daemon_serves ==
    /\ sock.up /\ sock.queue # << >>
    /\ LET c == Head(sock.queue)
           waiting == c.n = thread[c.by].n /\ thread[c.by].at = "read"
       IN  /\ c.msg # NoMsg
           /\ \/ ~waiting /\ UNCHANGED thread
              \/ waiting /\ \E rx \in {"good", "bare", "refused", "mistyped", "part", "closed", "empty"} :
                                thread' = Reply(c.by, rx)
    /\ sock' = [sock EXCEPT !.queue = Tail(@)]
    /\ UNCHANGED << plan, reporter >>

\* The rest of an answer whose first piece has been taken.
daemon_continues(t) ==
    /\ sock.up /\ At(t, "read") /\ thread[t].rx = "empty" /\ thread[t].chunks > 0
    /\ \E rx \in {"good", "bare", "refused", "mistyped", "part", "closed"} : thread' = Reply(t, rx)
    /\ UNCHANGED << plan, reporter, sock >>

daemon_changes ==
    /\ sock.up => plan.restarts > 0
    /\ plan' = IF sock.up THEN [plan EXCEPT !.restarts = @ - 1] ELSE plan
    /\ sock' = [up |-> ~sock.up, queue |-> << >>]
    /\ thread' = [t \in Threads |-> [thread[t] EXCEPT !.smooth = FALSE,
                     !.rx = IF sock.up /\ thread[t].at = "read" /\ @ = "empty" THEN "closed" ELSE @]]
    /\ UNCHANGED reporter

\* Five seconds, or a day.
time_passes ==
    /\ plan.days > 0 /\ plan' = [plan EXCEPT !.days = @ - 1]
    /\ \E r \in {[reporter EXCEPT !.recent = {}], [reporter EXCEPT !.recent = {}, !.fresh = FALSE]} : reporter' = r
    /\ UNCHANGED << thread, sock >>

CallStep(t) ==
    connect(t) \/ write_all(t) \/ read_line(t) \/ Deadline(t) \/ send_now(t) \/ join_worker(t)
CallBegins(t) ==
    request(t) \/ can_connect_sysutils(t) \/ report_state(t) \/ clear(t) \/ report_status(t) \/ exit(t)

SysNext ==
    \/ \E t \in Threads : CallStep(t) \/ throws(t) \/ CallBegins(t) \/ daemon_continues(t)
    \/ worker_loop \/ daemon_serves \/ daemon_changes \/ time_passes

\* The threads run, and while it is up the daemon takes one connection after
\* the other; that it answers anything is not assumed.
SysFairness ==
    /\ \A t \in {"main", "link", Worker} : WF_sysVars(t \in Threads /\ (CallStep(t) \/ throws(t)))
    /\ WF_sysVars(worker_loop) /\ WF_sysVars(daemon_serves)

---------------------------------------------------------------------------
(* A call that returns true or an answer was carried out by the daemon      *)
(* within that very call; an update whose result is thrown away may be      *)
(* carried out after it (read_line_with_timeout, the checks of the answer). *)
AnsweredIsDone ==
    \A t \in Threads : (At(t, "idle") /\ thread[t].ok /\ thread[t].call.op = "request") => thread[t].did

(* report() returns only after its own message is in the socket, if the     *)
(* daemon was there all the time, although the Reporter's thread may have   *)
(* taken the flag first: what main() reports last is not lost at its exit   *)
(* (send_pending_now).                                                      *)
ReportHandedOver ==
    [][\A t \in Threads :
        (thread[t].at # "idle" /\ thread'[t].at = "idle" /\ thread[t].call.op = "report" /\ thread'[t].smooth)
        => \E i \in DOMAIN sock'.queue :
               sock'.queue[i].by = t /\ sock'.queue[i].msg = << "indicator.set", thread[t].call.state >>]_sysVars

(* However slowly or little the daemon answers, and whenever it is          *)
(* restarted, every call returns, and so does the exit of the program       *)
(* (the deadline and the length limit of read_line_with_timeout), unless an *)
(* answer in which a value has the wrong type ends the program.             *)
Busy(t) == t \in Threads /\ ~At(t, "idle") /\ ~At(t, "ended")
CallsReturn == \A t \in {"main", "link"} : Busy(t) ~> ~Busy(t)
\* Does not hold: there is always a caller to return to.
EveryCallReturns == \A t \in {"main", "link"} : Busy(t) ~> (t \in Threads /\ At(t, "idle"))

(* What a caller takes for said and done is so on the other side.           *)
SaidAndDone == []AnsweredIsDone /\ ReportHandedOver
=============================================================================
