------------------------------ MODULE FsFunnel ------------------------------
(***************************************************************************)
(* Filesystem calls of other tasks (fs_owner.c, the synchronous routing),  *)
(* and the browsing service on top of them (fs_query.c).                   *)
(*                                                                         *)
(* A caller takes the only token, hands its request to the filesystem task *)
(* and waits for the result; either wait gives up after 2 s, and what has  *)
(* been queued then stays queued.  The task executes a request with the    *)
(* read and the write handle it keeps open from call to call.              *)
(*                                                                         *)
(* A call is identified by its number, which no queue carries: the result  *)
(* queue holds only the result.  A handle carries the number of times its  *)
(* file had been replaced or removed when it was opened (made).            *)
(***************************************************************************)
EXTENDS BlackBox

CONSTANTS
    Callers,        \* the tasks that call; "xfer" is the transfer task
    Paths,          \* files; "hsl" is the recorder's, "pid" the tune
    MaxCalls,       \* bound: calls
    MaxLate,        \* bound: calls that time out
    MaxWrites,      \* bound: chunks on the write lane
    MaxQueries      \* bound: queries of the ground station

ASSUME FunnelAssumption ==
    /\ "xfer" \in Callers /\ "free" \notin Callers
    /\ "hsl" \in Paths /\ "none" \notin Paths
    /\ MaxCalls \in Nat /\ MaxLate \in Nat /\ MaxWrites \in Nat /\ MaxQueries \in Nat

VARIABLES
    token,          \* s_sync_lock_q: "free" or the caller that holds it
    call,           \* [caller |-> its call in progress]
    calls,          \* calls begun
    late,           \* calls given up while their request was pending
    reqQ,           \* s_sync_req_q
    resQ,           \* s_sync_res_q
    exec,           \* the request the filesystem task is executing
    rfd, wfd,       \* s_rfd, s_wfd with their paths
    replaced,       \* [path |-> times the file was removed or replaced]
    lane,           \* write-at requests queued, as paths
    writes,         \* and queued so far
    query,          \* [kind |-> the browsing request in its slot]
    job,            \* the query the transfer task is serving
    queries,        \* queries accepted or refused so far
    answers,        \* [kind |-> terminal answers owed]
    dirs            \* directory handles open

funnelVars == <<token, call, calls, late, reqQ, resQ, exec>>
handleVars == <<rfd, wfd, replaced, lane, writes>>
queryVars == <<query, job, queries, answers, dirs>>
svcVars == <<funnelVars, handleVars, queryVars>>

Kinds == {"list", "info", "delete"}
NoCall == [st |-> "idle", id |-> 0, op |-> "none", path |-> "none", res |-> "none", of |-> 0]
NoReq == [id |-> 0]
NoFd == [path |-> "none", made |-> 0]

SvcReset ==
    /\ token' = "free"
    /\ call' = [c \in Callers |-> NoCall]
    /\ reqQ' = <<>> /\ resQ' = <<>> /\ exec' = NoReq
    /\ rfd' = NoFd /\ wfd' = NoFd /\ lane' = <<>>
    /\ query' = [k \in Kinds |-> "off"] /\ job' = "none"
    /\ answers' = [k \in Kinds |-> 0] /\ dirs' = 0
    /\ UNCHANGED <<calls, late, replaced, writes, queries>>

SvcInit ==
    /\ token = "free"
    /\ call = [c \in Callers |-> NoCall]
    /\ calls = 0 /\ late = 0
    /\ reqQ = <<>> /\ resQ = <<>> /\ exec = NoReq
    /\ rfd = NoFd /\ wfd = NoFd
    /\ replaced = [p \in Paths |-> 0]
    /\ lane = <<>> /\ writes = 0
    /\ query = [k \in Kinds |-> "off"] /\ job = "none" /\ queries = 0
    /\ answers = [k \in Kinds |-> 0] /\ dirs = 0

Up == pc # "boot"

-----------------------------------------------------------------------------
(* fs_sync_call, the caller's side                                         *)

\* A call of c begins.
Issued(c, o, p) ==
    [call EXCEPT ![c] = [st |-> "token", id |-> calls + 1, op |-> o, path |-> p,
                         res |-> "none", of |-> 0]]

\* The call of c returns r, the result of request number n.
Returned(c, r, n) == [call EXCEPT ![c].st = "done", ![c].res = r, ![c].of = n]

\* Mutant of TokenFree: nobody waits for the serialiser.
TokenFree_Always == TRUE

TokenFree == token = "free"

\* The serialiser, then the request queue (of one), which may still hold the
\* request of a caller that gave up.
TakeToken(c) ==
    /\ call[c].st = "token" /\ TokenFree
    /\ IF reqQ = <<>>
       THEN /\ reqQ' = <<[id |-> call[c].id, by |-> c, op |-> call[c].op, path |-> call[c].path]>>
            /\ call' = [call EXCEPT ![c].st = "wait"]
            /\ token' = c
       ELSE /\ call' = Returned(c, "fail", call[c].id)
            /\ UNCHANGED <<reqQ, token>>
    /\ UNCHANGED <<calls, late, resQ, exec>>

TakeResult(c) ==
    /\ call[c].st = "wait" /\ resQ # <<>>
    /\ call' = Returned(c, Head(resQ).res, Head(resQ).id)
    /\ resQ' = <<>>
    /\ token' = "free"
    /\ UNCHANGED <<calls, late, reqQ, exec>>

\* FS_SYNC_TIMEOUT_TICKS: the card kept the filesystem task busy for 2 s.
GiveUp(c) ==
    /\ "slow" \in offered /\ late < MaxLate
    /\ \/ call[c].st = "token" /\ token # "free" /\ UNCHANGED <<token, late>>
       \/ call[c].st = "wait" /\ resQ = <<>> /\ token' = "free" /\ late' = late + 1
    /\ call' = Returned(c, "fail", call[c].id)
    /\ UNCHANGED <<calls, reqQ, resQ, exec>>

-----------------------------------------------------------------------------
(* fs_exec_sync and the handle caches                                      *)

Fd(p) == [path |-> p, made |-> replaced[p]]
Without(fd, p) == IF fd.path = p THEN NoFd ELSE fd

\* The result goes back unless an older one is still there.
Reply(r) == resQ' = IF resQ = <<>> THEN <<[res |-> r, id |-> exec.id]>> ELSE resQ

\* read_fd and the read on it; a short read (the end of the file too) drops the
\* handle, a failed seek does not.
ExecRead(p) ==
    /\ wfd' = IF rfd.path = p THEN wfd ELSE Without(wfd, p)
    /\ rfd' \in {IF rfd.path = p THEN rfd ELSE Fd(p), NoFd}
    /\ \/ CardWorks /\ Reply("ok")
       \/ CardFails /\ Reply("fail")
    /\ UNCHANGED <<replaced, exists, dirs>>

\* unlink, and truncate with its O_CREAT: both handles on the file go first.
ExecReplace(p) ==
    /\ rfd' = Without(rfd, p) /\ wfd' = Without(wfd, p)
    /\ \/ /\ CardWorks
          /\ replaced' = [replaced EXCEPT ![p] = @ + (IF p = "hsl" /\ ~exists THEN 0 ELSE 1)]
          /\ exists' = (exists /\ ~(p = "hsl" /\ exec.op = "unlink"))
          /\ Reply(IF p = "hsl" /\ ~exists THEN "fail" ELSE "ok")
       \/ CardFails /\ Reply("fail") /\ UNCHANGED <<replaced, exists>>
    /\ UNCHANGED dirs

\* stat and the directory calls; a directory has at most MaxCalls entries.
Absent == exec.op = "stat" /\ exec.path = "hsl" /\ ~exists

ExecOther(o) ==
    /\ \/ /\ ~Absent /\ CardWorks
          /\ o = "readdir" => calls <= MaxCalls
          /\ Reply("ok")
          /\ dirs' = dirs + (IF o = "opendir" THEN 1 ELSE IF o = "closedir" THEN -1 ELSE 0)
       \/ o = "readdir" /\ CardWorks /\ Reply("end") /\ dirs' = dirs
       \/ (IF Absent THEN CardWorks ELSE CardFails) /\ Reply("fail") /\ dirs' = dirs
    /\ UNCHANGED <<rfd, wfd, replaced, exists>>

LogRest == <<offered, boots, suppressed, flight, flips, xfers, streamVars, taskVars,
             card, hdr, life, frames, amnesia>>

\* fs_owner_task takes a request ...
SyncPop ==
    /\ turn = "sync" /\ Up /\ exec = NoReq /\ reqQ # <<>>
    /\ exec' = Head(reqQ) /\ reqQ' = <<>>
    /\ UNCHANGED <<turn, fails, exists, token, call, calls, late, resQ, handleVars, queryVars, LogRest>>

\* ... and executes it.
SyncExec ==
    /\ turn = "sync" /\ Up /\ exec # NoReq
    /\ CASE exec.op = "read" -> ExecRead(exec.path)
         [] exec.op \in {"unlink", "truncate"} -> ExecReplace(exec.path)
         [] OTHER -> ExecOther(exec.op)
    /\ exec' = NoReq /\ turn' = After("sync")
    /\ UNCHANGED <<token, call, calls, late, reqQ, lane, writes, query, job, queries, answers, LogRest>>

\* No request within FS_POLL_TICKS; the age cap may close the read handle.
SyncIdle ==
    /\ turn = "sync" /\ Up /\ exec = NoReq /\ reqQ = <<>>
    /\ rfd' \in {rfd, NoFd}
    /\ turn' = After("sync")
    /\ UNCHANGED <<fails, exists, funnelVars, wfd, replaced, lane, writes, queryVars, LogRest>>

\* fs_drain_writeats (the lane's own guarantees are WriteLane's): each request
\* runs on the cached write handle, and an idle lane may release it.
WriteAt(p) ==
    /\ rfd' = IF wfd.path = p THEN rfd ELSE Without(rfd, p)
    /\ \/ CardWorks /\ wfd' = IF wfd.path = p THEN wfd ELSE Fd(p)
       \/ CardFails /\ wfd' \in {IF wfd.path = p THEN wfd ELSE NoFd, Fd(p)}

Writes ==
    /\ turn = "writes" /\ Up
    /\ IF lane # <<>>
       THEN WriteAt(Head(lane)) /\ lane' = Tail(lane) /\ turn' = turn
       ELSE /\ wfd' \in {wfd, NoFd} /\ turn' = After("writes")
            /\ CardWorks /\ UNCHANGED <<rfd, lane>>
    /\ UNCHANGED <<exists, funnelVars, replaced, writes, queryVars, LogRest>>

\* fs_owner_enqueue_write_at: an upload's chunk, the hover or battery store.
EnqueueWrite(p) ==
    /\ "write" \in offered /\ Up /\ writes < MaxWrites
    /\ lane' = Append(lane, p) /\ writes' = writes + 1
    /\ UNCHANGED <<loopVars, logVars, funnelVars, rfd, wfd, replaced, queryVars>>

-----------------------------------------------------------------------------
(* The clients                                                             *)

FreeTo(c) == Up /\ call[c].st = "idle" /\ calls < MaxCalls

\* Transfers and boot-time loads: fs_owner_read_at, _truncate, _stat.
Client(c, o, p) ==
    /\ "call" \in offered /\ FreeTo(c) /\ (c = "xfer" => job = "none")
    /\ call' = Issued(c, o, p) /\ calls' = calls + 1
    /\ UNCHANGED <<loopVars, logVars, token, late, reqQ, resQ, exec, handleVars, queryVars>>

ClientDone(c) ==
    /\ call[c].st = "done" /\ (c = "xfer" => job = "none")
    /\ call' = [call EXCEPT ![c] = NoCall]
    /\ UNCHANGED <<loopVars, logVars, token, calls, late, reqQ, resQ, exec, handleVars, queryVars>>

\* delete_verdict, for the recorder's file: the tune and the calibration are
\* always refused.
DeleteAllowed == ~active

\* fs_query_on_list, _info, _delete on the comm task: a busy slot or a refused
\* delete is answered at once.
Ask(k) ==
    /\ "query" \in offered \/ ("delete" \in offered /\ k = "delete")
    /\ Up /\ queries < MaxQueries
    /\ queries' = queries + 1
    /\ IF query[k] # "off" \/ (k = "delete" /\ ~DeleteAllowed)
       THEN UNCHANGED <<query, answers>>
       ELSE /\ query' = [query EXCEPT ![k] = "new"]
            /\ answers' = [answers EXCEPT ![k] = @ + 1]
    /\ UNCHANGED <<loopVars, logVars, funnelVars, handleVars, job, dirs>>

Answered(k) ==
    /\ query' = [query EXCEPT ![k] = "off"]
    /\ answers' = [answers EXCEPT ![k] = @ - 1]
    /\ job' = "none"

FirstOp(k) == IF k = "list" THEN "opendir" ELSE "stat"

\* fs_query_tick on the transfer task starts on a slot; a delete is judged
\* once more.
StartQuery(k) ==
    /\ job = "none" /\ query[k] = "new" /\ call["xfer"].st = "idle" /\ Up
    /\ IF k = "delete" /\ ~DeleteAllowed
       THEN Answered(k) /\ UNCHANGED <<call, calls>>
       ELSE /\ job' = k
            /\ call' = Issued("xfer", FirstOp(k), "hsl") /\ calls' = calls + 1
            /\ UNCHANGED <<query, answers>>
    /\ UNCHANGED <<loopVars, logVars, token, late, reqQ, resQ, exec, handleVars, queries, dirs>>

\* The call after this one, if the query needs one.
FollowUp(k, o, r) ==
    CASE k = "delete" /\ o = "stat" /\ r = "ok" -> "unlink"
      [] k = "list" /\ o \in {"opendir", "readdir"} /\ r = "ok" -> "readdir"
      [] k = "list" /\ o = "readdir" /\ r # "ok" -> "closedir"
      [] OTHER -> "none"

StepQuery ==
    LET o == call["xfer"].op
        n == FollowUp(job, o, call["xfer"].res)
    IN  /\ job # "none" /\ call["xfer"].st = "done"
        /\ IF n = "none"
           THEN /\ Answered(job)
                /\ call' = [call EXCEPT !["xfer"] = NoCall] /\ calls' = calls
           ELSE /\ call' = Issued("xfer", n, "hsl") /\ calls' = calls + 1
                /\ UNCHANGED <<query, job, answers>>
        /\ UNCHANGED <<loopVars, logVars, token, late, reqQ, resQ, exec, handleVars, queries, dirs>>

CallStep(c) ==
    /\ TakeToken(c) \/ TakeResult(c) \/ GiveUp(c)
    /\ UNCHANGED <<loopVars, logVars, handleVars, queryVars>>

-----------------------------------------------------------------------------
(* Properties                                                              *)

SvcTypeOK ==
    /\ token \in Callers \union {"free"}
    /\ \A c \in Callers : call[c].st \in {"idle", "token", "wait", "done"}
    /\ Len(reqQ) <= 1 /\ Len(resQ) <= 1
    /\ job \in Kinds \union {"none"}
    /\ \A k \in Kinds : query[k] \in {"off", "new"}

\* A caller gets the result of its own request, as long as no caller has given
\* up on one (fs_sync_call: results carry no name).
SyncMatched ==
    late = 0 => \A c \in Callers : call[c].st = "done" => call[c].of = call[c].id

\* The two cached handles are never on one file, and a handle never outlives
\* its file, but for the tune and calibration that fs_do_save replaces
\* without looking at the caches.
HandlesApart ==
    /\ rfd.path = wfd.path => rfd = NoFd
    /\ \A h \in {rfd, wfd} :
         h # NoFd /\ h.made # replaced[h.path] => h.path \in {"pid", "cal"}

\* A browsing request that was accepted gets one terminal answer, and on a card
\* that works, and is never so slow that a call is given up, the directory it
\* walked is closed.
QueriesSettled ==
    /\ \A k \in Kinds : answers[k] = (IF query[k] = "off" THEN 0 ELSE 1)
    /\ "slow" \notin offered /\ fails = 0 /\ job # "list" => dirs = 0

\* Work other tasks are waiting for.
Waiters == {c \in Callers : call[c].st \in {"token", "wait"}}
Asked == {k \in Kinds : query[k] = "new"}

\* Filesystem calls of other tasks get their own result from their own file,
\* and a query that ended left nothing open.
CallsSettled == SvcTypeOK /\ SyncMatched /\ HandlesApart /\ QueriesSettled
=============================================================================
