------------------------------- MODULE LxcSsh -------------------------------
(***************************************************************************)
(* The connection plugin lxc_ssh: each operation on a container runs ssh,  *)
(* whose output is read in a loop that may have to answer the prompt of a  *)
(* privilege escalation before it may send data, and tries again when ssh  *)
(* fails.                                                                  *)
(*                                                                         *)
(* Output is a sequence of lines, of which the model keeps the kind: the   *)
(* "prompt" of the escalation, its "success", "error" (wrong password) or  *)
(* "nopass" message, ssh's message about a "broken" ControlPersist pipe or *)
(* its "config" that it does not know, other "text", and "tail", a last    *)
(* line that is not ended.  Of return codes it keeps 0, 6, 255 and 1, that *)
(* stands for all others.                                                  *)
(***************************************************************************)
EXTENDS Naturals, SequencesExt

CONSTANTS
    Retries,       \* the option of that name
    Becomes,       \* what a play may say of escalation: none, with a "prompt", by "key" only
    Passwords      \* whether ssh itself is given a password, by sshpass

ASSUME LxcSshAssumption ==
    /\ Retries \in Nat
    /\ Becomes \subseteq {"none", "prompt", "key"}
    /\ Passwords \subseteq BOOLEAN

Streams == {"out", "err"}
Nothing == [s \in Streams |-> <<>>]
Kinds == {"prompt", "success", "error", "nopass", "broken", "config", "text",
          "tail"}
Probes == {"lxc", "lxc-info", "cgroup"}
Operations == {"exec", "put", "touch", "fetch"}
Jobs == [op : Probes \union Operations, data : BOOLEAN, become : Becomes \union {"none"}]

VARIABLES
    \* the connection
    pc, job, attempt,
    again,      \* this is the second go after a broken ControlPersist pipe
    password,   \* ssh is given one
    checking,   \* the option host_key_checking, which is looked at with a password only
    secret,     \* the pipe of sshpass: "none", "open" or "used"
    found,      \* which probes have found something, and "ready"
    outcome,
    \* the loop
    state,      \* 0 awaiting_prompt, 1 awaiting_escalation, 2 ready_to_send, 3 awaiting_exit
    flags, watched, polled,
    tmp, got,   \* output not examined yet, and output
    \* the process and what runs behind it
    proc, rc,
    sudo,       \* "off", "will" (ask or not), "asked", "granted", "denied"
    stdin, pipes, open,
    work,       \* "todo", "half", "done", "failed"
    written,    \* (history) what it wrote that is output
    file        \* the file that put writes

loop == <<state, flags, watched, polled, tmp, got>>
remote == <<proc, rc, sudo, stdin, pipes, open, work, written>>
link == <<job, password, checking, found>>
vars == <<pc, job, attempt, again, password, checking, secret, found, outcome, state, flags, watched,
          polled, tmp, got, proc, rc, sudo, stdin, pipes, open, work, written, file>>

Init ==
    /\ pc = "idle" /\ job = [op |-> "lxc", data |-> FALSE, become |-> "none"]
    /\ attempt = 0 /\ again = FALSE /\ password \in Passwords /\ secret = "none"
    /\ checking \in BOOLEAN /\ (password \/ checking) /\ found = {} /\ outcome = "returned"
    /\ state = 3 /\ flags = {} /\ watched = {} /\ polled = FALSE
    /\ tmp = Nothing /\ got = Nothing
    /\ proc = "none" /\ rc = 0 /\ sudo = "off" /\ stdin = <<>> /\ pipes = Nothing /\ open = {}
    /\ work = "todo" /\ written = Nothing /\ file \in {"none", "old"}

-----------------------------------------------------------------------------
(* Operations and retries                                                  *)

\* set_options() finds out the version of LXC and about control groups; then
\* exec_command(), put_file() and fetch_file() may be called.  A put of an empty
\* file is a `touch' without data.  _build_command() makes the pipe for sshpass.
\* What the play says of escalation is the same for all of them.
NewPipe == IF password THEN "open" ELSE "none"
Call(op, data, become) ==
    /\ pc = "idle" /\ pc' = "popen"
    /\ job' = [op |-> op, data |-> data, become |-> become]
    /\ attempt' = 0 /\ again' = FALSE /\ secret' = NewPipe
    /\ UNCHANGED <<password, checking, outcome, loop, remote, file>>
SetOptions ==
    "ready" \notin found /\ found' = {} /\ \E become \in Becomes : Call("lxc", FALSE, become)
ExecCommand(become) == \E data \in BOOLEAN : Call("exec", data, become)
PutFile(become) == Call("put", TRUE, become) \/ Call("touch", FALSE, become)
FetchFile(become) == Call("fetch", FALSE, become)
Operate ==
    /\ "ready" \in found /\ UNCHANGED found
    /\ \E become \in Becomes : ExecCommand(become) \/ PutFile(become) \/ FetchFile(become)

\* Popen(): with the descriptors of a pipe that is closed already it fails.  Then
\* the password goes into the pipe, which is closed, and data that need not wait
\* into the process.  What state the loop begins in depends on the play and not on
\* the operation, although it is the commands of exec only that escalate.
Popen ==
    /\ pc = "popen"
    /\ \/ /\ password /\ secret = "used"
          /\ pc' = "failed" /\ UNCHANGED <<secret, loop, remote>>
       \/ /\ password => secret = "open"
          /\ LET first == CASE job.become = "prompt" -> 0 [] job.become = "key" -> 1
                            [] OTHER -> IF job.data THEN 3 ELSE 2
             IN  /\ state' = first
                 /\ stdin' = IF first = 3 THEN <<"data">> ELSE <<>>
          /\ secret' = IF password THEN "used" ELSE secret
          /\ flags' = {} /\ watched' = Streams /\ polled' = FALSE
          /\ tmp' = Nothing /\ got' = Nothing
          /\ proc' = "running" /\ rc' = 0 /\ pipes' = Nothing /\ open' = Streams
          /\ sudo' = IF job.op = "exec" /\ job.become # "none" THEN "will" ELSE "off"
          /\ work' = "todo" /\ written' = Nothing /\ pc' = "poll"
    /\ UNCHANGED <<link, attempt, again, outcome, file>>

\* Mutant: a message about the pipe is not looked for, and 255 is a return code.
CollectAnyhow ==
    /\ pc = "collect" /\ pc' = "returned"
    /\ UNCHANGED <<link, attempt, again, secret, outcome, loop, remote, file>>

\* Mutant: any code but 0 is a failure.
CollectNonzero ==
    /\ pc = "collect" /\ pc' = (IF rc = 0 THEN "returned" ELSE "failed")
    /\ UNCHANGED <<link, attempt, again, secret, outcome, loop, remote, file>>

\* After the loop: the return code and the messages decide what kind of failure
\* it was, if it was one; 255 is ssh's own, and 6 is sshpass's that will not answer
\* for the key of the host.  The probes and touch have no data, and for them it is
\* the decorator that finds the 255.  Every other code is the result, also where it
\* is sshpass that failed.
HostKey == password /\ checking /\ rc = 6
OldSsh == rc # 0 /\ "config" \in ToSet(got["err"])
Collect ==
    /\ pc = "collect"
    /\ IF rc = 255 /\ "broken" \in ToSet(got["err"]) /\ ~OldSsh /\ ~again
       THEN pc' = "popen" /\ again' = TRUE
       ELSE /\ pc' = IF rc = 255 \/ HostKey \/ OldSsh THEN "failed" ELSE "returned"
            /\ UNCHANGED again
    /\ UNCHANGED <<link, attempt, secret, outcome, loop, remote, file>>

\* Mutant: the first try is not counted.
RetryMore ==
    /\ pc = "failed"
    /\ \/ attempt > Retries /\ pc' = "ended" /\ outcome' = "raised"
          /\ UNCHANGED <<attempt, again, secret>>
       \/ /\ attempt <= Retries /\ pc' = "popen" /\ attempt' = attempt + 1 /\ again' = FALSE
          /\ secret' = IF password THEN "open" ELSE secret
          /\ UNCHANGED outcome
    /\ UNCHANGED <<link, loop, remote, file>>

\* _ssh_retry(): any exception is tried again, after a pause and with a new pipe
\* for the password.
Retry ==
    /\ pc = "failed"
    /\ \/ attempt = Retries /\ pc' = "ended" /\ outcome' = "raised"
          /\ UNCHANGED <<attempt, again, secret>>
       \/ /\ attempt < Retries /\ pc' = "popen" /\ attempt' = attempt + 1 /\ again' = FALSE
          /\ secret' = IF password THEN "open" ELSE secret
          /\ UNCHANGED outcome
    /\ UNCHANGED <<link, loop, remote, file>>

\* _set_version() asks for both commands, and with neither it raises; fetch_file()
\* raises if the command failed; put_file() does not look.  What the probes found
\* decides no more than how the commands are worded.
NextProbe == CASE job.op = "lxc" -> "lxc-info" [] job.op = "lxc-info" -> "cgroup"
               [] OTHER -> "ready"
Return ==
    /\ pc = "returned"
    /\ LET now == IF rc = 0 /\ job.op \in Probes THEN found \union {job.op} ELSE found
           lost == job.op = "lxc-info" /\ now \intersect {"lxc", "lxc-info"} = {}
       IN  \/ /\ job.op \in {"lxc", "lxc-info"} /\ ~lost
              /\ found' = now /\ job' = [job EXCEPT !.op = NextProbe] /\ pc' = "popen"
              /\ attempt' = 0 /\ again' = FALSE /\ secret' = NewPipe /\ UNCHANGED outcome
           \/ /\ job.op \in Operations \union {"cgroup"} \/ lost
              /\ found' = IF job.op = "cgroup" THEN {"ready"} ELSE now
              /\ pc' = "ended"
              /\ outcome' = IF lost \/ (job.op = "fetch" /\ rc # 0) THEN "refused"
                            ELSE "returned"
              /\ UNCHANGED <<job, attempt, again, secret>>
    /\ UNCHANGED <<password, checking, loop, remote, file>>

Rest ==
    /\ pc = "ended" /\ pc' = "idle" /\ proc' = "none" /\ attempt' = 0 /\ again' = FALSE
    /\ secret' = "none" /\ outcome' = "returned" /\ rc' = 0 /\ sudo' = "off" /\ stdin' = <<>>
    /\ pipes' = Nothing /\ open' = {} /\ work' = "todo" /\ written' = Nothing
    /\ state' = 3 /\ flags' = {} /\ watched' = {} /\ polled' = FALSE
    /\ tmp' = Nothing /\ got' = Nothing
    /\ UNCHANGED <<link, file>>

-----------------------------------------------------------------------------
(* The loop of _bare_run()                                                 *)

\* The process is polled before the streams are, so what it says may be old.
Poll ==
    /\ pc = "poll" /\ polled' = (proc # "running") /\ pc' = "select"
    /\ UNCHANGED <<link, attempt, again, secret, outcome, state, flags, watched, tmp, got,
                   remote, file>>

\* select(): streams with output, and streams at their end.
Ready == {s \in watched : pipes[s] # <<>> \/ s \notin open}
Chunk == [s \in Streams |-> tmp[s] \o (IF s \in Ready THEN pipes[s] ELSE <<>>)]

\* _examine_output(): prompts and successes are flags, and no output; a line that is
\* not ended is kept for the next time.
IsOutput(line) == line \notin {"prompt", "success"}
Output(lines) ==
    LET upto[n \in 0..Len(lines)] ==
            IF n = 0 THEN <<>>
            ELSE IF IsOutput(lines[n]) THEN Append(upto[n - 1], lines[n]) ELSE upto[n - 1]
    IN  upto[Len(lines)]
Unfinished(lines) == lines # <<>> /\ Last(lines) = "tail"
Examined(lines) ==
    LET output == Output(lines)
    IN  IF Unfinished(output) THEN [done |-> Front(output), rest |-> <<"tail">>]
        ELSE [done |-> output, rest |-> <<>>]
Seen == flags \union
    ((UNION {ToSet(Chunk[s]) : s \in Streams})
        \intersect {"prompt", "success", "error", "nopass"})

\* Mutant: the answer to the prompt is taken for the success.
NegotiatedEarly(s, f) ==
    [answer |-> IF s = 0 /\ "prompt" \in f THEN <<"password">> ELSE <<>>, verdict |-> "none",
     state |-> IF f \intersect {"prompt", "success"} # {} THEN 2 ELSE s, flags |-> {}]

\* What the flags mean: the prompt is answered once, then success or failure is
\* waited for, and a second prompt is a failure.
Negotiated(s, f) ==
    LET asks == s = 0 /\ "prompt" \in f
        s1 == IF s = 0 /\ f \intersect {"prompt", "success"} # {} THEN 1 ELSE s
        f1 == IF asks THEN f \ {"prompt"} ELSE f
    IN  [answer |-> IF asks THEN <<"password">> ELSE <<>>,
         verdict |-> IF s1 = 1 /\ "success" \notin f1
                        /\ f1 \intersect {"error", "nopass", "prompt"} # {}
                     THEN "failure" ELSE "none",
         state |-> IF s1 = 1 /\ "success" \in f1 THEN 2 ELSE s1,
         flags |-> IF s1 = 1 THEN f1 \ {"success"} ELSE f1]

\* Mutant: a stream that has had its end is not read a last time.
LeaveAtExit(events, left) == IF polled \/ left = {} THEN "collect" ELSE "poll"

\* Mutant: the loop goes on to the end of both streams.
LeaveAtEnd(events, left) == IF left = {} THEN "wait" ELSE "poll"

\* When the loop ends: the process was seen to have exited, and nothing is left to
\* read; or nothing will ever be, and p.wait() waits for the exit.
Leave(events, left) ==
    IF polled THEN IF left = {} \/ events = {} THEN "collect" ELSE "poll"
    ELSE IF left = {} THEN "wait" ELSE "poll"

\* The rest of an iteration, unless it times out.
Turn ==
    /\ pc = "select" /\ (Ready # {} \/ state >= 2)
    /\ LET left == watched \ {s \in Ready : pipes[s] = <<>>}
           n == IF state < 2 THEN Negotiated(state, Seen)
                ELSE [answer |-> <<>>, verdict |-> "none", state |-> state, flags |-> flags]
           cut == [s \in Streams |-> IF state < 2 THEN Examined(Chunk[s])
                                     ELSE [done |-> Chunk[s], rest |-> <<>>]]
           sends == n.answer \o (IF n.state = 2 /\ job.data THEN <<"data">> ELSE <<>>)
       IN  /\ pipes' = [s \in Streams |-> IF s \in Ready THEN <<>> ELSE pipes[s]]
           /\ watched' = left /\ flags' = n.flags
           /\ got' = [s \in Streams |-> got[s] \o cut[s].done]
           /\ tmp' = [s \in Streams |-> cut[s].rest]
           /\ \/ /\ n.verdict = "failure" /\ pc' = "failed" /\ state' = n.state
                 /\ proc' = IF proc = "running" THEN "terminated" ELSE proc
                 /\ open' = {} /\ stdin' = stdin \o sends
              \/ /\ n.verdict = "none" /\ state' = (IF n.state = 2 THEN 3 ELSE n.state)
                 /\ pc' = Leave(Ready, left)
                 /\ stdin' = stdin \o sends /\ UNCHANGED <<proc, open>>
              \/ \* the process is gone, and the data cannot be sent
                 /\ n.verdict = "none" /\ sends # <<>> /\ proc # "running" /\ pc' = "failed"
                 /\ state' = n.state /\ UNCHANGED <<proc, open, stdin>>
    /\ UNCHANGED <<link, attempt, again, secret, outcome, polled, rc, sudo, work, written, file>>

\* A timeout counts only while a prompt is negotiated, and only if the process was
\* not seen to have exited.
Timeout ==
    /\ pc = "select" /\ Ready = {} /\ state < 2
    /\ \/ polled /\ pc' = "collect" /\ UNCHANGED <<proc, open>>
       \/ /\ ~polled /\ pc' = "failed" /\ open' = {}
          /\ proc' = IF proc = "running" THEN "terminated" ELSE proc
    /\ UNCHANGED <<link, attempt, again, secret, outcome, loop, rc, sudo, stdin, pipes, work,
                   written, file>>
Wait ==
    /\ pc = "wait" /\ proc # "running" /\ pc' = "collect"
    /\ UNCHANGED <<link, attempt, again, secret, outcome, loop, remote, file>>

-----------------------------------------------------------------------------
(* What runs behind ssh                                                    *)

Say(s, line) ==
    /\ pipes' = [pipes EXCEPT ![s] = Append(@, line)]
    /\ written' = IF IsOutput(line) THEN [written EXCEPT ![s] = Append(@, line)] ELSE written

\* sudo, or what is used in its place: it asks or does not, and then judges the
\* password.
Ask == sudo = "will" /\ job.become = "prompt" /\ sudo' = "asked" /\ Say("err", "prompt")
       /\ UNCHANGED stdin
Judge ==
    /\ sudo = "asked" /\ stdin # <<>> /\ stdin' = Tail(stdin)
    /\ \/ Head(stdin) = "password" /\ sudo' = "granted" /\ Say("out", "success")
       \/ sudo' = "will" /\ Say("err", "error")
Grant == sudo = "will" /\ sudo' = "granted" /\ Say("out", "success") /\ UNCHANGED stdin
Deny == sudo = "will" /\ sudo' = "denied" /\ Say("err", "nopass") /\ UNCHANGED stdin
Escalation ==
    /\ proc = "running" /\ (Ask \/ Judge \/ Grant \/ Deny)
    /\ UNCHANGED <<pc, link, attempt, again, secret, outcome, loop, proc, rc, open, work, file>>

\* The command: the shell opens the file of a put, empty, before there is data.
\* Without a terminal it has a stderr of its own, and may write there what ssh does.
Admitted == sudo \in {"off", "granted"}
Work ==
    /\ proc = "running" /\ Admitted
    /\ \/ work = "todo" /\ job.op = "put" /\ work' = "half" /\ file' = "part"
          /\ UNCHANGED <<pipes, written, stdin>>
       \/ /\ work = "todo" /\ job.op \in {"put", "touch"} /\ work' = "failed"
          /\ Say(IF job.op = "put" THEN "err" ELSE "out", "text")
          /\ UNCHANGED <<file, stdin>>
       \/ work = "half" /\ stdin = <<"data">> /\ stdin' = <<>> /\ work' = "done"
          /\ file' = "new" /\ Say("out", "tail")
       \/ /\ work = "todo" /\ job.op # "put"
          /\ job.data => stdin = <<"data">>
          /\ stdin' = <<>> /\ work' = "done"
          /\ file' = IF job.op = "touch" /\ file = "none" THEN "empty" ELSE file
          /\ \/ \E line \in {"text", "tail"} : Say("out", line)
             \/ (job.data \/ job.op = "fetch") /\ Say("err", "config")
    /\ UNCHANGED <<pc, link, attempt, again, secret, outcome, loop, proc, rc, sudo, open>>

\* ssh exits: with the code of the command (that of put and touch ends with an
\* echo), of what runs it in the container or of what refused to, or with 255
\* whenever the connection is lost; sshpass has codes of its own.  A background
\* process of ControlPersist may keep stderr open.
Exit ==
    /\ proc = "running"
    /\ proc' = "exited"
    /\ \/ /\ work \in {"done", "failed"} /\ rc' = 0 /\ UNCHANGED <<pipes, written>>
       \/ rc' \in {1, 255} /\ UNCHANGED <<pipes, written>>
       \/ rc' = 6 /\ work = "done" /\ job.op = "exec" /\ UNCHANGED <<pipes, written>>
       \/ rc' = 6 /\ work = "todo" /\ password /\ UNCHANGED <<pipes, written>>
       \/ rc' = 255 /\ work = "todo" /\ \E line \in {"broken", "config"} : Say("err", line)
    /\ open' \in {{}, {"err"}}
    /\ UNCHANGED <<pc, link, attempt, again, secret, outcome, loop, sudo, stdin, work, file>>

Program ==
    \/ Popen \/ Collect \/ Retry \/ Return \/ Poll \/ Turn \/ Timeout \/ Wait
Next == SetOptions \/ Operate \/ Program \/ Rest \/ Escalation \/ Work \/ Exit

Spec == Init /\ [][Next]_vars

\* The plugin goes on; nothing is assumed of what runs behind ssh.
FairSpec == Spec /\ WF_vars(Program)

-----------------------------------------------------------------------------
(* What has to be true of it                                               *)

\* What has been read, "tmp" and "got", is the subject of NothingLost.
TypeOK ==
    /\ pc \in {"idle", "popen", "poll", "select", "wait", "collect", "failed", "returned",
              "ended"}
    /\ job \in Jobs /\ attempt \in 0..Retries /\ again \in BOOLEAN
    /\ password \in Passwords /\ checking \in BOOLEAN /\ secret \in {"none", "open", "used"}
    /\ found \in SUBSET {"lxc", "lxc-info", "cgroup", "ready"}
    /\ outcome \in {"returned", "refused", "raised"}
    /\ state \in 0..3 /\ flags \subseteq Kinds /\ watched \in SUBSET Streams
    /\ polled \in BOOLEAN
    /\ pipes \in [Streams -> Seq(Kinds)] /\ written \in [Streams -> Seq(Kinds)]
    /\ proc \in {"none", "running", "exited", "terminated"} /\ rc \in {0, 1, 6, 255}
    /\ sudo \in {"off", "will", "asked", "granted", "denied"}
    /\ stdin \in Seq({"password", "data"}) /\ open \in SUBSET Streams
    /\ work \in {"todo", "half", "done", "failed"}
    /\ file \in {"none", "old", "empty", "part", "new"}

\* The data of a module never goes to the program that asks for a password, nor the
\* password to anything else: what is written to the process is written when it is
\* what the process waits for.
NothingMisread == [][\A x \in {"password", "data"} :
    x \in ToSet(stdin') /\ x \notin ToSet(stdin) =>
        CASE x = "password" -> sudo = "asked"
          [] x = "data" -> sudo' \in {"off", "granted"} \/ proc # "running"]_vars

\* A command's output is complete when its result is returned, although the process
\* is polled before its streams are read and stderr may never end: all that was
\* written, without prompts.  Only a process that ended while its prompt was being
\* negotiated may lose a last line that was not ended.
NothingLost == pc \in {"collect", "returned"} => \A s \in Streams :
    \/ got[s] = written[s]
    \/ state < 2 /\ Unfinished(written[s]) /\ got[s] = Front(written[s])

\* A failure that can be told is never returned as the result of a command, and
\* none is raised before every retry was made.
FailuresRetried ==
    /\ pc = "returned" => rc # 255 /\ ~HostKey
    /\ outcome = "raised" => attempt = Retries

\* What is returned as a success has run, although the process is polled early, may
\* be waited for or not, and time may run out on it.
SuccessHasRun == pc = "returned" /\ rc = 0 => work \in {"done", "failed"}

\* After a put that returned a success, the file has the content that was sent,
\* unless the shell on the other side could not write it.
PutMeansPut ==
    job.op = "put" /\ pc = "ended" /\ outcome = "returned" /\ rc = 0 =>
        file = "new" \/ work = "failed"

\* A result is not a failure of ssh that it could be told from, and a success is
\* true: the command ran, and the file of a put is there.  Of the other codes it
\* cannot be said whose they are.
ResultIsTrue == FailuresRetried /\ SuccessHasRun /\ PutMeansPut

\* A command that has run to its end is not run again, whichever timeouts, prompts
\* and errors are met, unless it ended like a failure of ssh does: with 255, with
\* 6 under sshpass, or with an error and ssh's words about its configuration.  Not
\* so the other operations of a play that escalates: they wait for a prompt that
\* nobody writes.
DoneIsNotRepeated == [][
    pc = "popen" /\ (attempt > 0 \/ again) /\ proc' = "running" /\ work = "done" =>
        \/ rc = 255 \/ HostKey \/ OldSsh
        \/ job.op # "exec" /\ job.become # "none"]_vars

\* An operation ends, or waits for a process that runs: a prompt that never comes, a
\* stream that never ends and an exit that is seen late do not hold it up.
EndsOrRuns == []<>(pc \in {"idle", "ended"} \/ (state >= 2 /\ proc = "running"))

=============================================================================
