---------------------------- MODULE PluginsProofs ---------------------------
(***************************************************************************)
(* What is proved of the plugins that Ansible loads.                       *)
(*                                                                         *)
(* What the connection plugin never does, for any number of retries and    *)
(* any timing of ssh, sudo and the command: take for a success what has    *)
(* not run, or for a result a failure of ssh that can be told, run again   *)
(* what has ended otherwise than ssh fails, and give the password or the   *)
(* data to the wrong program.                                              *)
(*                                                                         *)
(* The argument: "Places" says where the process can be in each part of    *)
(* the code; "Talk" that as long as the escalation is negotiated a message *)
(* of success is still to be read if there was one; "Result" and "Runs"    *)
(* follow what was done and what ssh said of it; "Accounted" that a line   *)
(* that was written is output, was examined and kept, or is still to be    *)
(* read.  What lines are output is computed by recursion, and what is      *)
(* known of it is proved by induction.                                     *)
(*                                                                         *)
(* The items of a configuration: however they are anchored, sorting puts   *)
(* each where it says, or refuses all of them.  A row is known by what     *)
(* comes before what in it ("Comes").  "PlaceIs" says what one group does  *)
(* to a row, "SortedSoFar" what the groups of the first k targets have     *)
(* made of it, and "HopsAre" that a target is in the result when its turn  *)
(* comes.  A list that is refused has an item anchored to itself, since a  *)
(* chain of as many anchors as there are items goes through one of them    *)
(* twice ("CyclicIs").                                                     *)
(***************************************************************************)
EXTENDS LxcSsh, KvConfig, FiniteSetTheorems, SequenceTheorems, WellFoundedInduction, TLAPS

Live == {"poll", "select"}

\* Where the process is.
Places ==
    /\ proc = "running" => pc \in Live \union {"wait"} /\ rc = 0
    /\ pc \in Live \union {"wait", "collect", "returned"} => proc \in {"running", "exited"}
    /\ pc = "select" /\ polled => proc = "exited"
    /\ pc \in {"collect", "returned"} => proc = "exited"
    /\ pc = "idle" => work = "todo" /\ proc = "none" /\ sudo = "off"
    /\ pc # "ended" => outcome = "returned"
    /\ job.op = "put" => job.data
    /\ pc = "returned" => rc # 255 /\ ~HostKey
    /\ proc = "running" => open = Streams

\* Who may have said what.
Escalated ==
    /\ sudo # "off" => job.op = "exec" /\ job.become # "none"
    /\ work # "todo" => sudo \in {"off", "granted"}
    /\ pc \in Live /\ state = 2 => ~job.data
    /\ pc \in Live /\ proc = "running" /\ state >= 2 => sudo \in {"off", "granted"}

\* As long as the escalation is negotiated: what was read is no answer, what is still
\* to be read is the last that was said, and no data was sent.
Talk == pc \in Live /\ state < 2 =>
    /\ job.become # "none" /\ (job.op = "exec" => sudo # "off")
    /\ tmp \in [Streams -> {<<>>, <<"tail">>}]
    /\ flags \intersect {"prompt", "success"} = {}
    /\ \A s \in Streams : "success" \in ToSet(pipes[s]) => sudo = "granted"
    /\ sudo = "granted" => "success" \in ToSet(pipes["out"])
    /\ proc = "running" \/ sudo = "granted" => "out" \in watched
    /\ state = 0 =>
        stdin = <<>> /\ \A s \in Streams : "prompt" \in ToSet(pipes[s]) => sudo = "asked"
    /\ "data" \notin ToSet(stdin)
    /\ job.data /\ job.op = "exec" => work = "todo"

\* What there is of the command and of the file.
Result ==
    /\ proc = "exited" /\ rc = 0 => work \in {"done", "failed"}
    /\ job.op = "put" /\ work = "done" => file = "new"
    /\ PutMeansPut
    /\ outcome = "raised" => attempt = Retries

\* A command that has ended and is run again, or will be, has ended like ssh fails.
Excused ==
    rc = 255 \/ HostKey \/ OldSsh \/ (job.op # "exec" /\ job.become # "none")
Runs ==
    /\ pc = "failed" /\ work = "done" => Excused
    /\ pc = "popen" /\ work = "done" /\ (attempt > 0 \/ again) => Excused
    /\ pc = "popen" /\ attempt = 0 /\ ~again /\ password => secret = "open"

IInv == TypeOK /\ Places /\ Escalated /\ Talk /\ Result /\ Runs

-----------------------------------------------------------------------------
(* Lemmas                                                                  *)

\* What is in a sequence after something was put to it, or taken from it.
LEMMA InAppend ==
    ASSUME NEW S, NEW seq \in Seq(S), NEW e \in S
    PROVE  Append(seq, e) \in Seq(S) /\ ToSet(Append(seq, e)) = ToSet(seq) \union {e}
  <1>1. /\ Append(seq, e) \in Seq(S) /\ Len(Append(seq, e)) = Len(seq) + 1 /\ Len(seq) \in Nat
        /\ \A i \in 1..Len(seq) : Append(seq, e)[i] = seq[i]
        /\ Append(seq, e)[Len(seq) + 1] = e
    OBVIOUS
  <1>2. 1..(Len(seq) + 1) = (1..Len(seq)) \union {Len(seq) + 1}
    BY <1>1
  <1> QED
    BY <1>1, <1>2 DEF ToSet

LEMMA InConcat ==
    ASSUME NEW S, NEW s \in Seq(S), NEW t \in Seq(S)
    PROVE  s \o t \in Seq(S) /\ ToSet(s \o t) = ToSet(s) \union ToSet(t)
  <1>1. s \o t \in Seq(S) /\ Len(s \o t) = Len(s) + Len(t)
    OBVIOUS
  <1>2. ToSet(s \o t) \subseteq ToSet(s) \union ToSet(t)
    BY <1>1 DEF ToSet
  <1>3. ToSet(s) \subseteq ToSet(s \o t)
    BY <1>1 DEF ToSet
  <1>4. ASSUME NEW i \in 1..Len(t) PROVE t[i] \in ToSet(s \o t)
    <2>1. (s \o t)[Len(s) + i] = t[i] /\ Len(s) + i \in 1..Len(s \o t)
      BY <1>1
    <2> QED
      BY <1>1, <2>1 DEF ToSet
  <1> QED
    BY <1>1, <1>2, <1>3, <1>4 DEF ToSet

LEMMA InTail ==
    ASSUME NEW S, NEW seq \in Seq(S), seq # <<>>
    PROVE  Tail(seq) \in Seq(S) /\ ToSet(Tail(seq)) \subseteq ToSet(seq) /\ Head(seq) \in S
  BY DEF ToSet

LEMMA InEmpty == ToSet(<<>>) = {}
  BY DEF ToSet

\* A line is the last one of its stream, and nothing else is said.
LEMMA SayFacts ==
    ASSUME TypeOK, NEW s \in Streams, NEW line \in Kinds, Say(s, line)
    PROVE  /\ pipes' \in [Streams -> Seq(Kinds)] /\ written' \in [Streams -> Seq(Kinds)]
           /\ \A t \in Streams : t # s => ToSet(pipes'[t]) = ToSet(pipes[t])
           /\ ToSet(pipes'[s]) = ToSet(pipes[s]) \union {line}
  <1>1. /\ pipes[s] \in Seq(Kinds) /\ written[s] \in Seq(Kinds)
        /\ pipes' = [pipes EXCEPT ![s] = Append(pipes[s], line)]
        /\ written' = written \/ written' = [written EXCEPT ![s] = Append(written[s], line)]
    BY DEF Say, TypeOK
  <1>2. /\ Append(pipes[s], line) \in Seq(Kinds) /\ Append(written[s], line) \in Seq(Kinds)
        /\ ToSet(Append(pipes[s], line)) = ToSet(pipes[s]) \union {line}
    BY <1>1, InAppend
  <1>3. pipes' \in [Streams -> Seq(Kinds)]
    BY <1>1, <1>2 DEF TypeOK
  <1>4. written' \in [Streams -> Seq(Kinds)]
    <2>1. CASE written' = written
      BY <2>1 DEF TypeOK
    <2>2. CASE written' = [written EXCEPT ![s] = Append(written[s], line)]
      BY <2>2, <1>2 DEF TypeOK
    <2> QED
      BY <1>1, <2>1, <2>2
  <1> QED
    BY <1>1, <1>2, <1>3, <1>4 DEF TypeOK

\* What is seen while the escalation is negotiated was said since.
LEMMA SeenFacts ==
    ASSUME TypeOK, Talk, pc = "select", state < 2
    PROVE  /\ Seen \subseteq Kinds
           /\ "success" \in Seen <=> sudo = "granted"
           /\ state = 0 /\ "prompt" \in Seen => sudo = "asked"
  <1>1. /\ tmp \in [Streams -> {<<>>, <<"tail">>}] /\ pipes \in [Streams -> Seq(Kinds)]
        /\ flags \subseteq Kinds \ {"prompt", "success"}
        /\ \A s \in Streams : "success" \in ToSet(pipes[s]) => sudo = "granted"
        /\ sudo = "granted" => "success" \in ToSet(pipes["out"]) /\ "out" \in watched
        /\ state = 0 => \A s \in Streams : "prompt" \in ToSet(pipes[s]) => sudo = "asked"
    BY DEF Talk, TypeOK, Live
  <1>2. \A s \in Streams : tmp[s] \in Seq(Kinds) /\ ToSet(tmp[s]) \subseteq {"tail"}
    <2>1. ToSet(<<"tail">>) = {"tail"} /\ <<"tail">> \in Seq(Kinds) /\ <<>> \in Seq(Kinds)
      BY DEF ToSet, Kinds
    <2> QED
      BY <1>1, <2>1, InEmpty
  <1>3. \A s \in Streams : ToSet(Chunk[s]) =
            ToSet(tmp[s]) \union (IF s \in Ready THEN ToSet(pipes[s]) ELSE {})
    <2> SUFFICES ASSUME NEW s \in Streams
                 PROVE  ToSet(Chunk[s]) =
                            ToSet(tmp[s]) \union (IF s \in Ready THEN ToSet(pipes[s]) ELSE {})
      OBVIOUS
    <2>1. CASE s \in Ready
      <3>1. Chunk[s] = tmp[s] \o pipes[s]
        BY <2>1 DEF Chunk
      <3>2. tmp[s] \in Seq(Kinds) /\ pipes[s] \in Seq(Kinds)
        BY <1>1, <1>2
      <3>3. ToSet(tmp[s] \o pipes[s]) = ToSet(tmp[s]) \union ToSet(pipes[s])
        BY <3>2, InConcat
      <3> QED
        BY <2>1, <3>1, <3>3
    <2>2. CASE s \notin Ready
      <3>1. Chunk[s] = tmp[s] \o <<>>
        BY <2>2 DEF Chunk
      <3>2. tmp[s] \in Seq(Kinds) /\ <<>> \in Seq(Kinds)
        BY <1>2
      <3>3. ToSet(tmp[s] \o <<>>) = ToSet(tmp[s]) \union ToSet(<<>>)
        BY <3>2, InConcat
      <3> QED
        BY <2>2, <3>1, <3>3, InEmpty
    <2> QED
      BY <2>1, <2>2
  <1>4. sudo = "granted" => "out" \in Ready
    BY <1>1, InEmpty DEF Ready
  <1>5. ASSUME NEW x \in {"prompt", "success"}
        PROVE  x \in Seen <=> \E s \in Streams : s \in Ready /\ x \in ToSet(pipes[s])
    <2>1. x \in Seen <=> \E s \in Streams : x \in ToSet(Chunk[s])
      BY <1>1 DEF Seen
    <2>2. \A s \in Streams : x \notin ToSet(tmp[s])
      BY <1>2
    <2> QED
      BY <1>3, <2>1, <2>2
  <1>6. "success" \in Seen => sudo = "granted"
    BY <1>1, <1>5
  <1>7. sudo = "granted" => "success" \in Seen
    BY <1>1, <1>4, <1>5 DEF Streams
  <1>8. state = 0 /\ "prompt" \in Seen => sudo = "asked"
    BY <1>1, <1>5
  <1>9. Seen \subseteq Kinds
    <2>1. flags \subseteq Kinds
      BY <1>1
    <2>2. {"prompt", "success", "error", "nopass"} \subseteq Kinds
      BY DEF Kinds
    <2> QED
      BY <2>1, <2>2, Zenon DEF Seen
  <1> QED
    BY <1>6, <1>7, <1>8, <1>9

\* What the flags mean.
LEMMA NegotiatedFacts ==
    ASSUME NEW s \in {0, 1}, NEW f \in SUBSET Kinds
    PROVE  LET n == Negotiated(s, f)
           IN  /\ n.answer = IF s = 0 /\ "prompt" \in f THEN <<"password">> ELSE <<>>
               /\ n.state \in {0, 1, 2} /\ (n.state = 2 <=> "success" \in f)
               /\ n.verdict \in {"none", "failure"}
               /\ n.verdict = "failure" => "success" \notin f
               /\ n.state = 0 => s = 0 /\ "prompt" \notin f
               /\ n.flags \subseteq f
               /\ n.verdict = "none" /\ n.state < 2 => n.flags \intersect {"prompt", "success"} = {}
  BY DEF Negotiated

\* An iteration: what becomes of the negotiation and what is sent.
LEMMA TurnFacts ==
    ASSUME TypeOK, Places, Escalated, Talk, Turn
    PROVE  /\ pc' \in {"poll", "collect", "wait", "failed"}
           /\ state' \in 0..3 /\ flags' \subseteq Kinds
           /\ pipes' \in [Streams -> Seq(Kinds)] /\ stdin' \in Seq({"password", "data"})
           /\ \A s \in Streams : ToSet(pipes'[s]) \subseteq ToSet(pipes[s])
           /\ watched' \subseteq watched /\ (proc = "running" => watched' = watched)
           /\ state >= 2 => state' = 3 /\ pc' # "failed" /\ stdin' = stdin
           /\ pc' # "failed" =>
                /\ proc' = proc /\ open' = open
                /\ state < 2 => state' # 2 /\ (state' = 3 <=> sudo = "granted")
                /\ state' = 0 => state = 0 /\ stdin' = stdin
                /\ state' < 2 => /\ tmp' \in [Streams -> {<<>>, <<"tail">>}]
                                 /\ flags' \intersect {"prompt", "success"} = {}
           /\ pc' = "failed" => /\ proc' # "running"
                                /\ work = "todo" \/ (job.op # "exec" /\ job.become # "none")
           /\ pc' = "collect" => polled
           /\ proc' \in {proc, "terminated"} /\ open' \in SUBSET Streams
           /\ UNCHANGED <<job, attempt, again, password, checking, secret, found, outcome, polled, rc,
                          sudo,
                          work, written, file>>
           /\ "password" \in ToSet(stdin') /\ "password" \notin ToSet(stdin) => sudo = "asked"
           /\ "data" \in ToSet(stdin') /\ "data" \notin ToSet(stdin) =>
                state < 2 /\ sudo = "granted"
  <1> DEFINE left == watched \ {s \in Ready : pipes[s] = <<>>}
             n == IF state < 2 THEN Negotiated(state, Seen)
                  ELSE [answer |-> <<>>, verdict |-> "none", state |-> state, flags |-> flags]
             cut == [s \in Streams |-> IF state < 2 THEN Examined(Chunk[s])
                                       ELSE [done |-> Chunk[s], rest |-> <<>>]]
             data == IF n.state = 2 /\ job.data THEN <<"data">> ELSE <<>>
             sends == n.answer \o data
             sent == stdin \o sends
  <1>1. /\ pc = "select" /\ state \in 0..3 /\ job.data \in BOOLEAN
        /\ pipes' = [s \in Streams |-> IF s \in Ready THEN <<>> ELSE pipes[s]]
        /\ watched' = left /\ flags' = n.flags
        /\ tmp' = [s \in Streams |-> cut[s].rest]
        /\ UNCHANGED <<job, sudo, work>>
        /\ \/ /\ n.verdict = "failure" /\ pc' = "failed" /\ state' = n.state
              /\ stdin' = sent
           \/ /\ n.verdict = "none" /\ state' = (IF n.state = 2 THEN 3 ELSE n.state)
              /\ pc' \in {"poll", "collect", "wait"}
              /\ stdin' = sent /\ UNCHANGED <<proc, open>>
           \/ /\ n.verdict = "none" /\ sends # <<>> /\ proc # "running" /\ pc' = "failed"
              /\ state' = n.state /\ UNCHANGED stdin
    BY DEF Turn, TypeOK, Leave, link, Jobs
  <1>2. state >= 2 => /\ n.answer = <<>> /\ n.verdict = "none" /\ n.state = state
                      /\ n.flags = flags /\ data = <<>>
    BY <1>1 DEF Escalated, Live
  <1>3. state < 2 => /\ n.answer = IF state = 0 /\ "prompt" \in Seen THEN <<"password">> ELSE <<>>
                     /\ n.state \in {0, 1, 2} /\ (n.state = 2 <=> sudo = "granted")
                     /\ n.verdict \in {"none", "failure"}
                     /\ n.verdict = "failure" => sudo # "granted"
                     /\ n.answer # <<>> => sudo = "asked"
                     /\ n.state = 0 => state = 0 /\ n.answer = <<>>
                     /\ n.flags \subseteq Kinds
                     /\ n.verdict = "none" /\ n.state < 2 =>
                            n.flags \intersect {"prompt", "success"} = {}
    <2>1. SUFFICES ASSUME state < 2 PROVE <1>3!2
      OBVIOUS
    <2>2. state \in {0, 1} /\ Seen \in SUBSET Kinds /\ n = Negotiated(state, Seen)
      BY <1>1, <2>1, SeenFacts
    <2> HIDE DEF n
    <2>3. /\ "success" \in Seen <=> sudo = "granted"
          /\ state = 0 /\ "prompt" \in Seen => sudo = "asked"
      BY <1>1, <2>1, SeenFacts
    <2> QED
      BY <1>1, <2>2, <2>3, NegotiatedFacts
  <1>4. /\ n.state \in 0..3 /\ n.flags \subseteq Kinds /\ n.verdict \in {"none", "failure"}
        /\ n.answer \in {<<>>, <<"password">>}
    <2> HIDE DEF n
    <2> QED
      BY <1>1, <1>2, <1>3 DEF TypeOK
  <1> HIDE DEF n
  <1>5. /\ sends \in Seq({"password", "data"})
        /\ "password" \in ToSet(sends) => n.answer # <<>>
        /\ "data" \in ToSet(sends) => n.state = 2 /\ data # <<>>
    <2>1. /\ ToSet(<<"password">>) = {"password"} /\ ToSet(<<"data">>) = {"data"}
          /\ ToSet(<<>>) = {}
      BY InEmpty DEF ToSet
    <2>4. /\ <<"password">> \in Seq({"password", "data"})
          /\ <<"data">> \in Seq({"password", "data"})
          /\ <<>> \in Seq({"password", "data"})
      OBVIOUS
    <2>2. /\ n.answer \in Seq({"password", "data"}) /\ data \in Seq({"password", "data"})
          /\ data # <<>> => n.state = 2 /\ job.data
          /\ data = <<>> \/ data = <<"data">>
      BY <1>4, <2>4
    <2> HIDE DEF data
    <2>3. n.answer \o data \in Seq({"password", "data"})
          /\ ToSet(n.answer \o data) = ToSet(n.answer) \union ToSet(data)
      BY <2>2, InConcat
    <2> QED
      BY <1>4, <2>1, <2>2, <2>3
  <1>6. /\ n.answer = <<>> /\ data = <<>> => sends = <<>>
        /\ data # <<>> => n.state = 2 /\ job.data
    OBVIOUS
  <1>7. \A s \in Streams : cut[s].rest \in {<<>>, <<"tail">>}
    BY DEF Examined
  <1> HIDE DEF sends, cut, data
  <1>8. stdin \in Seq({"password", "data"})
    BY DEF TypeOK
  <1>9. /\ sent \in Seq({"password", "data"})
        /\ ToSet(sent) = ToSet(stdin) \union ToSet(sends)
        /\ sends = <<>> => sent = stdin
    BY <1>5, <1>8, InConcat
  <1> HIDE DEF sent
  <1>10. /\ pipes' \in [Streams -> Seq(Kinds)]
        /\ \A s \in Streams : ToSet(pipes'[s]) \subseteq ToSet(pipes[s])
    BY <1>1, InEmpty DEF TypeOK
  <1>11. watched' \subseteq watched /\ (proc = "running" => watched' = watched)
    BY <1>1 DEF Places, Ready, TypeOK
  <1>12. pc' = "failed" => work = "todo" \/ (job.op # "exec" /\ job.become # "none")
    BY <1>1, <1>4, <1>2, <1>3, <1>6 DEF Talk, Escalated, Live, TypeOK
  <1>13. pc' # "failed" /\ state < 2 => state' # 2 /\ (state' = 3 <=> sudo = "granted")
    BY <1>1, <1>3
  <1>14. pc' # "failed" /\ state' = 0 => state = 0 /\ stdin' = stdin
    BY <1>1, <1>4, <1>2, <1>3, <1>6, <1>9
  <1>15. pc' # "failed" /\ state' < 2 => flags' \intersect {"prompt", "success"} = {}
    BY <1>1, <1>4, <1>2, <1>3
  <1>16. state >= 2 => state' = 3 /\ pc' # "failed" /\ stdin' = stdin
    BY <1>1, <1>4, <1>2, <1>6, <1>9
  <1>17. tmp' \in [Streams -> {<<>>, <<"tail">>}]
    BY <1>1, <1>7
  <1>18. stdin' = sent \/ stdin' = stdin
    BY <1>1
  <1>19. state \in 0..3
    BY <1>1
  <1>20. "password" \in ToSet(stdin') /\ "password" \notin ToSet(stdin) => sudo = "asked"
    BY <1>2, <1>3, <1>5, <1>9, <1>18, <1>19
  <1>21. "data" \in ToSet(stdin') /\ "data" \notin ToSet(stdin) => state < 2 /\ sudo = "granted"
    BY <1>2, <1>3, <1>5, <1>9, <1>18, <1>19
  <1>22. state' \in 0..3 /\ flags' \subseteq Kinds
    BY <1>1, <1>4
  <1>23. /\ pc' \in {"poll", "collect", "wait", "failed"}
         /\ pc' # "failed" => proc' = proc /\ open' = open
         /\ pc' = "failed" => proc' # "running"
         /\ pc' = "collect" => polled
         /\ proc' \in {proc, "terminated"} /\ open' \in SUBSET Streams
         /\ UNCHANGED <<job, attempt, again, password, checking, secret, found, outcome, polled, rc,
                          sudo,
                        work, written, file>>
    BY DEF Turn, Leave, link, TypeOK
  <1>24. stdin' \in Seq({"password", "data"})
    BY <1>8, <1>9, <1>18
  <1> HIDE DEF left
  <1> QED
    BY <1>10, <1>11, <1>12, <1>13, <1>14, <1>15, <1>16, <1>17, <1>20, <1>21, <1>22, <1>23, <1>24

\* Every step keeps the process in its place.
LEMMA PlacesStep ==
    ASSUME TypeOK, Places, Escalated, Talk, [Next]_vars
    PROVE  Places'
  <1>1. CASE SetOptions
    BY <1>1, TypeOK, Places, LxcSshAssumption DEF SetOptions, Call, NewPipe, loop, remote,
       TypeOK, Places, Live, Kinds, Streams, Operations, Probes, Jobs
  <1>2. CASE "ready" \in found /\ (\E become \in Becomes : ExecCommand(become)) /\ UNCHANGED found
    BY <1>2, TypeOK, Places, LxcSshAssumption DEF ExecCommand, Call, NewPipe, loop, remote,
       TypeOK, Places, Live, Kinds, Streams, Operations, Probes, Jobs
  <1>3. CASE "ready" \in found /\ (\E become \in Becomes : PutFile(become)) /\ UNCHANGED found
    BY <1>3, TypeOK, Places, LxcSshAssumption DEF PutFile, Call, NewPipe, loop, remote,
       TypeOK, Places, Live, Kinds, Streams, Operations, Probes, Jobs
  <1>4. CASE "ready" \in found /\ (\E become \in Becomes : FetchFile(become)) /\ UNCHANGED found
    BY <1>4, TypeOK, Places, LxcSshAssumption DEF FetchFile, Call, NewPipe, loop, remote,
       TypeOK, Places, Live, Kinds, Streams, Operations, Probes, Jobs
  <1>5. CASE Popen
    BY <1>5, TypeOK, Places, LxcSshAssumption DEF Popen, loop, remote, link, TypeOK,
       Places, Live, Kinds, Streams, Operations, Probes, Jobs
  <1>6. CASE Collect
    BY <1>6, TypeOK, Places, LxcSshAssumption DEF Collect, HostKey, OldSsh, loop, remote, link, TypeOK,
       Places, Live, Kinds, Streams, Operations, Probes, Jobs
  <1>7. CASE Retry
    BY <1>7, TypeOK, Places, LxcSshAssumption DEF Retry, loop, remote, link, TypeOK,
       Places, Live, Kinds, Streams, Operations, Probes, Jobs
  <1>8. CASE Return
    BY <1>8, TypeOK, Places, LxcSshAssumption DEF Return, NewPipe, NextProbe, loop, remote,
       TypeOK, Places, Live, Kinds, Streams, Operations, Probes, Jobs
  <1>9. CASE Poll
    BY <1>9, TypeOK, Places, LxcSshAssumption DEF Poll, remote, link, TypeOK, Places, Live,
       Kinds, Streams, Operations, Probes, Jobs
  <1>10. CASE Turn
    <2>1. pc = "select"
      BY <1>10 DEF Turn
    <2>2. /\ pc' \in {"poll", "collect", "wait", "failed"} /\ proc' \in {proc, "terminated"}
          /\ pc' # "failed" => proc' = proc /\ open' = open
          /\ pc' = "failed" => proc' # "running"
          /\ pc' = "collect" => polled
      BY <1>10 DEF Turn, Leave
    <2>4. UNCHANGED <<job, outcome, rc, work>>
      BY <1>10 DEF Turn, link
    <2>3. /\ proc \in {"running", "exited"} /\ (polled => proc = "exited")
          /\ outcome = "returned" /\ (proc = "running" => rc = 0 /\ open = Streams)
          /\ job.op = "put" => job.data
      BY <2>1, Places DEF Places, Live
    <2> QED
      BY <2>2, <2>3, <2>4 DEF Places, Live
  <1>11. CASE Timeout
    BY <1>11, TypeOK, Places, LxcSshAssumption DEF Timeout, loop, link, TypeOK, Places,
       Live, Kinds, Streams, Operations, Probes, Jobs
  <1>12. CASE Wait
    BY <1>12, TypeOK, Places, LxcSshAssumption DEF Wait, loop, remote, link, TypeOK,
       Places, Live, Kinds, Streams, Operations, Probes, Jobs
  <1>13. CASE Rest
    BY <1>13, TypeOK, Places, LxcSshAssumption DEF Rest, link, TypeOK, Places, Live, Kinds,
       Streams, Operations, Probes, Jobs
  <1>14. CASE Escalation
    BY <1>14, TypeOK, Places, LxcSshAssumption DEF Escalation, Ask, Judge, Grant, Deny,
       Say, loop, link, TypeOK, Places, Live, Kinds, Streams, Operations, Probes, Jobs
  <1>15. CASE Work
    BY <1>15, TypeOK, Places, LxcSshAssumption DEF Work, Say, Admitted, loop, link, TypeOK,
       Places, Live, Kinds, Streams, Operations, Probes, Jobs
  <1>16. CASE Exit
    BY <1>16, TypeOK, Places, LxcSshAssumption DEF Exit, Say, Admitted, loop, link, TypeOK,
       Places, Live, Kinds, Streams, Operations, Probes, Jobs
  <1>17. CASE UNCHANGED vars
    BY <1>17, TypeOK, Places, LxcSshAssumption DEF vars, HostKey, TypeOK, Places, Live, Kinds,
       Streams, Operations, Probes, Jobs
  <1> QED
    BY <1>1, <1>2, <1>3, <1>4, <1>5, <1>6, <1>7, <1>8, <1>9, <1>10, <1>11, <1>12, <1>13,
       <1>14, <1>15, <1>16, <1>17 DEF Next, Operate, Program

\* Every step keeps to what was said.
LEMMA EscalatedStep ==
    ASSUME TypeOK, Places, Escalated, Talk, [Next]_vars
    PROVE  Escalated'
  <1>1. CASE SetOptions
    BY <1>1, TypeOK, Places, Escalated, LxcSshAssumption DEF SetOptions, Call, NewPipe,
       loop, remote, TypeOK, Places, Escalated, Live, Kinds, Streams, Operations, Probes,
       Jobs
  <1>2. CASE "ready" \in found /\ (\E become \in Becomes : ExecCommand(become)) /\ UNCHANGED found
    BY <1>2, TypeOK, Places, Escalated, LxcSshAssumption DEF ExecCommand, Call, NewPipe,
       loop, remote, TypeOK, Places, Escalated, Live, Kinds, Streams, Operations, Probes,
       Jobs
  <1>3. CASE "ready" \in found /\ (\E become \in Becomes : PutFile(become)) /\ UNCHANGED found
    BY <1>3, TypeOK, Places, Escalated, LxcSshAssumption DEF PutFile, Call, NewPipe, loop,
       remote, TypeOK, Places, Escalated, Live, Kinds, Streams, Operations, Probes, Jobs
  <1>4. CASE "ready" \in found /\ (\E become \in Becomes : FetchFile(become)) /\ UNCHANGED found
    BY <1>4, TypeOK, Places, Escalated, LxcSshAssumption DEF FetchFile, Call, NewPipe,
       loop, remote, TypeOK, Places, Escalated, Live, Kinds, Streams, Operations, Probes,
       Jobs
  <1>5. CASE Popen
    BY <1>5, TypeOK, Places, Escalated, LxcSshAssumption DEF Popen, loop, remote, link,
       TypeOK, Places, Escalated, Live, Kinds, Streams, Operations, Probes, Jobs
  <1>6. CASE Collect
    BY <1>6, TypeOK, Places, Escalated, LxcSshAssumption DEF Collect, HostKey, OldSsh, loop, remote, link,
       TypeOK, Places, Escalated, Live, Kinds, Streams, Operations, Probes, Jobs
  <1>7. CASE Retry
    BY <1>7, TypeOK, Places, Escalated, LxcSshAssumption DEF Retry, loop, remote, link,
       TypeOK, Places, Escalated, Live, Kinds, Streams, Operations, Probes, Jobs
  <1>8. CASE Return
    BY <1>8, TypeOK, Places, Escalated, LxcSshAssumption DEF Return, NewPipe, NextProbe,
       loop, remote, TypeOK, Places, Escalated, Live, Kinds, Streams, Operations, Probes,
       Jobs
  <1>9. CASE Poll
    BY <1>9, TypeOK, Places, Escalated, LxcSshAssumption DEF Poll, remote, link, TypeOK,
       Places, Escalated, Live, Kinds, Streams, Operations, Probes, Jobs
  <1>10. CASE Turn
    <2>1. pc = "select"
      BY <1>10 DEF Turn
    <2> QED
      BY <1>10, <2>1, TypeOK, Places, Escalated, Talk, TurnFacts DEF TypeOK, Places,
         Escalated, Live, Kinds, Streams, Operations, Probes, Jobs
  <1>11. CASE Timeout
    BY <1>11, TypeOK, Places, Escalated, LxcSshAssumption DEF Timeout, loop, link, TypeOK,
       Places, Escalated, Live, Kinds, Streams, Operations, Probes, Jobs
  <1>12. CASE Wait
    BY <1>12, TypeOK, Places, Escalated, LxcSshAssumption DEF Wait, loop, remote, link,
       TypeOK, Places, Escalated, Live, Kinds, Streams, Operations, Probes, Jobs
  <1>13. CASE Rest
    BY <1>13, TypeOK, Places, Escalated, LxcSshAssumption DEF Rest, link, TypeOK, Places,
       Escalated, Live, Kinds, Streams, Operations, Probes, Jobs
  <1>14. CASE Escalation
    BY <1>14, TypeOK, Places, Escalated, LxcSshAssumption DEF Escalation, Ask, Judge,
       Grant, Deny, Say, loop, link, TypeOK, Places, Escalated, Live, Kinds, Streams,
       Operations, Probes, Jobs
  <1>15. CASE Work
    BY <1>15, TypeOK, Places, Escalated, LxcSshAssumption DEF Work, Say, Admitted, loop,
       link, TypeOK, Places, Escalated, Live, Kinds, Streams, Operations, Probes, Jobs
  <1>16. CASE Exit
    BY <1>16, TypeOK, Places, Escalated, LxcSshAssumption DEF Exit, Say, Admitted, loop,
       link, TypeOK, Places, Escalated, Live, Kinds, Streams, Operations, Probes, Jobs
  <1>17. CASE UNCHANGED vars
    BY <1>17, TypeOK, Places, Escalated, LxcSshAssumption DEF vars, TypeOK, Places,
       Escalated, Live, Kinds, Streams, Operations, Probes, Jobs
  <1> QED
    BY <1>1, <1>2, <1>3, <1>4, <1>5, <1>6, <1>7, <1>8, <1>9, <1>10, <1>11, <1>12, <1>13,
       <1>14, <1>15, <1>16, <1>17 DEF Next, Operate, Program

\* Every step keeps what there is of the command.
LEMMA ResultStep ==
    ASSUME TypeOK, Places, Escalated, Talk, Result, [Next]_vars
    PROVE  Result'
  <1>1. CASE SetOptions
    BY <1>1, TypeOK, Places, Escalated, Result, LxcSshAssumption DEF SetOptions, Call,
       NewPipe, loop, remote, TypeOK, Places, Escalated, Result, PutMeansPut, Live, Kinds, Streams,
       Operations, Probes, Jobs
  <1>2. CASE "ready" \in found /\ (\E become \in Becomes : ExecCommand(become)) /\ UNCHANGED found
    BY <1>2, TypeOK, Places, Escalated, Result, LxcSshAssumption DEF ExecCommand, Call,
       NewPipe, loop, remote, TypeOK, Places, Escalated, Result, PutMeansPut, Live, Kinds, Streams,
       Operations, Probes, Jobs
  <1>3. CASE "ready" \in found /\ (\E become \in Becomes : PutFile(become)) /\ UNCHANGED found
    BY <1>3, TypeOK, Places, Escalated, Result, LxcSshAssumption DEF PutFile, Call,
       NewPipe, loop, remote, TypeOK, Places, Escalated, Result, PutMeansPut, Live, Kinds, Streams,
       Operations, Probes, Jobs
  <1>4. CASE "ready" \in found /\ (\E become \in Becomes : FetchFile(become)) /\ UNCHANGED found
    BY <1>4, TypeOK, Places, Escalated, Result, LxcSshAssumption DEF FetchFile, Call,
       NewPipe, loop, remote, TypeOK, Places, Escalated, Result, PutMeansPut, Live, Kinds, Streams,
       Operations, Probes, Jobs
  <1>5. CASE Popen
    BY <1>5, TypeOK, Places, Escalated, Result, LxcSshAssumption DEF Popen, loop, remote,
       link, TypeOK, Places, Escalated, Result, PutMeansPut, Live, Kinds, Streams, Operations, Probes,
       Jobs
  <1>6. CASE Collect
    BY <1>6, TypeOK, Places, Escalated, Result, LxcSshAssumption DEF Collect, HostKey, OldSsh, loop, remote,
       link, TypeOK, Places, Escalated, Result, PutMeansPut, Live, Kinds, Streams, Operations, Probes,
       Jobs
  <1>7. CASE Retry
    BY <1>7, TypeOK, Places, Escalated, Result, LxcSshAssumption DEF Retry, loop, remote,
       link, TypeOK, Places, Escalated, Result, PutMeansPut, Live, Kinds, Streams, Operations, Probes,
       Jobs
  <1>8. CASE Return
    BY <1>8, TypeOK, Places, Escalated, Result, LxcSshAssumption DEF Return, NewPipe,
       NextProbe, loop, remote, TypeOK, Places, Escalated, Result, PutMeansPut, Live, Kinds, Streams,
       Operations, Probes, Jobs
  <1>9. CASE Poll
    BY <1>9, TypeOK, Places, Escalated, Result, LxcSshAssumption DEF Poll, remote, link,
       TypeOK, Places, Escalated, Result, PutMeansPut, Live, Kinds, Streams, Operations, Probes, Jobs
  <1>10. CASE Turn
    <2>1. pc = "select"
      BY <1>10 DEF Turn
    <2> QED
      BY <1>10, <2>1, TypeOK, Places, Escalated, Talk, Result, TurnFacts DEF TypeOK, Places,
         Escalated, Result, PutMeansPut, Live, Kinds, Streams, Operations, Probes, Jobs
  <1>11. CASE Timeout
    BY <1>11, TypeOK, Places, Escalated, Result, LxcSshAssumption DEF Timeout, loop, link,
       TypeOK, Places, Escalated, Result, PutMeansPut, Live, Kinds, Streams, Operations, Probes, Jobs
  <1>12. CASE Wait
    BY <1>12, TypeOK, Places, Escalated, Result, LxcSshAssumption DEF Wait, loop, remote,
       link, TypeOK, Places, Escalated, Result, PutMeansPut, Live, Kinds, Streams, Operations, Probes,
       Jobs
  <1>13. CASE Rest
    BY <1>13, TypeOK, Places, Escalated, Result, LxcSshAssumption DEF Rest, link, TypeOK,
       Places, Escalated, Result, PutMeansPut, Live, Kinds, Streams, Operations, Probes, Jobs
  <1>14. CASE Escalation
    BY <1>14, TypeOK, Places, Escalated, Result, LxcSshAssumption DEF Escalation, Ask,
       Judge, Grant, Deny, Say, loop, link, TypeOK, Places, Escalated, Result, PutMeansPut, Live, Kinds,
       Streams, Operations, Probes, Jobs
  <1>15. CASE Work
    BY <1>15, TypeOK, Places, Escalated, Result, LxcSshAssumption DEF Work, Say, Admitted,
       loop, link, TypeOK, Places, Escalated, Result, PutMeansPut, Live, Kinds, Streams, Operations,
       Probes, Jobs
  <1>16. CASE Exit
    BY <1>16, TypeOK, Places, Escalated, Result, LxcSshAssumption DEF Exit, Say, Admitted,
       loop, link, TypeOK, Places, Escalated, Result, PutMeansPut, Live, Kinds, Streams, Operations,
       Probes, Jobs
  <1>17. CASE UNCHANGED vars
    BY <1>17, TypeOK, Places, Escalated, Result, LxcSshAssumption DEF vars, TypeOK, Places,
       Escalated, Result, PutMeansPut, Live, Kinds, Streams, Operations, Probes, Jobs
  <1> QED
    BY <1>1, <1>2, <1>3, <1>4, <1>5, <1>6, <1>7, <1>8, <1>9, <1>10, <1>11, <1>12, <1>13,
       <1>14, <1>15, <1>16, <1>17 DEF Next, Operate, Program

LEMMA ExcusedStays ==
    UNCHANGED <<job, password, checking, rc, got>> => Excused' = Excused
  BY DEF Excused, HostKey, OldSsh

\* Every step keeps to what is run again.
LEMMA RunsStep ==
    ASSUME TypeOK, Places, Escalated, Talk, Runs, [Next]_vars
    PROVE  Runs'
  <1>1. CASE SetOptions
    BY <1>1, TypeOK, Places, Escalated, Runs, LxcSshAssumption DEF SetOptions, Call,
       NewPipe, loop, remote, TypeOK, Places, Escalated, Runs, Live, Kinds, Streams,
       Operations, Probes, Jobs
  <1>2. CASE "ready" \in found /\ (\E become \in Becomes : ExecCommand(become)) /\ UNCHANGED found
    BY <1>2, TypeOK, Places, Escalated, Runs, LxcSshAssumption DEF ExecCommand, Call,
       NewPipe, loop, remote, TypeOK, Places, Escalated, Runs, Live, Kinds, Streams,
       Operations, Probes, Jobs
  <1>3. CASE "ready" \in found /\ (\E become \in Becomes : PutFile(become)) /\ UNCHANGED found
    BY <1>3, TypeOK, Places, Escalated, Runs, LxcSshAssumption DEF PutFile, Call, NewPipe,
       loop, remote, TypeOK, Places, Escalated, Runs, Live, Kinds, Streams, Operations,
       Probes, Jobs
  <1>4. CASE "ready" \in found /\ (\E become \in Becomes : FetchFile(become)) /\ UNCHANGED found
    BY <1>4, TypeOK, Places, Escalated, Runs, LxcSshAssumption DEF FetchFile, Call,
       NewPipe, loop, remote, TypeOK, Places, Escalated, Runs, Live, Kinds, Streams,
       Operations, Probes, Jobs
  <1>5. CASE Popen
    BY <1>5, TypeOK, Places, Escalated, Runs, ExcusedStays, LxcSshAssumption DEF Popen, loop, remote,
       link, TypeOK, Places, Escalated, Runs, Live, Kinds, Streams, Operations, Probes,
       Jobs
  <1>6. CASE Collect
    BY <1>6, TypeOK, Places, Escalated, Runs, ExcusedStays, LxcSshAssumption DEF Excused, Collect, HostKey, OldSsh, loop, remote,
       link, TypeOK, Places, Escalated, Runs, Live, Kinds, Streams, Operations, Probes,
       Jobs
  <1>7. CASE Retry
    BY <1>7, TypeOK, Places, Escalated, Runs, ExcusedStays, LxcSshAssumption DEF Retry, loop, remote,
       link, TypeOK, Places, Escalated, Runs, Live, Kinds, Streams, Operations, Probes,
       Jobs
  <1>8. CASE Return
    BY <1>8, TypeOK, Places, Escalated, Runs, LxcSshAssumption DEF Return, NewPipe,
       NextProbe, loop, remote, TypeOK, Places, Escalated, Runs, Live, Kinds, Streams,
       Operations, Probes, Jobs
  <1>9. CASE Poll
    BY <1>9, TypeOK, Places, Escalated, Runs, LxcSshAssumption DEF Poll, remote, link,
       TypeOK, Places, Escalated, Runs, Live, Kinds, Streams, Operations, Probes, Jobs
  <1>10. CASE Turn
    <2>1. pc = "select"
      BY <1>10 DEF Turn
    <2>2. job.op # "exec" /\ job.become # "none" => Excused'
      BY <1>10, TurnFacts DEF Excused
    <2> QED
      BY <1>10, <2>1, <2>2, TurnFacts DEF Runs
  <1>11. CASE Timeout
    <2>1. /\ pc = "select" /\ state < 2 /\ Ready = {}
          /\ sudo = "granted" => "success" \in ToSet(pipes["out"]) /\ "out" \in watched
      BY <1>11 DEF Timeout, Talk, Live
    <2>2. sudo # "granted"
      BY <2>1, InEmpty DEF Ready
    <2>3. work = "todo" \/ job.op # "exec"
      BY <2>1, <2>2, Escalated, Talk DEF Escalated, Talk, Live, TypeOK
    <2>4. job.op # "exec" => Excused
      BY <2>1, Talk DEF Talk, Live, Excused
    <2> QED
      BY <1>11, <2>1, <2>3, <2>4, TypeOK, Places, Escalated, Runs, ExcusedStays DEF Timeout, loop,
         link, TypeOK, Places, Escalated, Runs
  <1>12. CASE Wait
    BY <1>12, TypeOK, Places, Escalated, Runs, LxcSshAssumption DEF Wait, loop, remote,
       link, TypeOK, Places, Escalated, Runs, Live, Kinds, Streams, Operations, Probes,
       Jobs
  <1>13. CASE Rest
    BY <1>13, TypeOK, Places, Escalated, Runs, LxcSshAssumption DEF Rest, link, TypeOK,
       Places, Escalated, Runs, Live, Kinds, Streams, Operations, Probes, Jobs
  <1>14. CASE Escalation
    BY <1>14, TypeOK, Places, Escalated, Runs, LxcSshAssumption DEF Escalation, Ask, Judge,
       Grant, Deny, Say, loop, link, TypeOK, Places, Escalated, Runs, Live, Kinds, Streams,
       Operations, Probes, Jobs
  <1>15. CASE Work
    BY <1>15, TypeOK, Places, Escalated, Runs, LxcSshAssumption DEF Work, Say, Admitted,
       loop, link, TypeOK, Places, Escalated, Runs, Live, Kinds, Streams, Operations,
       Probes, Jobs
  <1>16. CASE Exit
    BY <1>16, TypeOK, Places, Escalated, Runs, LxcSshAssumption DEF Exit, Say, Admitted,
       loop, link, TypeOK, Places, Escalated, Runs, Live, Kinds, Streams, Operations,
       Probes, Jobs
  <1>17. CASE UNCHANGED vars
    BY <1>17, TypeOK, Places, Escalated, Runs, ExcusedStays, LxcSshAssumption DEF vars, TypeOK, Places,
       Escalated, Runs, Live, Kinds, Streams, Operations, Probes, Jobs
  <1> QED
    BY <1>1, <1>2, <1>3, <1>4, <1>5, <1>6, <1>7, <1>8, <1>9, <1>10, <1>11, <1>12, <1>13,
       <1>14, <1>15, <1>16, <1>17 DEF Next, Operate, Program

LEMMA NothingSaid ==
    Nothing \in [Streams -> Seq(Kinds)] /\ \A s \in Streams : ToSet(Nothing[s]) = {}
  BY InEmpty DEF Nothing

\* The types, one part after the other.
PlaceTypes ==
    /\ pc \in {"idle", "popen", "poll", "select", "wait", "collect", "failed", "returned",
              "ended"}
    /\ secret \in {"none", "open", "used"}
    /\ found \in SUBSET {"lxc", "lxc-info", "cgroup", "ready"}
    /\ outcome \in {"returned", "refused", "raised"}
CallTypes == job \in Jobs /\ attempt \in 0..Retries /\ password \in Passwords
FlagTypes == checking \in BOOLEAN /\ again \in BOOLEAN /\ polled \in BOOLEAN
LoopTypes == state \in 0..3 /\ flags \subseteq Kinds /\ watched \in SUBSET Streams
StreamTypes ==
    /\ pipes \in [Streams -> Seq(Kinds)] /\ written \in [Streams -> Seq(Kinds)]
    /\ stdin \in Seq({"password", "data"})
RemoteTypes ==
    /\ proc \in {"none", "running", "exited", "terminated"} /\ rc \in {0, 1, 6, 255}
    /\ sudo \in {"off", "will", "asked", "granted", "denied"} /\ open \in SUBSET Streams
    /\ work \in {"todo", "half", "done", "failed"}
    /\ file \in {"none", "old", "empty", "part", "new"}

LEMMA TypesSplit == TypeOK <=>
    PlaceTypes /\ CallTypes /\ FlagTypes /\ LoopTypes /\ StreamTypes /\ RemoteTypes
  BY DEF TypeOK, PlaceTypes, CallTypes, FlagTypes, LoopTypes, StreamTypes, RemoteTypes

\* Every step keeps the types.
LEMMA TypeStep ==
    ASSUME TypeOK, Places, Escalated, Talk, [Next]_vars
    PROVE  TypeOK'
  <1>0. /\ PlaceTypes /\ CallTypes /\ FlagTypes
        /\ LoopTypes /\ StreamTypes /\ RemoteTypes
    BY TypeOK, TypesSplit
  <1>1. CASE SetOptions
    <2>1. PlaceTypes'
      BY <1>1, <1>0 DEF SetOptions, Call, NewPipe, loop, remote, PlaceTypes
    <2>2. CallTypes'
      BY <1>1, <1>0, LxcSshAssumption DEF SetOptions, Call, NewPipe, loop, remote,
         CallTypes, Operations, Probes, Jobs, NextProbe
    <2>3. FlagTypes'
      BY <1>1, <1>0 DEF SetOptions, Call, NewPipe, loop, remote, FlagTypes
    <2>4. LoopTypes'
      BY <1>1, <1>0 DEF SetOptions, Call, NewPipe, loop, remote, LoopTypes
    <2>5. StreamTypes'
      BY <1>1, <1>0 DEF SetOptions, Call, NewPipe, loop, remote, StreamTypes
    <2>6. RemoteTypes'
      BY <1>1, <1>0 DEF SetOptions, Call, NewPipe, loop, remote, RemoteTypes
    <2> QED
      BY <2>1, <2>2, <2>3, <2>4, <2>5, <2>6, TypesSplit, PTL
  <1>2. CASE "ready" \in found /\ (\E become \in Becomes : ExecCommand(become)) /\ UNCHANGED found
    <2>1. PlaceTypes'
      BY <1>2, <1>0 DEF ExecCommand, Call, NewPipe, loop, remote, PlaceTypes
    <2>2. CallTypes'
      BY <1>2, <1>0, LxcSshAssumption DEF ExecCommand, Call, NewPipe, loop, remote,
         CallTypes, Operations, Probes, Jobs, NextProbe
    <2>3. FlagTypes'
      BY <1>2, <1>0 DEF ExecCommand, Call, NewPipe, loop, remote, FlagTypes
    <2>4. LoopTypes'
      BY <1>2, <1>0 DEF ExecCommand, Call, NewPipe, loop, remote, LoopTypes
    <2>5. StreamTypes'
      BY <1>2, <1>0 DEF ExecCommand, Call, NewPipe, loop, remote, StreamTypes
    <2>6. RemoteTypes'
      BY <1>2, <1>0 DEF ExecCommand, Call, NewPipe, loop, remote, RemoteTypes
    <2> QED
      BY <2>1, <2>2, <2>3, <2>4, <2>5, <2>6, TypesSplit, PTL
  <1>3. CASE "ready" \in found /\ (\E become \in Becomes : PutFile(become)) /\ UNCHANGED found
    <2>0. job' \in Jobs /\ attempt' = 0 /\ password' = password /\ checking' = checking
      <3>1. \A become \in Becomes : /\ [op |-> "put", data |-> TRUE, become |-> become] \in Jobs
                                    /\ [op |-> "touch", data |-> FALSE, become |-> become] \in Jobs
        BY DEF Jobs, Operations
      <3> QED
        BY <1>3, <3>1 DEF PutFile, Call
    <2>1. PlaceTypes'
      BY <1>3, <1>0 DEF PutFile, Call, NewPipe, loop, remote, PlaceTypes
    <2>2. CallTypes'
      BY <1>3, <1>0, <2>0, LxcSshAssumption DEF CallTypes
    <2>3. FlagTypes'
      BY <1>3, <1>0 DEF PutFile, Call, NewPipe, loop, remote, FlagTypes
    <2>4. LoopTypes'
      BY <1>3, <1>0 DEF PutFile, Call, NewPipe, loop, remote, LoopTypes
    <2>5. StreamTypes'
      BY <1>3, <1>0 DEF PutFile, Call, NewPipe, loop, remote, StreamTypes
    <2>6. RemoteTypes'
      BY <1>3, <1>0 DEF PutFile, Call, NewPipe, loop, remote, RemoteTypes
    <2> QED
      BY <2>1, <2>2, <2>3, <2>4, <2>5, <2>6, TypesSplit, PTL
  <1>4. CASE "ready" \in found /\ (\E become \in Becomes : FetchFile(become)) /\ UNCHANGED found
    <2>1. PlaceTypes'
      BY <1>4, <1>0 DEF FetchFile, Call, NewPipe, loop, remote, PlaceTypes
    <2>2. CallTypes'
      BY <1>4, <1>0, LxcSshAssumption DEF FetchFile, Call, NewPipe, loop, remote,
         CallTypes, Operations, Probes, Jobs, NextProbe
    <2>3. FlagTypes'
      BY <1>4, <1>0 DEF FetchFile, Call, NewPipe, loop, remote, FlagTypes
    <2>4. LoopTypes'
      BY <1>4, <1>0 DEF FetchFile, Call, NewPipe, loop, remote, LoopTypes
    <2>5. StreamTypes'
      BY <1>4, <1>0 DEF FetchFile, Call, NewPipe, loop, remote, StreamTypes
    <2>6. RemoteTypes'
      BY <1>4, <1>0 DEF FetchFile, Call, NewPipe, loop, remote, RemoteTypes
    <2> QED
      BY <2>1, <2>2, <2>3, <2>4, <2>5, <2>6, TypesSplit, PTL
  <1>5. CASE Popen
    <2>10. <<>> \in Seq({"password", "data"}) /\ <<"data">> \in Seq({"password", "data"})
          /\ stdin' \in {stdin, <<>>, <<"data">>}
      BY <1>5 DEF Popen, remote
    <2>1. PlaceTypes'
      BY <1>5, <1>0 DEF Popen, loop, remote, link, PlaceTypes
    <2>2. CallTypes'
      BY <1>5, <1>0 DEF Popen, loop, remote, link, CallTypes
    <2>3. FlagTypes'
      BY <1>5, <1>0 DEF Popen, loop, remote, link, FlagTypes
    <2>4. LoopTypes'
      BY <1>5, <1>0 DEF Popen, loop, remote, link, LoopTypes
    <2>5. StreamTypes'
      BY <1>5, <1>0, NothingSaid, <2>10 DEF Popen, loop, remote, link, StreamTypes
    <2>6. RemoteTypes'
      BY <1>5, <1>0 DEF Popen, loop, remote, link, RemoteTypes, Streams
    <2> QED
      BY <2>1, <2>2, <2>3, <2>4, <2>5, <2>6, TypesSplit, PTL
  <1>6. CASE Collect
    <2>1. PlaceTypes'
      BY <1>6, <1>0 DEF Collect, HostKey, OldSsh, loop, remote, link, PlaceTypes
    <2>2. CallTypes'
      BY <1>6, <1>0 DEF Collect, HostKey, OldSsh, loop, remote, link, CallTypes
    <2>3. FlagTypes'
      BY <1>6, <1>0 DEF Collect, HostKey, OldSsh, loop, remote, link, FlagTypes
    <2>4. LoopTypes'
      BY <1>6, <1>0 DEF Collect, HostKey, OldSsh, loop, remote, link, LoopTypes
    <2>5. StreamTypes'
      BY <1>6, <1>0 DEF Collect, HostKey, OldSsh, loop, remote, link, StreamTypes
    <2>6. RemoteTypes'
      BY <1>6, <1>0 DEF Collect, HostKey, OldSsh, loop, remote, link, RemoteTypes
    <2> QED
      BY <2>1, <2>2, <2>3, <2>4, <2>5, <2>6, TypesSplit, PTL
  <1>7. CASE Retry
    <2>1. PlaceTypes'
      BY <1>7, <1>0 DEF Retry, loop, remote, link, PlaceTypes
    <2>2. CallTypes'
      BY <1>7, <1>0, LxcSshAssumption DEF Retry, loop, remote, link, CallTypes
    <2>3. FlagTypes'
      BY <1>7, <1>0 DEF Retry, loop, remote, link, FlagTypes
    <2>4. LoopTypes'
      BY <1>7, <1>0 DEF Retry, loop, remote, link, LoopTypes
    <2>5. StreamTypes'
      BY <1>7, <1>0 DEF Retry, loop, remote, link, StreamTypes
    <2>6. RemoteTypes'
      BY <1>7, <1>0 DEF Retry, loop, remote, link, RemoteTypes
    <2> QED
      BY <2>1, <2>2, <2>3, <2>4, <2>5, <2>6, TypesSplit, PTL
  <1>8. CASE Return
    <2>0. /\ job'.op \in Probes \/ job' = job
          /\ job' \in Jobs
          /\ found' \in SUBSET {"lxc", "lxc-info", "cgroup", "ready"}
      <3>1. job \in Jobs /\ found \in SUBSET {"lxc", "lxc-info", "cgroup", "ready"}
        BY <1>0 DEF CallTypes, PlaceTypes
      <3>2. job' = job \/ (job.op \in {"lxc", "lxc-info"} /\ job' = [job EXCEPT !.op = NextProbe])
        BY <1>8 DEF Return
      <3>3. job.op \in {"lxc", "lxc-info"} => NextProbe \in Probes
        BY DEF NextProbe, Probes
      <3>4. job' \in Jobs /\ (job'.op \in Probes \/ job' = job)
        BY <3>1, <3>2, <3>3 DEF Jobs
      <3>5. found' \in SUBSET {"lxc", "lxc-info", "cgroup", "ready"}
        <4>1. {job.op} \intersect Probes \subseteq {"lxc", "lxc-info", "cgroup", "ready"}
          BY DEF Probes
        <4>2. found' \subseteq found \union ({job.op} \intersect Probes) \union {"ready"}
          BY <1>8 DEF Return
        <4> QED
          BY <3>1, <4>1, <4>2
      <3> QED
        BY <3>4, <3>5
    <2>1. PlaceTypes'
      BY <1>8, <1>0, <2>0 DEF Return, loop, remote, PlaceTypes, NewPipe
    <2>2. CallTypes'
      BY <1>8, <1>0, <2>0, LxcSshAssumption DEF Return, loop, remote, CallTypes, Operations,
         Probes, Jobs, NextProbe
    <2>3. FlagTypes'
      BY <1>8, <1>0 DEF Return, loop, remote, FlagTypes
    <2>4. LoopTypes'
      BY <1>8, <1>0 DEF Return, loop, remote, LoopTypes
    <2>5. StreamTypes'
      BY <1>8, <1>0 DEF Return, loop, remote, StreamTypes
    <2>6. RemoteTypes'
      BY <1>8, <1>0 DEF Return, loop, remote, RemoteTypes
    <2> QED
      BY <2>1, <2>2, <2>3, <2>4, <2>5, <2>6, TypesSplit, PTL
  <1>9. CASE Poll
    <2>1. PlaceTypes'
      BY <1>9, <1>0 DEF Poll, remote, link, PlaceTypes
    <2>2. CallTypes'
      BY <1>9, <1>0 DEF Poll, remote, link, CallTypes
    <2>3. FlagTypes'
      BY <1>9, <1>0 DEF Poll, remote, link, FlagTypes
    <2>4. LoopTypes'
      BY <1>9, <1>0 DEF Poll, remote, link, LoopTypes
    <2>5. StreamTypes'
      BY <1>9, <1>0 DEF Poll, remote, link, StreamTypes
    <2>6. RemoteTypes'
      BY <1>9, <1>0 DEF Poll, remote, link, RemoteTypes
    <2> QED
      BY <2>1, <2>2, <2>3, <2>4, <2>5, <2>6, TypesSplit, PTL
  <1>10. CASE Turn
    <2>1. PlaceTypes'
      BY <1>10, <1>0, TypeOK, Places, Escalated, Talk, TurnFacts DEF PlaceTypes
    <2>2. CallTypes'
      BY <1>10, <1>0, TypeOK, Places, Escalated, Talk, TurnFacts DEF CallTypes
    <2>3. FlagTypes'
      BY <1>10, <1>0, TypeOK, Places, Escalated, Talk, TurnFacts DEF FlagTypes
    <2>4. LoopTypes'
      BY <1>10, <1>0, TypeOK, Places, Escalated, Talk, TurnFacts DEF LoopTypes
    <2>5. StreamTypes'
      BY <1>10, <1>0, TypeOK, Places, Escalated, Talk, TurnFacts DEF StreamTypes
    <2>6. RemoteTypes'
      BY <1>10, <1>0, TypeOK, Places, Escalated, Talk, TurnFacts DEF RemoteTypes
    <2> QED
      BY <2>1, <2>2, <2>3, <2>4, <2>5, <2>6, TypesSplit, PTL
  <1>11. CASE Timeout
    <2>1. PlaceTypes'
      BY <1>11, <1>0 DEF Timeout, loop, link, PlaceTypes
    <2>2. CallTypes'
      BY <1>11, <1>0 DEF Timeout, loop, link, CallTypes
    <2>3. FlagTypes'
      BY <1>11, <1>0 DEF Timeout, loop, link, FlagTypes
    <2>4. LoopTypes'
      BY <1>11, <1>0 DEF Timeout, loop, link, LoopTypes
    <2>5. StreamTypes'
      BY <1>11, <1>0 DEF Timeout, loop, link, StreamTypes
    <2>6. RemoteTypes'
      BY <1>11, <1>0 DEF Timeout, loop, link, RemoteTypes
    <2> QED
      BY <2>1, <2>2, <2>3, <2>4, <2>5, <2>6, TypesSplit, PTL
  <1>12. CASE Wait
    <2>1. PlaceTypes'
      BY <1>12, <1>0 DEF Wait, loop, remote, link, PlaceTypes
    <2>2. CallTypes'
      BY <1>12, <1>0 DEF Wait, loop, remote, link, CallTypes
    <2>3. FlagTypes'
      BY <1>12, <1>0 DEF Wait, loop, remote, link, FlagTypes
    <2>4. LoopTypes'
      BY <1>12, <1>0 DEF Wait, loop, remote, link, LoopTypes
    <2>5. StreamTypes'
      BY <1>12, <1>0 DEF Wait, loop, remote, link, StreamTypes
    <2>6. RemoteTypes'
      BY <1>12, <1>0 DEF Wait, loop, remote, link, RemoteTypes
    <2> QED
      BY <2>1, <2>2, <2>3, <2>4, <2>5, <2>6, TypesSplit, PTL
  <1>13. CASE Rest
    <2>1. PlaceTypes'
      BY <1>13, <1>0 DEF Rest, link, PlaceTypes
    <2>2. CallTypes'
      BY <1>13, <1>0, LxcSshAssumption DEF Rest, link, CallTypes
    <2>3. FlagTypes'
      BY <1>13, <1>0 DEF Rest, link, FlagTypes
    <2>4. LoopTypes'
      BY <1>13, <1>0 DEF Rest, link, LoopTypes
    <2>5. StreamTypes'
      BY <1>13, <1>0, NothingSaid DEF Rest, link, StreamTypes
    <2>6. RemoteTypes'
      BY <1>13, <1>0 DEF Rest, link, RemoteTypes
    <2> QED
      BY <2>1, <2>2, <2>3, <2>4, <2>5, <2>6, TypesSplit, PTL
  <1>14. CASE Escalation
    <2>0. \A s \in Streams, line \in Kinds : Say(s, line) =>
              pipes' \in [Streams -> Seq(Kinds)] /\ written' \in [Streams -> Seq(Kinds)]
      BY TypeOK, SayFacts
    <2>9. stdin # <<>> => Tail(stdin) \in Seq({"password", "data"})
      BY TypeOK, InTail DEF TypeOK
    <2>1. PlaceTypes'
      BY <1>14, <1>0 DEF Escalation, loop, link, PlaceTypes, Ask, Judge, Grant, Deny
    <2>2. CallTypes'
      BY <1>14, <1>0 DEF Escalation, loop, link, CallTypes, Ask, Judge, Grant, Deny
    <2>3. FlagTypes'
      BY <1>14, <1>0 DEF Escalation, loop, link, FlagTypes, Ask, Judge, Grant, Deny
    <2>4. LoopTypes'
      BY <1>14, <1>0 DEF Escalation, loop, link, LoopTypes, Ask, Judge, Grant, Deny
    <2>5. StreamTypes'
      BY <1>14, <1>0, <2>0, <2>9 DEF Escalation, loop, link, StreamTypes, Streams,
         Kinds, Ask, Judge, Grant, Deny
    <2>6. RemoteTypes'
      BY <1>14, <1>0 DEF Escalation, loop, link, RemoteTypes, Ask, Judge, Grant, Deny
    <2> QED
      BY <2>1, <2>2, <2>3, <2>4, <2>5, <2>6, TypesSplit, PTL
  <1>15. CASE Work
    <2>0. \A s \in Streams, line \in Kinds : Say(s, line) =>
              pipes' \in [Streams -> Seq(Kinds)] /\ written' \in [Streams -> Seq(Kinds)]
      BY TypeOK, SayFacts
    <2>10. <<>> \in Seq({"password", "data"}) /\ <<"data">> \in Seq({"password", "data"})
          /\ stdin' \in {stdin, <<>>, <<"data">>}
      BY <1>15 DEF Work
    <2>1. PlaceTypes'
      BY <1>15, <1>0 DEF Work, loop, link, PlaceTypes
    <2>2. CallTypes'
      BY <1>15, <1>0 DEF Work, loop, link, CallTypes
    <2>3. FlagTypes'
      BY <1>15, <1>0 DEF Work, loop, link, FlagTypes
    <2>4. LoopTypes'
      BY <1>15, <1>0 DEF Work, loop, link, LoopTypes
    <2>5. StreamTypes'
      BY <1>15, <1>0, <2>0, <2>10 DEF Work, loop, link, StreamTypes, Streams, Kinds
    <2>6. RemoteTypes'
      BY <1>15, <1>0 DEF Work, loop, link, RemoteTypes
    <2> QED
      BY <2>1, <2>2, <2>3, <2>4, <2>5, <2>6, TypesSplit, PTL
  <1>16. CASE Exit
    <2>0. \A s \in Streams, line \in Kinds : Say(s, line) =>
              pipes' \in [Streams -> Seq(Kinds)] /\ written' \in [Streams -> Seq(Kinds)]
      BY TypeOK, SayFacts
    <2>1. PlaceTypes'
      BY <1>16, <1>0 DEF Exit, loop, link, PlaceTypes
    <2>2. CallTypes'
      BY <1>16, <1>0 DEF Exit, loop, link, CallTypes
    <2>3. FlagTypes'
      BY <1>16, <1>0 DEF Exit, loop, link, FlagTypes
    <2>4. LoopTypes'
      BY <1>16, <1>0 DEF Exit, loop, link, LoopTypes
    <2>5. StreamTypes'
      BY <1>16, <1>0, <2>0 DEF Exit, loop, link, StreamTypes, Streams, Kinds
    <2>6. RemoteTypes'
      BY <1>16, <1>0 DEF Exit, loop, link, RemoteTypes, Streams
    <2> QED
      BY <2>1, <2>2, <2>3, <2>4, <2>5, <2>6, TypesSplit, PTL
  <1>17. CASE UNCHANGED vars
    BY <1>17, TypeOK DEF vars, TypeOK
  <1> QED
    BY <1>1, <1>2, <1>3, <1>4, <1>5, <1>6, <1>7, <1>8, <1>9, <1>10, <1>11, <1>12, <1>13,
       <1>14, <1>15, <1>16, <1>17 DEF Next, Operate, Program

\* What can be said to the loop, as far as the negotiation is concerned.
LEMMA Spoken ==
    ASSUME TypeOK, NEW s \in Streams, NEW line \in Kinds, Say(s, line)
    PROVE  /\ \A t \in Streams, x \in Kinds :
                  x \in ToSet(pipes'[t]) <=> x \in ToSet(pipes[t]) \/ (x = line /\ t = s)
  BY SayFacts

\* Every step keeps to what the negotiation may have heard.
LEMMA TalkStep ==
    ASSUME TypeOK, Places, Escalated, Talk, [Next]_vars
    PROVE  Talk'
  <1>1. CASE SetOptions
    BY <1>1, TypeOK, Places, Escalated, Talk, LxcSshAssumption DEF SetOptions, Call,
       NewPipe, loop, remote, TypeOK, Places, Escalated, Talk, Live, Kinds, Streams,
       Operations, Probes, Jobs
  <1>2. CASE "ready" \in found /\ (\E become \in Becomes : ExecCommand(become)) /\ UNCHANGED found
    BY <1>2, TypeOK, Places, Escalated, Talk, LxcSshAssumption DEF ExecCommand, Call,
       NewPipe, loop, remote, TypeOK, Places, Escalated, Talk, Live, Kinds, Streams,
       Operations, Probes, Jobs
  <1>3. CASE "ready" \in found /\ (\E become \in Becomes : PutFile(become)) /\ UNCHANGED found
    BY <1>3, TypeOK, Places, Escalated, Talk, LxcSshAssumption DEF PutFile, Call, NewPipe,
       loop, remote, TypeOK, Places, Escalated, Talk, Live, Kinds, Streams, Operations,
       Probes, Jobs
  <1>4. CASE "ready" \in found /\ (\E become \in Becomes : FetchFile(become)) /\ UNCHANGED found
    BY <1>4, TypeOK, Places, Escalated, Talk, LxcSshAssumption DEF FetchFile, Call,
       NewPipe, loop, remote, TypeOK, Places, Escalated, Talk, Live, Kinds, Streams,
       Operations, Probes, Jobs
  <1>5. CASE Popen
    <2>1. job.become \in {"none", "prompt", "key"}
      BY TypeOK, LxcSshAssumption DEF TypeOK, Jobs
    <2> SUFFICES ASSUME pc' \in Live, state' < 2
                 PROVE  Talk'
      BY DEF Talk
    <2>2. /\ pipes' = Nothing /\ tmp' = Nothing /\ flags' = {} /\ watched' = Streams
          /\ state' = (CASE job.become = "prompt" -> 0 [] job.become = "key" -> 1
                          [] OTHER -> IF job.data THEN 3 ELSE 2)
          /\ stdin' = (IF state' = 3 THEN <<"data">> ELSE <<>>)
          /\ sudo' = (IF job.op = "exec" /\ job.become # "none" THEN "will" ELSE "off")
          /\ work' = "todo" /\ job' = job
      BY <1>5 DEF Popen, Live, loop, remote, link
    <2>3. job.become # "none" /\ stdin' = <<>>
      BY <2>1, <2>2
    <2>4. \A s \in Streams : tmp'[s] = <<>> /\ ToSet(pipes'[s]) = {}
      BY <2>2, NothingSaid DEF Nothing
    <2>5. tmp' \in [Streams -> {<<>>, <<"tail">>}]
      BY <2>2 DEF Nothing
    <2>6. "data" \notin ToSet(stdin')
      BY <2>3, InEmpty
    <2> QED
      BY <2>2, <2>3, <2>4, <2>5, <2>6 DEF Talk, Streams
  <1>6. CASE Collect
    BY <1>6, TypeOK, Places, Escalated, Talk, LxcSshAssumption DEF Collect, HostKey, OldSsh, loop, remote,
       link, TypeOK, Places, Escalated, Talk, Live, Kinds, Streams, Operations, Probes,
       Jobs
  <1>7. CASE Retry
    BY <1>7, TypeOK, Places, Escalated, Talk, LxcSshAssumption DEF Retry, loop, remote,
       link, TypeOK, Places, Escalated, Talk, Live, Kinds, Streams, Operations, Probes,
       Jobs
  <1>8. CASE Return
    BY <1>8, TypeOK, Places, Escalated, Talk, LxcSshAssumption DEF Return, NewPipe,
       NextProbe, loop, remote, TypeOK, Places, Escalated, Talk, Live, Kinds, Streams,
       Operations, Probes, Jobs
  <1>9. CASE Poll
    BY <1>9, TypeOK, Places, Escalated, Talk, LxcSshAssumption DEF Poll, remote, link,
       TypeOK, Places, Escalated, Talk, Live, Kinds, Streams, Operations, Probes, Jobs
  <1>10. CASE Turn
    <2>1. pc = "select"
      BY <1>10 DEF Turn
    <2> QED
      BY <1>10, <2>1, TypeOK, Places, Escalated, Talk, TurnFacts DEF TypeOK, Places, Escalated,
         Talk, Live, Streams
  <1>11. CASE Timeout
    BY <1>11, TypeOK, Places, Escalated, Talk, LxcSshAssumption DEF Timeout, loop, link,
       TypeOK, Places, Escalated, Talk, Live, Kinds, Streams, Operations, Probes, Jobs
  <1>12. CASE Wait
    BY <1>12, TypeOK, Places, Escalated, Talk, LxcSshAssumption DEF Wait, loop, remote,
       link, TypeOK, Places, Escalated, Talk, Live, Kinds, Streams, Operations, Probes,
       Jobs
  <1>13. CASE Rest
    BY <1>13, TypeOK, Places, Escalated, Talk, LxcSshAssumption DEF Rest, link, TypeOK,
       Places, Escalated, Talk, Live, Kinds, Streams, Operations, Probes, Jobs
  <1>14. CASE Escalation
    <2>1. pc' = pc /\ UNCHANGED <<job, state, tmp, flags, watched, proc, work>> /\ proc = "running"
      BY <1>14 DEF Escalation, loop, link
    <2> SUFFICES ASSUME pc \in Live, state < 2
                 PROVE  Talk'
      BY <2>1 DEF Talk
    <2>2. CASE Ask
      BY <1>14, <2>1, <2>2, TypeOK, Talk, Spoken DEF Ask, Talk, Kinds, Streams
    <2>3. CASE Judge
      <3>1. /\ state # 0 /\ sudo = "asked" /\ "data" \notin ToSet(stdin) /\ stdin # <<>>
            /\ state \in Nat
        BY <2>3, Talk, TypeOK DEF Judge, Talk, TypeOK
      <3>2. "data" \notin ToSet(stdin')
        BY <2>3, <3>1, TypeOK, InTail DEF Judge, TypeOK
      <3>3. CASE sudo' = "granted" /\ Say("out", "success")
        BY <2>1, <3>1, <3>2, <3>3, TypeOK, Talk, Spoken DEF Talk, Kinds, Streams
      <3>4. CASE sudo' = "will" /\ Say("err", "error")
        BY <2>1, <3>1, <3>2, <3>4, TypeOK, Talk, Spoken DEF Talk, Kinds, Streams
      <3> QED
        BY <2>3, <3>3, <3>4 DEF Judge
    <2>4. CASE Grant
      BY <1>14, <2>1, <2>4, TypeOK, Talk, Spoken DEF Grant, Talk, Kinds, Streams
    <2>5. CASE Deny
      BY <1>14, <2>1, <2>5, TypeOK, Talk, Spoken DEF Deny, Talk, Kinds, Streams
    <2> QED
      BY <1>14, <2>2, <2>3, <2>4, <2>5 DEF Escalation
  <1>15. CASE Work
    <2>1. /\ pc' = pc /\ UNCHANGED <<job, state, tmp, flags, watched, proc, sudo>>
          /\ proc = "running" /\ Admitted
      BY <1>15 DEF Work, loop, link
    <2> SUFFICES ASSUME pc \in Live, state < 2
                 PROVE  Talk'
      BY <2>1 DEF Talk
    <2>2. "data" \notin ToSet(stdin) /\ (job.data /\ job.op = "exec" => work = "todo")
      BY Talk DEF Talk
    <2>3. stdin # <<"data">>
      BY <2>2 DEF ToSet
    <2>4. job.op = "exec" => ~job.data
      BY <1>15, <2>2, <2>3 DEF Work
    <2>5. stdin' = <<>> \/ stdin' = stdin
      BY <1>15 DEF Work
    <2>6. \/ pipes' = pipes
          \/ \E s \in Streams, line \in {"text", "tail", "config"} : Say(s, line)
      BY <1>15 DEF Work, Streams
    <2>7. \A t \in Streams, x \in {"prompt", "success"} :
              x \in ToSet(pipes'[t]) <=> x \in ToSet(pipes[t])
      BY <2>6, TypeOK, Spoken DEF Kinds
    <2> QED
      BY <2>1, <2>2, <2>4, <2>5, <2>7, Talk, InEmpty DEF Talk, Streams
  <1>16. CASE Exit
    <2>1. pc' = pc /\ UNCHANGED <<job, state, tmp, flags, watched, sudo, stdin, work>>
      BY <1>16 DEF Exit, loop, link
    <2>2. proc = "running" /\ proc' = "exited" /\ (pipes' = pipes \/ \E line \in {"broken", "config"} : Say("err", line))
      BY <1>16 DEF Exit
    <2>3. \A t \in Streams, x \in {"prompt", "success"} :
              x \in ToSet(pipes'[t]) <=> x \in ToSet(pipes[t])
      BY <2>2, TypeOK, Spoken DEF Kinds, Streams
    <2> QED
      BY <2>1, <2>2, <2>3, Talk DEF Talk, Streams
  <1>17. CASE UNCHANGED vars
    BY <1>17, TypeOK, Places, Escalated, Talk, LxcSshAssumption DEF vars, TypeOK, Places,
       Escalated, Talk, Live, Kinds, Streams, Operations, Probes, Jobs
  <1> QED
    BY <1>1, <1>2, <1>3, <1>4, <1>5, <1>6, <1>7, <1>8, <1>9, <1>10, <1>11, <1>12, <1>13,
       <1>14, <1>15, <1>16, <1>17 DEF Next, Operate, Program

\* The beginning.
LEMMA InitInv ==
    ASSUME Init
    PROVE  IInv
  <1>1. /\ pc = "idle" /\ job = [op |-> "lxc", data |-> FALSE, become |-> "none"]
        /\ pipes = Nothing /\ written = Nothing /\ password \in Passwords
    BY DEF Init
  <1>2. TypeOK
    <2>1. PlaceTypes /\ FlagTypes
      BY DEF Init, PlaceTypes, FlagTypes
    <2>4. LoopTypes
      BY DEF Init, LoopTypes
    <2>5. RemoteTypes
      BY DEF Init, RemoteTypes
    <2>2. StreamTypes
      BY NothingSaid DEF Init, StreamTypes
    <2>3. CallTypes
      BY LxcSshAssumption DEF Init, CallTypes, Jobs, Probes
    <2> QED
      BY <2>1, <2>2, <2>3, <2>4, <2>5, TypesSplit
  <1>3. Places /\ Escalated /\ Talk /\ Result /\ Runs
    BY <1>1 DEF Init, Places, Escalated, Talk, Result, PutMeansPut, Runs, Live, Operations, Probes
  <1> QED
    BY <1>2, <1>3 DEF IInv

\* Every step keeps all of it.
LEMMA InvStep ==
    ASSUME IInv, [Next]_vars
    PROVE  IInv'
  BY TypeStep, PlacesStep, EscalatedStep, TalkStep, ResultStep, RunsStep DEF IInv

-----------------------------------------------------------------------------
(* Theorems                                                                *)

\* Where the process is, what was said and what was done agree, however ssh, sudo
\* and the command take their turns.
THEOREM Inductive == Spec => []IInv
  <1>1. Init => IInv
    BY InitInv
  <1>2. IInv /\ [Next]_vars => IInv'
    BY InvStep
  <1> QED
    BY <1>1, <1>2, PTL DEF Spec

\* The types.
THEOREM Typing == Spec => []TypeOK
  <1>1. IInv => TypeOK
    BY DEF IInv
  <1> QED
    BY <1>1, Inductive, PTL

\* A failure of ssh that can be told is never a result, none is raised before the
\* last retry, what is returned as a success has run, and after such a put the file
\* is there, for any number of retries.
THEOREM Truth == Spec => []ResultIsTrue
  <1>1. IInv => ResultIsTrue
    BY DEF IInv, Places, Result, ResultIsTrue, FailuresRetried, SuccessHasRun
  <1> QED
    BY <1>1, Inductive, PTL

\* The password goes to a program that has asked for it, and data to the command.
THEOREM Reading == Spec => NothingMisread
  <1>1. IInv /\ [Next]_vars => [\A x \in {"password", "data"} :
            x \in ToSet(stdin') /\ x \notin ToSet(stdin) =>
                CASE x = "password" -> sudo = "asked"
                  [] x = "data" -> sudo' \in {"off", "granted"} \/ proc # "running"]_vars
    <2> SUFFICES ASSUME IInv, Next
                 PROVE  /\ "password" \in ToSet(stdin') /\ "password" \notin ToSet(stdin) =>
                              sudo = "asked"
                        /\ "data" \in ToSet(stdin') /\ "data" \notin ToSet(stdin) =>
                              sudo' \in {"off", "granted"} \/ proc # "running"
      OBVIOUS
    <2>1. CASE Turn
      BY <2>1, TurnFacts DEF IInv, Turn
    <2>2. CASE Popen
      <3>1. stdin' \in {<<>>, <<"data">>, stdin}
        BY <2>2 DEF Popen, remote
      <3>2. "password" \in ToSet(stdin') => "password" \in ToSet(stdin)
        BY <3>1, InEmpty DEF ToSet
      <3>3. "data" \in ToSet(stdin') /\ "data" \notin ToSet(stdin) => sudo' = "off"
        <4>1. stdin' = <<>> \/ (stdin' = <<"data">> /\ job.become \notin {"prompt", "key"}
                               /\ sudo' = IF job.op = "exec" /\ job.become # "none"
                                          THEN "will" ELSE "off")
              \/ stdin' = stdin
          BY <2>2 DEF Popen, remote
        <4>2. job.become \in {"prompt", "key", "none"}
          BY LxcSshAssumption DEF IInv, TypeOK, Jobs
        <4> QED
          BY <4>1, <4>2, InEmpty
      <3> QED
        BY <3>2, <3>3
    <2>3. CASE Escalation
      <3>1. stdin' = stdin \/ (stdin # <<>> /\ stdin' = Tail(stdin))
        BY <2>3 DEF Escalation, Ask, Judge, Grant, Deny
      <3> QED
        BY <3>1, InTail DEF IInv, TypeOK
    <2>4. CASE Rest \/ Work
      <3>1. stdin' = stdin \/ stdin' = <<>>
        BY <2>4 DEF Rest, Work
      <3> QED
        BY <3>1, InEmpty
    <2>5. CASE \/ SetOptions \/ Operate \/ Collect \/ Retry \/ Return
               \/ Poll \/ Timeout \/ Wait \/ Exit
      BY <2>5 DEF SetOptions, Operate, ExecCommand, PutFile, FetchFile, Call, Collect, Retry,
         Return, Poll, Timeout, Wait, Exit, remote
    <2> QED
      BY <2>1, <2>2, <2>3, <2>4, <2>5 DEF Next, Program
  <1> QED
    BY <1>1, Inductive, PTL DEF Spec, NothingMisread

\* What has run to its end is run again only if it has ended like ssh or sshpass
\* fails; but all that does not escalate, in a play that does.
THEOREM OnceDone == Spec => DoneIsNotRepeated
  <1>1. IInv => (pc = "popen" /\ (attempt > 0 \/ again) /\ work = "done" =>
                    \/ rc = 255 \/ HostKey \/ OldSsh
                    \/ job.op # "exec" /\ job.become # "none")
    BY DEF IInv, Runs, Excused
  <1> QED
    BY <1>1, Inductive, PTL DEF Spec, DoneIsNotRepeated

-----------------------------------------------------------------------------
(* What is output.  The kinds of a sequence of lines are told from one      *)
(* number of lines to the next: by induction.                               *)

\* What holds of 0, and of n + 1 if it holds of n, holds of every number.
LEMMA EveryNumber ==
    ASSUME NEW S, 0 \in S, \A n \in Nat : n \in S => n + 1 \in S
    PROVE  \A n \in Nat : n \in S
  <1> DEFINE T == {n \in Nat : n \notin S}
  <1>1. SUFFICES ASSUME T # {} PROVE FALSE
    OBVIOUS
  <1>2. T \subseteq Nat
    OBVIOUS
  <1> HIDE DEF T
  <1>3. PICK n \in T : \A k \in T : <<k, n>> \notin OpToRel(<, Nat)
    BY <1>1, <1>2, WFMin, NatLessThanWellFounded, Zenon
  <1>4. n \in Nat /\ n \notin S /\ \A k \in Nat : k \notin S => ~(k < n)
    BY <1>3 DEF T, OpToRel
  <1>5. n - 1 \in Nat /\ n - 1 < n /\ n - 1 + 1 = n
    BY <1>4
  <1>6. n - 1 \in S
    BY <1>4, <1>5
  <1> QED
    BY <1>4, <1>5, <1>6

\* The output of the first lines, for each number of them.
Recurs(lines, size, upto) ==
    upto = [n \in 0..size |->
              IF n = 0 THEN <<>>
              ELSE IF IsOutput(lines[n]) THEN Append(upto[n - 1], lines[n]) ELSE upto[n - 1]]

LEMMA RecursAt ==
    ASSUME NEW lines, NEW size \in Nat, NEW f, Recurs(lines, size, f)
    PROVE  /\ f[0] = <<>>
           /\ \A n \in 1..size :
                f[n] = IF IsOutput(lines[n]) THEN Append(f[n - 1], lines[n]) ELSE f[n - 1]
  <1>1. \A n \in 0..size :
            f[n] = IF n = 0 THEN <<>>
                   ELSE IF IsOutput(lines[n]) THEN Append(f[n - 1], lines[n]) ELSE f[n - 1]
    BY Zenon DEF Recurs
  <1> QED
    BY <1>1

\* There is such a function.
LEMMA Exists ==
    ASSUME NEW lines
    PROVE  \A size \in Nat : \E upto : Recurs(lines, size, upto)
  <1> DEFINE S == {n \in Nat : \E upto : Recurs(lines, n, upto)}
  <1>1. 0 \in S
    <2>1. Recurs(lines, 0, [n \in 0..0 |-> <<>>])
      BY DEF Recurs
    <2> QED
      BY <2>1
  <1>2. ASSUME NEW n \in Nat, n \in S PROVE n + 1 \in S
    <2>1. PICK upto : Recurs(lines, n, upto)
      BY <1>2
    <2> DEFINE line == lines[n + 1]
               more == [k \in 0..(n + 1) |->
                          IF k <= n THEN upto[k]
                          ELSE IF IsOutput(line) THEN Append(upto[n], line) ELSE upto[n]]
    <2>2. \A k \in 0..(n + 1) :
            more[k] = IF k = 0 THEN <<>>
                      ELSE IF IsOutput(lines[k]) THEN Append(more[k - 1], lines[k])
                      ELSE more[k - 1]
      <3> TAKE k \in 0..(n + 1)
      <3>1. CASE k = n + 1
        <4>1. more[n] = upto[n] /\ k - 1 = n /\ k # 0 /\ ~(k <= n)
          BY <3>1
        <4>2. more[k] = IF IsOutput(lines[k]) THEN Append(upto[n], lines[k]) ELSE upto[n]
          BY <3>1, <4>1
        <4> QED
          BY <4>1, <4>2
      <3>2. CASE k <= n
        <4>1. k \in 0..n /\ more[k] = upto[k] /\ (k # 0 => k \in 1..n /\ more[k - 1] = upto[k - 1])
          BY <3>2
        <4>2. /\ upto[0] = <<>>
              /\ k # 0 => upto[k] = IF IsOutput(lines[k]) THEN Append(upto[k - 1], lines[k])
                                    ELSE upto[k - 1]
          BY <2>1, <4>1, RecursAt
        <4> HIDE DEF more
        <4> QED
          BY <4>1, <4>2
      <3> QED
        BY <3>1, <3>2
    <2>3. Recurs(lines, n + 1, more)
      BY <2>2 DEF Recurs
    <2> QED
      BY <2>3
  <1> HIDE DEF S
  <1>3. \A n \in Nat : n \in S
    BY <1>1, <1>2, EveryNumber
  <1> QED
    BY <1>3 DEF S

\* It says the same of the same lines.
LEMMA Agree ==
    ASSUME NEW a, NEW b, NEW m \in Nat, NEW n \in Nat, NEW f, NEW g,
           Recurs(a, m, f), Recurs(b, n, g), m <= n,
           \A i \in 1..m : a[i] = b[i]
    PROVE  \A i \in 0..m : f[i] = g[i]
  <1> DEFINE S == {i \in Nat : i <= m => f[i] = g[i]}
  <1>1. 0 \in S
    BY RecursAt
  <1>2. ASSUME NEW i \in Nat, i \in S PROVE i + 1 \in S
    <2> SUFFICES ASSUME i + 1 <= m PROVE f[i + 1] = g[i + 1]
      OBVIOUS
    <2>1. i + 1 \in 1..m /\ i + 1 \in 1..n /\ i + 1 - 1 = i
      OBVIOUS
    <2>2. f[i] = g[i] /\ a[i + 1] = b[i + 1]
      BY <1>2, <2>1
    <2>3. f[i + 1] = IF IsOutput(a[i + 1]) THEN Append(f[i + 1 - 1], a[i + 1]) ELSE f[i + 1 - 1]
      BY <2>1, RecursAt
    <2>4. g[i + 1] = IF IsOutput(b[i + 1]) THEN Append(g[i + 1 - 1], b[i + 1]) ELSE g[i + 1 - 1]
      BY <2>1, RecursAt
    <2> QED
      BY <2>1, <2>2, <2>3, <2>4
  <1> HIDE DEF S
  <1>3. \A i \in Nat : i \in S
    BY <1>1, <1>2, EveryNumber
  <1> QED
    BY <1>3 DEF S

LEMMA OutputIs ==
    ASSUME NEW q \in Seq(Kinds)
    PROVE  \E f : Recurs(q, Len(q), f) /\ Output(q) = f[Len(q)]
  <1>1. \E f : Recurs(q, Len(q), f)
    BY Exists
  <1> DEFINE f == CHOOSE f : Recurs(q, Len(q), f)
  <1>2. Recurs(q, Len(q), f)
    BY <1>1
  <1>3. Output(q) = f[Len(q)]
    BY Zenon DEF Output, Recurs
  <1> QED
    BY <1>2, <1>3

LEMMA OutputNone == Output(<<>>) = <<>>
  <1>1. <<>> \in Seq(Kinds) /\ Len(<<>>) = 0
    OBVIOUS
  <1>2. PICK f : Recurs(<<>>, 0, f) /\ Output(<<>>) = f[0]
    BY <1>1, OutputIs
  <1> QED
    BY <1>2, RecursAt

LEMMA OutputAppend ==
    ASSUME NEW q \in Seq(Kinds), NEW x \in Kinds
    PROVE  Output(Append(q, x)) = IF IsOutput(x) THEN Append(Output(q), x) ELSE Output(q)
  <1> DEFINE r == Append(q, x)
  <1>1. /\ r \in Seq(Kinds) /\ Len(q) \in Nat /\ Len(r) = Len(q) + 1 /\ r[Len(r)] = x
        /\ \A i \in 1..Len(q) : q[i] = r[i]
    OBVIOUS
  <1> HIDE DEF r
  <1>2. PICK f : Recurs(q, Len(q), f) /\ Output(q) = f[Len(q)]
    BY OutputIs
  <1>3. PICK g : Recurs(r, Len(r), g) /\ Output(r) = g[Len(r)]
    BY <1>1, OutputIs
  <1>4. f[Len(q)] = g[Len(q)]
    <2>1. \A i \in 0..Len(q) : f[i] = g[i]
      <3>1. Len(r) \in Nat /\ Len(q) <= Len(r)
        BY <1>1
      <3>2. \A i \in 1..Len(q) : q[i] = r[i]
        BY <1>1
      <3>3. Len(q) \in Nat /\ Recurs(q, Len(q), f) /\ Recurs(r, Len(r), g)
        BY <1>1, <1>2, <1>3
      <3> QED
        BY ONLY <3>1, <3>2, <3>3, Agree
    <2> QED
      BY <1>1, <2>1
  <1>5. g[Len(r)] = IF IsOutput(r[Len(r)]) THEN Append(g[Len(r) - 1], r[Len(r)])
                    ELSE g[Len(r) - 1]
    <2>1. Len(r) \in Nat /\ Len(r) \in 1..Len(r)
      BY <1>1
    <2> QED
      BY <1>3, <2>1, RecursAt
  <1> QED
    BY <1>1, <1>2, <1>3, <1>4, <1>5 DEF r

\* The output of lines is made of lines.
LEMMA OutputType ==
    ASSUME NEW q \in Seq(Kinds)
    PROVE  Output(q) \in Seq(Kinds)
  <1>1. PICK f : Recurs(q, Len(q), f) /\ Output(q) = f[Len(q)]
    BY OutputIs
  <1> DEFINE S == {n \in Nat : n <= Len(q) => f[n] \in Seq(Kinds)}
  <1>2. Len(q) \in Nat /\ \A n \in 1..Len(q) : q[n] \in Kinds
    OBVIOUS
  <1>3. 0 \in S
    <2>1. f[0] = <<>> /\ <<>> \in Seq(Kinds)
      BY <1>1, <1>2, RecursAt
    <2> QED
      BY <2>1
  <1>4. ASSUME NEW n \in Nat, n \in S PROVE n + 1 \in S
    <2> SUFFICES ASSUME n + 1 <= Len(q) PROVE f[n + 1] \in Seq(Kinds)
      OBVIOUS
    <2>1. n + 1 \in 1..Len(q) /\ n + 1 - 1 = n /\ q[n + 1] \in Kinds
      BY <1>2
    <2>2. f[n + 1] = IF IsOutput(q[n + 1]) THEN Append(f[n + 1 - 1], q[n + 1]) ELSE f[n + 1 - 1]
      BY <1>1, <1>2, <2>1, RecursAt
    <2>3. f[n] \in Seq(Kinds)
      BY <1>2, <1>4
    <2>4. Append(f[n], q[n + 1]) \in Seq(Kinds)
      BY <2>1, <2>3, AppendProperties
    <2> QED
      BY <2>1, <2>2, <2>3, <2>4
  <1> HIDE DEF S
  <1>5. \A n \in Nat : n \in S
    BY <1>3, <1>4, EveryNumber
  <1> QED
    BY <1>1, <1>2, <1>5 DEF S

\* A line that is not ended is output.
LEMMA OutputTail == Output(<<"tail">>) = <<"tail">> /\ <<"tail">> \in Seq(Kinds)
  <1>1. "tail" \in Kinds /\ IsOutput("tail") /\ <<>> \in Seq(Kinds)
    BY DEF Kinds, IsOutput
  <1>2. Append(<<>>, "tail") = <<"tail">> /\ <<"tail">> \in Seq(Kinds)
    BY <1>1
  <1>3. Output(Append(<<>>, "tail")) = Append(Output(<<>>), "tail")
    BY <1>1, OutputAppend
  <1> QED
    BY <1>2, <1>3, OutputNone

\* What is examined is taken or kept, in its order.
LEMMA ExaminedFacts ==
    ASSUME NEW q \in Seq(Kinds)
    PROVE  /\ Examined(q).done \in Seq(Kinds)
           /\ Examined(q).rest \in {<<>>, <<"tail">>}
           /\ Output(q) = Examined(q).done \o Examined(q).rest
  <1> DEFINE o == Output(q)
  <1>1. o \in Seq(Kinds)
    BY OutputType
  <1>2. Examined(q) = IF Unfinished(o) THEN [done |-> Front(o), rest |-> <<"tail">>]
                      ELSE [done |-> o, rest |-> <<>>]
    BY DEF Examined
  <1> HIDE DEF o
  <1>3. CASE ~Unfinished(o)
    BY <1>1, <1>2, <1>3, ConcatEmptySeq DEF o
  <1>4. CASE Unfinished(o)
    <2>1. PICK p \in Seq(Kinds), x \in Kinds : o = Append(p, x)
      BY <1>1, <1>4, SequenceEmptyOrAppend DEF Unfinished
    <2>2. Len(o) = Len(p) + 1 /\ Len(p) \in Nat /\ o[Len(o)] = x
          /\ \A i \in 1..Len(p) : o[i] = p[i]
      BY <2>1
    <2>3. Last(o) = x /\ x = "tail"
      BY <1>4, <2>2 DEF Last, Unfinished
    <2>4. Front(o) = p
      BY <2>1, <2>2 DEF Front
    <2>5. o = p \o <<"tail">>
      BY <2>1, <2>3, AppendIsConcat
    <2> QED
      BY <1>2, <1>4, <2>4, <2>5 DEF o
  <1> QED
    BY <1>3, <1>4

\* What was put to the end can be seen there.
LEMMA EndsInTail ==
    ASSUME NEW q \in Seq(Kinds)
    PROVE  Unfinished(q \o <<"tail">>) /\ Front(q \o <<"tail">>) = q
  <1>1. q \o <<"tail">> = Append(q, "tail") /\ "tail" \in Kinds
    BY AppendIsConcat DEF Kinds
  <1>2. /\ Len(Append(q, "tail")) = Len(q) + 1 /\ Len(q) \in Nat
        /\ Append(q, "tail")[Len(q) + 1] = "tail"
        /\ \A i \in 1..Len(q) : Append(q, "tail")[i] = q[i]
        /\ Append(q, "tail") # <<>>
    BY <1>1, AppendProperties
  <1> QED
    BY <1>1, <1>2 DEF Unfinished, Last, Front

\* What was written to a stream is there, in this order: output, what was examined
\* and kept, and what was not read.
Whole(s) ==
    \/ got[s] = written[s]
    \/ state < 2 /\ Unfinished(written[s]) /\ got[s] = Front(written[s])
Unread(s) == IF state < 2 THEN Output(tmp[s] \o pipes[s]) ELSE tmp[s] \o pipes[s]
Streaming ==
    /\ tmp \in [Streams -> {<<>>, <<"tail">>}] /\ got \in [Streams -> Seq(Kinds)]
    /\ \A s \in Streams : written[s] = got[s] \o Unread(s)
    /\ \A s \in Streams : pipes[s] # <<>> => s \in watched
    /\ proc = "running" => watched = Streams
Accounted ==
    /\ pc \in Live => Streaming
    /\ pc = "wait" => proc # "running"
    /\ pc \in {"wait", "collect", "returned"} => \A s \in Streams : Whole(s)

\* Where nothing is left to be read, what was kept is all there is.
LEMMA Drained ==
    ASSUME NEW t, t \in {<<>>, <<"tail">>}
    PROVE  t \in Seq(Kinds) /\ t \o <<>> = t /\ Output(t \o <<>>) = t
  <1>1. <<>> \in Seq(Kinds) /\ <<"tail">> \in Seq(Kinds)
    BY OutputTail
  <1>2. t \in Seq(Kinds)
    BY <1>1
  <1>3. t \o <<>> = t
    BY <1>2, ConcatEmptySeq
  <1> QED
    BY <1>2, <1>3, OutputNone, OutputTail

LEMMA LinesAssociate ==
    ASSUME NEW a \in Seq(Kinds), NEW b \in Seq(Kinds), NEW c \in Seq(Kinds)
    PROVE  (a \o b) \o c = a \o (b \o c) /\ a \o b \in Seq(Kinds)
  BY ConcatAssociative, ConcatProperties

\* A line put to the end of the second part is put to the end of the whole.
LEMMA AppendsLast ==
    ASSUME NEW a \in Seq(Kinds), NEW b \in Seq(Kinds), NEW x \in Kinds
    PROVE  a \o Append(b, x) = Append(a \o b, x)
  <1>1. /\ Append(b, x) \in Seq(Kinds) /\ a \o b \in Seq(Kinds)
        /\ Append(a \o b, x) \in Seq(Kinds) /\ a \o Append(b, x) \in Seq(Kinds)
        /\ Len(a) \in Nat /\ Len(b) \in Nat
    BY AppendProperties, ConcatProperties
  <1>2. Len(a \o Append(b, x)) = Len(Append(a \o b, x))
    BY <1>1
  <1>3. \A i \in 1..Len(a \o Append(b, x)) : (a \o Append(b, x))[i] = Append(a \o b, x)[i]
    BY <1>1
  <1> QED
    BY <1>1, <1>2, <1>3, SeqEqual

\* A line that is said comes last in what is not read.
LEMMA SaidIsUnread ==
    ASSUME TypeOK, Streaming, proc = "running", NEW s \in Streams, NEW line \in Kinds,
           Say(s, line), state >= 2 => IsOutput(line), UNCHANGED <<state, tmp, got, watched>>
    PROVE  Streaming'
  <1>1. /\ pipes \in [Streams -> Seq(Kinds)] /\ written \in [Streams -> Seq(Kinds)]
        /\ got \in [Streams -> Seq(Kinds)] /\ state \in 0..3
        /\ tmp \in [Streams -> {<<>>, <<"tail">>}] /\ watched = Streams
        /\ \A t \in Streams : written[t] = got[t] \o Unread(t)
    BY DEF TypeOK, Streaming
  <1>2. /\ \A t \in Streams : t # s => pipes'[t] = pipes[t] /\ written'[t] = written[t]
        /\ pipes'[s] = Append(pipes[s], line)
        /\ written'[s] = IF IsOutput(line) THEN Append(written[s], line) ELSE written[s]
    BY <1>1 DEF Say
  <1>3. ASSUME NEW t \in Streams, t # s PROVE written'[t] = got'[t] \o Unread(t)'
    BY <1>1, <1>2, <1>3 DEF Unread
  <1>4. written'[s] = got'[s] \o Unread(s)'
    <2> DEFINE q == tmp[s] \o pipes[s]
    <2>1. tmp[s] \in Seq(Kinds) /\ pipes[s] \in Seq(Kinds) /\ got[s] \in Seq(Kinds)
      BY <1>1, Drained
    <2>2. q \in Seq(Kinds) /\ Output(q) \in Seq(Kinds)
      BY <2>1, ConcatProperties, OutputType
    <2>3. tmp'[s] \o pipes'[s] = Append(q, line)
      BY <1>2, <2>1, AppendsLast
    <2> HIDE DEF q
    <2>4. Unread(s) \in Seq(Kinds)
      BY <2>2 DEF Unread, q
    <2>5. Unread(s)' = IF IsOutput(line) THEN Append(Unread(s), line) ELSE Unread(s)
      <3>1. CASE state < 2
        BY <2>2, <2>3, <3>1, OutputAppend DEF Unread, q
      <3>2. CASE state >= 2
        BY <1>1, <2>3, <3>2 DEF Unread, q
      <3> QED
        BY <1>1, <3>1, <3>2
    <2>6. got[s] \o Append(Unread(s), line) = Append(got[s] \o Unread(s), line)
      BY <2>1, <2>4, AppendsLast
    <2> QED
      BY <1>1, <1>2, <2>5, <2>6
  <1> QED
    BY <1>1, <1>3, <1>4 DEF Streaming

\* An iteration takes all there is, and leaves the loop only when that is all there will be.
LEMMA TurnAccounts ==
    ASSUME TypeOK, Places, Escalated, Talk, Streaming, Turn
    PROVE  Accounted'
  <1> DEFINE left == watched \ {s \in Ready : pipes[s] = <<>>}
             cut(s) == IF state < 2 THEN Examined(Chunk[s]) ELSE [done |-> Chunk[s], rest |-> <<>>]
  <1>1. /\ pc = "select" /\ (Ready # {} \/ state >= 2)
        /\ pipes' = [s \in Streams |-> IF s \in Ready THEN <<>> ELSE pipes[s]]
        /\ watched' = left
        /\ got' = [s \in Streams |-> got[s] \o cut(s).done]
        /\ tmp' = [s \in Streams |-> cut(s).rest]
        /\ pc' = "failed" \/ pc' = Leave(Ready, left)
        /\ written' = written
    BY DEF Turn
  <1>2. /\ pipes \in [Streams -> Seq(Kinds)] /\ written \in [Streams -> Seq(Kinds)]
        /\ got \in [Streams -> Seq(Kinds)] /\ state \in 0..3 /\ watched \subseteq Streams
        /\ tmp \in [Streams -> {<<>>, <<"tail">>}]
        /\ \A s \in Streams : written[s] = got[s] \o Unread(s)
        /\ \A s \in Streams : pipes[s] # <<>> => s \in watched
        /\ proc = "running" => watched = Streams
    BY DEF TypeOK, Streaming
  <1>3. \A s \in Streams : s \notin Ready => pipes[s] = <<>>
    BY <1>2 DEF Ready
  <1>4. \A s \in Streams : pipes'[s] = <<>>
    BY <1>1, <1>3
  <1>5. ASSUME NEW s \in Streams
        PROVE  /\ cut(s).done \in Seq(Kinds) /\ cut(s).rest \in {<<>>, <<"tail">>}
               /\ Unread(s) = cut(s).done \o cut(s).rest
               /\ state >= 2 => cut(s).rest = <<>>
    <2>1. Chunk[s] = tmp[s] \o pipes[s]
      BY <1>3 DEF Chunk
    <2>2. Chunk[s] \in Seq(Kinds)
      BY <1>2, <2>1, Drained, ConcatProperties
    <2>3. CASE state < 2
      <3>1. cut(s) = Examined(Chunk[s]) /\ Unread(s) = Output(Chunk[s]) /\ ~(state >= 2)
        BY <1>2, <2>1, <2>3 DEF Unread
      <3> HIDE DEF cut
      <3> QED
        BY <2>2, <3>1, ExaminedFacts
    <2>4. CASE state >= 2
      <3>1. ~(state < 2)
        BY <1>2, <2>4
      <3>2. cut(s) = [done |-> Chunk[s], rest |-> <<>>] /\ Unread(s) = Chunk[s]
        BY <2>1, <3>1 DEF Unread
      <3> HIDE DEF cut
      <3>3. Chunk[s] \o <<>> = Chunk[s]
        BY <2>2, ConcatEmptySeq
      <3> QED
        BY <2>2, <3>2, <3>3
    <2>5. state < 2 \/ state >= 2
      BY <1>2
    <2> QED
      BY <2>3, <2>4, <2>5
  <1> HIDE DEF cut
  <1>6. ASSUME NEW s \in Streams
        PROVE  /\ got'[s] \in Seq(Kinds) /\ tmp'[s] \in {<<>>, <<"tail">>}
               /\ written'[s] = got'[s] \o tmp'[s]
               /\ state >= 2 => tmp'[s] = <<>>
    <2>1. got[s] \in Seq(Kinds) /\ cut(s).done \in Seq(Kinds) /\ cut(s).rest \in Seq(Kinds)
      BY <1>2, <1>5, Drained
    <2>2. /\ got[s] \o cut(s).done \in Seq(Kinds)
          /\ (got[s] \o cut(s).done) \o cut(s).rest = got[s] \o (cut(s).done \o cut(s).rest)
      BY <2>1, LinesAssociate
    <2>3. got'[s] = got[s] \o cut(s).done /\ tmp'[s] = cut(s).rest /\ written'[s] = written[s]
      BY <1>1
    <2> QED
      BY <1>2, <1>5, <2>2, <2>3
  <1>7. got' \in [Streams -> Seq(Kinds)] /\ tmp' \in [Streams -> {<<>>, <<"tail">>}]
    BY <1>1, <1>6
  <1>8. /\ proc = "running" => watched' = watched
        /\ pc' # "failed" => proc' = proc
        /\ pc' # "failed" /\ state < 2 => state' # 2 /\ (state' = 3 <=> sudo = "granted")
        /\ state' \in 0..3
    BY TurnFacts
  <1>9. CASE pc' = "poll"
    <2>1. \A s \in Streams : written'[s] = got'[s] \o Unread(s)'
      <3> TAKE s \in Streams
      <3>1. Unread(s)' = tmp'[s]
        BY <1>4, <1>6, Drained DEF Unread
      <3> QED
        BY <1>6, <3>1
    <2>2. Streaming'
      BY <1>2, <1>4, <1>7, <1>8, <1>9, <2>1 DEF Streaming
    <2> QED
      BY <1>9, <2>2 DEF Accounted
  <1>10. CASE pc' \in {"collect", "wait"}
    <2>1. left = {} \/ Ready = {}
      BY <1>1, <1>10 DEF Leave
    <2>2. state < 2 => left = {}
      BY <1>1, <1>2, <2>1
    <2>3. state < 2 => state' < 2
      <3> SUFFICES ASSUME state < 2, sudo = "granted" PROVE FALSE
        BY <1>8, <1>10
      <3>1. "success" \in ToSet(pipes["out"]) /\ "out" \in watched
        BY <1>1 DEF Talk, Live
      <3>2. "out" \in left
        BY <3>1, InEmpty
      <3> QED
        BY <2>2, <3>2
    <2>4. ASSUME NEW s \in Streams PROVE Whole(s)'
      <3>1. CASE tmp'[s] = <<>>
        BY <1>6, <3>1, ConcatEmptySeq DEF Whole
      <3>2. CASE tmp'[s] # <<>>
        <4>1. tmp'[s] = <<"tail">> /\ state < 2
          BY <1>2, <1>6, <3>2 DEF Streams
        <4>2. Unfinished(written'[s]) /\ Front(written'[s]) = got'[s]
          BY <1>6, <4>1, EndsInTail
        <4> QED
          BY <2>3, <4>1, <4>2 DEF Whole
      <3> QED
        BY <3>1, <3>2
    <2>5. pc' = "wait" => proc' # "running"
      <3> SUFFICES ASSUME pc' = "wait", proc = "running" PROVE FALSE
        BY <1>8
      <3>1. left = {}
        BY <1>1 DEF Leave
      <3> QED
        BY <1>1, <1>2, <1>8, <3>1 DEF Streams
    <2> QED
      BY <1>10, <2>4, <2>5 DEF Accounted, Live
  <1> QED
    BY <1>1, <1>9, <1>10 DEF Accounted, Leave, Live

\* Where nobody reads and the process has ended, the account stays as it is.
LEMMA AccountsStay ==
    ASSUME Accounted, pc' \notin Live,
           \/ pc' \notin {"wait", "collect", "returned"}
           \/ /\ pc \in {"wait", "collect", "returned"} /\ pc' # "wait"
              /\ UNCHANGED <<state, got, written>>
    PROVE  Accounted'
  <1>1. CASE pc' \notin {"wait", "collect", "returned"}
    BY <1>1 DEF Accounted
  <1>2. CASE /\ pc \in {"wait", "collect", "returned"} /\ pc' # "wait"
             /\ UNCHANGED <<state, got, written>>
    BY <1>2 DEF Accounted, Whole
  <1> QED
    BY <1>1, <1>2

\* What runs behind ssh only adds to what is to be read.
LEMMA RemoteAccounts ==
    ASSUME TypeOK, Places, Escalated, Accounted, Escalation \/ Work \/ Exit
    PROVE  Accounted'
  <1>1. /\ proc = "running" /\ pc \in Live /\ pc' = pc /\ Streaming /\ watched = Streams
        /\ UNCHANGED <<state, tmp, got, watched>>
    BY DEF Escalation, Work, Exit, Places, Accounted, Streaming, loop, Live
  <1>2. ASSUME NEW s \in Streams, NEW line \in Kinds, Say(s, line),
               state >= 2 => IsOutput(line)
        PROVE  Streaming'
    BY <1>1, <1>2, SaidIsUnread
  <1>3. ASSUME UNCHANGED <<pipes, written>> PROVE Streaming'
    BY <1>1, <1>3 DEF Streaming, Unread
  <1>4. /\ \A line \in {"text", "tail", "broken", "config"} : line \in Kinds /\ IsOutput(line)
        /\ {"prompt", "success", "error", "nopass"} \subseteq Kinds
        /\ "out" \in Streams /\ "err" \in Streams
    BY DEF Kinds, IsOutput, Streams
  <1>5. ASSUME Escalation PROVE Streaming'
    <2>1. /\ ~(state >= 2)
          /\ \E s \in Streams, line \in {"prompt", "success", "error", "nopass"} : Say(s, line)
      BY <1>1, <1>4, <1>5 DEF Escalation, Ask, Judge, Grant, Deny, Escalated
    <2> QED
      BY <1>2, <1>4, <2>1
  <1>6. ASSUME Work PROVE Streaming'
    <2>1. \/ UNCHANGED <<pipes, written>>
          \/ \E s \in Streams, line \in {"text", "tail", "config"} : Say(s, line)
      BY <1>4, <1>6 DEF Work
    <2> QED
      BY <1>2, <1>3, <1>4, <2>1
  <1>7. ASSUME Exit PROVE Streaming'
    <2>1. UNCHANGED <<pipes, written>> \/ \E line \in {"broken", "config"} : Say("err", line)
      BY <1>7 DEF Exit
    <2> QED
      BY <1>2, <1>3, <1>4, <2>1
  <1>8. Streaming'
    BY <1>5, <1>6, <1>7
  <1> QED
    BY <1>1, <1>8 DEF Accounted, Live

\* Every step keeps the account.
LEMMA AccountedStep ==
    ASSUME IInv, Accounted, [Next]_vars
    PROVE  Accounted'
  <1> USE DEF Live
  <1>1. TypeOK /\ Places /\ Escalated /\ Talk
    BY DEF IInv
  <1>2. CASE Popen
    <2>1. CASE pc' = "failed"
      BY <2>1, AccountsStay
    <2>2. CASE pc' # "failed"
      <3>1. /\ pc' = "poll" /\ tmp' = Nothing /\ got' = Nothing /\ pipes' = Nothing
            /\ written' = Nothing /\ watched' = Streams
        BY <1>2, <2>2 DEF Popen
      <3>2. /\ <<>> \in Seq(Kinds) /\ Nothing \in [Streams -> Seq(Kinds)]
            /\ Nothing \in [Streams -> {<<>>, <<"tail">>}] /\ \A s \in Streams : Nothing[s] = <<>>
        BY NothingSaid DEF Nothing
      <3>3. <<>> \o <<>> = <<>> /\ Output(<<>>) = <<>>
        BY <3>2, ConcatEmptySeq, OutputNone
      <3>4. ASSUME NEW s \in Streams PROVE written'[s] = got'[s] \o Unread(s)'
        BY <3>1, <3>2, <3>3 DEF Unread
      <3>5. Streaming'
        BY <3>1, <3>2, <3>4 DEF Streaming
      <3> QED
        BY <3>1, <3>5 DEF Accounted
    <2> QED
      BY <2>1, <2>2
  <1>3. CASE Poll
    <2>1. pc = "poll" /\ pc' = "select" /\ UNCHANGED <<state, tmp, got, watched, pipes, written, proc>>
      BY <1>3 DEF Poll, remote
    <2>2. Streaming'
      BY <2>1 DEF Accounted, Streaming, Unread
    <2> QED
      BY <2>1, <2>2 DEF Accounted
  <1>4. CASE Turn
    BY <1>1, <1>4, TurnAccounts DEF Turn, Accounted
  <1>5. CASE Timeout
    <2>1. CASE pc' = "failed"
      BY <2>1, AccountsStay
    <2>2. CASE pc' # "failed"
      <3>1. /\ pc = "select" /\ pc' = "collect" /\ Ready = {} /\ state < 2
            /\ UNCHANGED <<state, got, written>>
        BY <1>5, <2>2 DEF Timeout, loop
      <3>2. Streaming
        BY <3>1 DEF Accounted
      <3>3. ASSUME NEW s \in Streams PROVE Whole(s)
        <4>1. pipes[s] = <<>>
          BY <3>1, <3>2 DEF Streaming, Ready
        <4>2. /\ written[s] = got[s] \o Unread(s) /\ Unread(s) = Output(tmp[s] \o <<>>)
              /\ tmp[s] \in {<<>>, <<"tail">>} /\ got[s] \in Seq(Kinds)
          BY <3>1, <3>2, <4>1 DEF Streaming, Unread
        <4>3. written[s] = got[s] \o tmp[s]
          BY <4>2, Drained
        <4> QED
          BY <3>1, <4>2, <4>3, ConcatEmptySeq, EndsInTail DEF Whole
      <3> QED
        BY <3>1, <3>3 DEF Accounted, Whole
    <2> QED
      BY <2>1, <2>2
  <1>6. CASE Wait \/ Collect
    <2>1. /\ pc \in {"wait", "collect"} /\ pc' \in {"collect", "popen", "failed", "returned"}
          /\ UNCHANGED <<state, got, written>>
      BY <1>6 DEF Wait, Collect, loop, remote
    <2> QED
      BY <2>1, AccountsStay
  <1>7. CASE SetOptions \/ Operate \/ Retry \/ Return \/ Rest
    <2>1. pc' \in {"popen", "ended", "idle"}
      BY <1>7 DEF SetOptions, Operate, ExecCommand, PutFile, FetchFile, Call, Retry, Return, Rest
    <2> QED
      BY <2>1, AccountsStay
  <1>8. CASE Escalation \/ Work \/ Exit
    BY <1>1, <1>8, RemoteAccounts
  <1>9. CASE UNCHANGED vars
    BY <1>9 DEF vars, Accounted, Streaming, Unread, Whole
  <1> QED
    BY <1>2, <1>3, <1>4, <1>5, <1>6, <1>7, <1>8, <1>9 DEF Next, Program

\* A result comes with all the output there was, in its order: nothing is left in a
\* stream that is polled too late or that never ends, for any output and any number
\* of retries.
THEOREM Completeness == Spec => []NothingLost
  <1>1. Init => Accounted
    BY DEF Init, Accounted, Live
  <1>2. IInv /\ Accounted /\ [Next]_vars => Accounted'
    BY AccountedStep
  <1>3. Accounted => NothingLost
    BY DEF Accounted, NothingLost, Whole
  <1> QED
    BY <1>1, <1>2, <1>3, Inductive, PTL DEF Spec

-----------------------------------------------------------------------------
(* The filters of Universal Configuration.  The two loops of the sort: the  *)
(* groups in a row, and the entries that fill a list.                      *)

Placing == INSTANCE FoldProofs WITH Op <- Place
Filling == INSTANCE FoldProofs WITH Op <- Fill

-----------------------------------------------------------------------------
(* Sorting.                                                                *)

\* A set of pairs of places that can be sorted by.
Weak(order, places) ==
    \A a, b, c \in places :
        /\ <<a, a>> \notin order
        /\ <<a, b>> \in order /\ <<b, c>> \in order => <<a, c>> \in order
        /\ <<a, b>> \in order => <<a, c>> \in order \/ <<c, b>> \in order
\* What it does not tell apart stays as it is.
Precedes(order, a, b) == <<a, b>> \in order \/ (a < b /\ <<b, a>> \notin order)
UpTo(places, order, i) == {j \in places : <<j, i>> \in order \/ (j <= i /\ <<i, j>> \notin order)}
RankOf(places, order, i) == Cardinality(UpTo(places, order, i))

LEMMA PrecedesIs ==
    ASSUME NEW n \in Nat, NEW places \in SUBSET (1..n), NEW order, Weak(order, places)
    PROVE  /\ \A a \in places : ~Precedes(order, a, a)
           /\ \A a, b \in places : a = b \/ Precedes(order, a, b) \/ Precedes(order, b, a)
           /\ \A a, b, c \in places : Precedes(order, a, b) /\ Precedes(order, b, c) => Precedes(order, a, c)
  <1>1. \A a, b, c \in places :
            /\ <<a, a>> \notin order
            /\ <<a, b>> \in order /\ <<b, c>> \in order => <<a, c>> \in order
            /\ <<a, b>> \in order => <<a, c>> \in order \/ <<c, b>> \in order
    BY DEF Weak
  <1>2. \A a \in places : a \in Int
    OBVIOUS
  <1>3. \A a \in places : ~Precedes(order, a, a)
    BY <1>1, <1>2 DEF Precedes
  <1>4. \A a, b \in places : a = b \/ Precedes(order, a, b) \/ Precedes(order, b, a)
    <2> TAKE a, b \in places
    <2>1. a \in Int /\ b \in Int
      BY <1>2
    <2>2. a = b \/ a < b \/ b < a
      BY <2>1
    <2> QED
      BY <2>2 DEF Precedes
  <1>5. ASSUME NEW a \in places, NEW b \in places, NEW c \in places,
               Precedes(order, a, b), Precedes(order, b, c)
        PROVE  Precedes(order, a, c)
    <2>1. a \in Int /\ b \in Int /\ c \in Int
      BY <1>2
    <2>2. CASE <<a, b>> \in order
      BY <1>1, <1>5, <2>1, <2>2 DEF Precedes
    <2>3. CASE <<b, c>> \in order
      BY <1>1, <1>5, <2>1, <2>3 DEF Precedes
    <2>4. CASE <<a, b>> \notin order /\ <<b, c>> \notin order
      <3>1. a < b /\ b < c /\ <<b, a>> \notin order /\ <<c, b>> \notin order
        BY <1>5, <2>4 DEF Precedes
      <3>2. <<c, a>> \notin order
        BY <1>1, <3>1
      <3> QED
        BY <2>1, <3>1, <3>2 DEF Precedes
    <2> QED
      BY <2>2, <2>3, <2>4
  <1> QED
    BY <1>3, <1>4, <1>5

LEMMA RankIs ==
    ASSUME NEW n \in Nat, NEW places \in SUBSET (1..n), NEW order, Weak(order, places)
    PROVE  /\ Cardinality(places) \in Nat
           /\ \A i \in places : RankOf(places, order, i) \in 1..Cardinality(places)
           /\ \A i, j \in places :
                Precedes(order, i, j) <=> RankOf(places, order, i) < RankOf(places, order, j)
           /\ \A k \in 1..Cardinality(places) : \E i \in places : RankOf(places, order, i) = k
  <1> DEFINE R(i) == RankOf(places, order, i)
             U(i) == UpTo(places, order, i)
  <1>1. IsFiniteSet(places) /\ Cardinality(places) \in Nat
    <2>1. IsFiniteSet(1..n)
      BY FS_Interval
    <2>2. IsFiniteSet(places)
      BY <2>1, FS_Subset
    <2> QED
      BY <2>2, FS_CardinalityType
  <1>2. ASSUME NEW i \in places
        PROVE  /\ U(i) \in SUBSET places /\ i \in U(i) /\ IsFiniteSet(U(i))
               /\ R(i) = Cardinality(U(i)) /\ R(i) \in 1..Cardinality(places)
               /\ \A j \in places : j \in U(i) <=> (j = i \/ Precedes(order, j, i))
    <2>1. <<i, i>> \notin order
      BY DEF Weak
    <2>2. i \in Int /\ \A j \in places : j \in Int
      OBVIOUS
    <2>3. U(i) \in SUBSET places /\ i \in U(i)
      BY <2>1, <2>2 DEF UpTo
    <2>4. IsFiniteSet(U(i)) /\ Cardinality(U(i)) \in Nat /\ Cardinality(U(i)) <= Cardinality(places)
      BY <1>1, <2>3, FS_Subset, FS_CardinalityType
    <2>5. Cardinality(U(i)) # 0
      BY <2>3, <2>4, FS_EmptySet
    <2>6. \A j \in places : j \in U(i) <=> (j = i \/ Precedes(order, j, i))
      <3> TAKE j \in places
      <3>1. <<j, i>> \in order => <<i, j>> \notin order
        BY <2>1 DEF Weak
      <3> QED
        BY <2>1, <2>2, <3>1 DEF UpTo, Precedes
    <2> QED
      BY <1>1, <2>3, <2>4, <2>5, <2>6 DEF RankOf
  <1>3. ASSUME NEW i \in places, NEW j \in places, Precedes(order, i, j)
        PROVE  R(i) < R(j)
    <2>1. U(i) \subseteq U(j)
      BY <1>2, <1>3, PrecedesIs
    <2>2. j \notin U(i) /\ j \in U(j)
      BY <1>2, <1>3, PrecedesIs
    <2>3. IsFiniteSet(U(j)) /\ U(i) \in SUBSET U(j) /\ U(i) # U(j)
      BY <1>2, <2>1, <2>2
    <2>4. Cardinality(U(i)) <= Cardinality(U(j)) /\ Cardinality(U(i)) # Cardinality(U(j))
      BY <2>3, FS_Subset
    <2>5. R(i) = Cardinality(U(i)) /\ R(j) = Cardinality(U(j)) /\ R(i) \in Int /\ R(j) \in Int
      BY <1>2
    <2> HIDE DEF R, U
    <2> QED
      BY <2>4, <2>5
  <1> HIDE DEF U
  <1>4. \A i, j \in places : Precedes(order, i, j) <=> R(i) < R(j)
    <2> TAKE i, j \in places
    <2>1. R(i) \in Int /\ R(j) \in Int
      BY <1>2
    <2>2. i = j \/ Precedes(order, i, j) \/ Precedes(order, j, i)
      BY PrecedesIs
    <2>3. ~Precedes(order, i, i)
      BY PrecedesIs
    <2> HIDE DEF R
    <2> QED
      BY <1>3, <2>1, <2>2, <2>3
  <1>5. \A k \in 1..Cardinality(places) : \E i \in places : R(i) = k
    <2> DEFINE T == 1..Cardinality(places)
               f == [i \in places |-> R(i)]
    <2>1. IsFiniteSet(T) /\ Cardinality(T) = Cardinality(places)
      BY <1>1, FS_Interval
    <2>2. f \in [places -> T]
      BY <1>2
    <2>3. \A i, j \in places : f[i] = f[j] => i = j
      <3> SUFFICES ASSUME NEW i \in places, NEW j \in places, R(i) = R(j) PROVE i = j
        OBVIOUS
      <3>1. R(i) \in Int /\ R(j) \in Int
        BY <1>2
      <3> HIDE DEF R
      <3> QED
        BY <1>4, <3>1, PrecedesIs
    <2>4. f \in Injection(places, T)
      BY <2>2, <2>3 DEF Injection, IsInjective
    <2>5. f \in Surjection(places, T)
      BY <2>1, <2>4, FS_Injection
    <2> QED
      BY <2>5 DEF Surjection
  <1> QED
    BY <1>1, <1>2, <1>4, <1>5

\* p is where each place goes.
Sorts(q, list, places, order, at) ==
    /\ at \in [1..Cardinality(places) -> places]
    /\ Len(q) = Cardinality(places) /\ DOMAIN q = 1..Cardinality(places)
    /\ q \in [1..Cardinality(places) -> {list[i] : i \in places}]
    /\ \A k \in DOMAIN q : q[k] = list[at[k]]
    /\ \A i \in places : \E k \in DOMAIN q : at[k] = i
    /\ \A k, m \in DOMAIN q : k < m <=> Precedes(order, at[k], at[m])

LEMMA OrderedIs ==
    ASSUME NEW n \in Nat, NEW places \in SUBSET (1..n), NEW order, Weak(order, places), NEW list
    PROVE  \E at : Sorts(Ordered(list, places, order), list, places, order, at)
  <1> DEFINE q == Ordered(list, places, order)
             R(i) == RankOf(places, order, i)
             at == [k \in 1..Cardinality(places) |-> CHOOSE i \in places : R(i) = k]
  <1>1. Cardinality(places) \in Nat
    BY RankIs
  <1>2. q = [k \in 1..Cardinality(places) |-> list[CHOOSE i \in places : R(i) = k]]
    BY Zenon DEF Ordered, RankOf, UpTo
  <1>3. \A k \in 1..Cardinality(places) : at[k] \in places /\ R(at[k]) = k
    <2> TAKE k \in 1..Cardinality(places)
    <2>1. \E i \in places : R(i) = k
      BY RankIs
    <2> HIDE DEF R
    <2> QED
      BY <2>1
  <1> HIDE DEF R
  <1>4. DOMAIN q = 1..Cardinality(places) /\ Len(q) = Cardinality(places)
    BY <1>1, <1>2
  <1>5. \A k \in DOMAIN q : q[k] = list[at[k]]
    BY <1>2, <1>4
  <1>12. q \in [1..Cardinality(places) -> {list[i] : i \in places}]
    <2> DEFINE Goes(k) == CHOOSE i \in places : R(i) = k
    <2>1. q = [k \in 1..Cardinality(places) |-> list[Goes(k)]]
      BY <1>2, Zenon
    <2>2. \A k \in 1..Cardinality(places) : Goes(k) \in places
      BY <1>3
    <2> HIDE DEF Goes
    <2> QED
      BY <2>1, <2>2
  <1>6. \A i \in places : R(i) \in 1..Cardinality(places)
    BY RankIs DEF R
  <1>7. \A i, j \in places : Precedes(order, i, j) <=> R(i) < R(j)
    BY RankIs DEF R
  <1>8. \A i, j \in places : R(i) = R(j) => i = j
    BY <1>6, <1>7, PrecedesIs
  <1> HIDE DEF q
  <1>9. \A i \in places : \E k \in DOMAIN q : at[k] = i
    <2> TAKE i \in places
    <2>1. R(i) \in DOMAIN q /\ at[R(i)] \in places /\ R(at[R(i)]) = R(i)
      BY <1>3, <1>4, <1>6
    <2> QED
      BY <1>8, <2>1
  <1>10. at \in [1..Cardinality(places) -> places]
    BY <1>3
  <1> HIDE DEF at
  <1>11. \A k, m \in DOMAIN q : k < m <=> Precedes(order, at[k], at[m])
    BY <1>3, <1>4, <1>7
  <1> QED
    BY <1>4, <1>5, <1>9, <1>10, <1>11, <1>12 DEF Sorts, q

-----------------------------------------------------------------------------
(* Rows of items, none of which is there twice.                            *)

NoTwice(s) == \A i, j \in DOMAIN s : s[i] = s[j] => i = j
Comes(s, x, y) == \E i, j \in DOMAIN s : i < j /\ s[i] = x /\ s[j] = y

LEMMA InRow == \A s, x : x \in ToSet(s) <=> \E i \in DOMAIN s : s[i] = x
  BY DEF ToSet

LEMMA RowIs ==
    ASSUME NEW S, NEW s \in Seq(S)
    PROVE  /\ Len(s) \in Nat /\ DOMAIN s = 1..Len(s) /\ s \in Seq(ToSet(s))
           /\ ToSet(s) \subseteq S
           /\ \A x, y : Comes(s, x, y) => x \in ToSet(s) /\ y \in ToSet(s)
  <1>1. Len(s) \in Nat /\ DOMAIN s = 1..Len(s)
    OBVIOUS
  <1>2. \A i \in 1..Len(s) : s[i] \in S /\ s[i] \in ToSet(s)
    BY <1>1 DEF ToSet
  <1>3. s = [i \in 1..Len(s) |-> s[i]]
    BY <1>1
  <1>4. s \in Seq(ToSet(s))
    BY <1>1, <1>2, <1>3
  <1>5. ToSet(s) \subseteq S
    BY <1>1, <1>2, InRow
  <1>6. \A x, y : Comes(s, x, y) => x \in ToSet(s) /\ y \in ToSet(s)
    BY InRow DEF Comes
  <1> QED
    BY <1>1, <1>4, <1>5, <1>6

LEMMA ComesIs ==
    ASSUME NEW S, NEW s \in Seq(S), NoTwice(s)
    PROVE  /\ \A i, j \in DOMAIN s : Comes(s, s[i], s[j]) <=> i < j
           /\ \A x \in ToSet(s) : ~Comes(s, x, x)
           /\ \A x, y \in ToSet(s) : x = y \/ Comes(s, x, y) \/ Comes(s, y, x)
           /\ \A x, y, z : Comes(s, x, y) /\ Comes(s, y, z) => Comes(s, x, z)
  <1>1. \A i \in DOMAIN s : i \in Int
    OBVIOUS
  <1>2. \A i, j \in DOMAIN s : Comes(s, s[i], s[j]) <=> i < j
    BY Zenon DEF Comes, NoTwice
  <1>3. \A x \in ToSet(s) : ~Comes(s, x, x)
    BY <1>1, <1>2, InRow
  <1>4. \A x, y \in ToSet(s) : x = y \/ Comes(s, x, y) \/ Comes(s, y, x)
    <2> TAKE x, y \in ToSet(s)
    <2>1. PICK i \in DOMAIN s : s[i] = x
      BY InRow
    <2>2. PICK j \in DOMAIN s : s[j] = y
      BY InRow
    <2>3. i = j \/ i < j \/ j < i
      BY <1>1
    <2> QED
      BY <1>2, <2>1, <2>2, <2>3
  <1>5. \A x, y, z : Comes(s, x, y) /\ Comes(s, y, z) => Comes(s, x, z)
    <2> SUFFICES ASSUME NEW x, NEW y, NEW z, Comes(s, x, y), Comes(s, y, z) PROVE Comes(s, x, z)
      OBVIOUS
    <2>1. PICK i, j \in DOMAIN s : i < j /\ s[i] = x /\ s[j] = y
      BY Zenon DEF Comes
    <2>2. PICK k, m \in DOMAIN s : k < m /\ s[k] = y /\ s[m] = z
      BY Zenon DEF Comes
    <2>3. j = k
      BY <2>1, <2>2, Zenon DEF NoTwice
    <2>4. i < m
      BY <1>1, <2>1, <2>2, <2>3
    <2> QED
      BY <2>1, <2>2, <2>4, Zenon DEF Comes
  <1> QED
    BY <1>2, <1>3, <1>4, <1>5, Zenon

\* A row and another behind it.
LEMMA Joining ==
    ASSUME NEW S, NEW s \in Seq(S), NEW t \in Seq(S), NoTwice(s), NoTwice(t),
           \A x \in ToSet(s) : x \notin ToSet(t),
           NEW w, w = s \o t
    PROVE  /\ w \in Seq(S) /\ NoTwice(w)
           /\ \A x : x \in ToSet(w) <=> x \in ToSet(s) \/ x \in ToSet(t)
           /\ \A x, y : Comes(w, x, y) <=> \/ Comes(s, x, y) \/ Comes(t, x, y)
                                           \/ x \in ToSet(s) /\ y \in ToSet(t)
  <1> DEFINE m == Len(s)
             n == Len(t)
  <1>1. /\ w \in Seq(S) /\ m \in Nat /\ n \in Nat /\ Len(w) = m + n
        /\ DOMAIN s = 1..m /\ DOMAIN t = 1..n /\ DOMAIN w = 1..(m + n)
        /\ \A i \in 1..(m + n) : w[i] = IF i <= m THEN s[i] ELSE t[i - m]
    BY ConcatProperties
  <1> HIDE DEF m, n
  <1>2. \A i \in 1..m : i \in DOMAIN w /\ w[i] = s[i]
    BY <1>1
  <1>3. \A i \in 1..n : i + m \in DOMAIN w /\ w[i + m] = t[i]
    <2> TAKE i \in 1..n
    <2>1. i + m \in 1..(m + n) /\ ~(i + m <= m) /\ i + m - m = i
      BY <1>1
    <2> QED
      BY <1>1, <2>1
  <1>4. \A i \in DOMAIN w : i \in 1..m \/ (i - m \in 1..n /\ i = i - m + m /\ i > m /\ w[i] = t[i - m])
    BY <1>1
  <1>5. \A i, j \in DOMAIN w : w[i] = w[j] => i = j
    <2> SUFFICES ASSUME NEW i \in DOMAIN w, NEW j \in DOMAIN w, w[i] = w[j] PROVE i = j
      OBVIOUS
    <2>1. \A k \in 1..m : w[k] \in ToSet(s)
      BY <1>1, <1>2, InRow
    <2>2. \A k \in DOMAIN w : k \notin 1..m => w[k] \in ToSet(t)
      BY <1>1, <1>4, InRow
    <2>3. CASE i \in 1..m
      <3>1. j \in 1..m
        BY <2>1, <2>2, <2>3
      <3>2. s[i] = s[j]
        BY <1>2, <2>3, <3>1
      <3> QED
        BY <1>1, <2>3, <3>1, <3>2, Zenon DEF NoTwice
    <2>4. CASE i \notin 1..m
      <3>1. j \notin 1..m
        BY <2>1, <2>2, <2>4
      <3>2. /\ i - m \in 1..n /\ j - m \in 1..n /\ t[i - m] = t[j - m]
        BY <1>4, <2>4, <3>1
      <3>3. i - m = j - m
        BY <1>1, <3>2, Zenon DEF NoTwice
      <3> QED
        BY <1>1, <3>3
    <2> QED
      BY <2>3, <2>4
  <1>6. \A x : x \in ToSet(w) <=> x \in ToSet(s) \/ x \in ToSet(t)
    <2> TAKE x
    <2>1. ASSUME x \in ToSet(w) PROVE x \in ToSet(s) \/ x \in ToSet(t)
      <3>1. PICK i \in DOMAIN w : w[i] = x
        BY <2>1, InRow
      <3> QED
        BY <1>1, <1>2, <1>4, <3>1, InRow
    <2>2. ASSUME x \in ToSet(s) PROVE x \in ToSet(w)
      <3>1. PICK i \in DOMAIN s : s[i] = x
        BY <2>2, InRow
      <3>2. i \in DOMAIN w /\ w[i] = x
        BY <1>1, <1>2, <3>1
      <3> QED
        BY <3>2, InRow
    <2>3. ASSUME x \in ToSet(t) PROVE x \in ToSet(w)
      <3>1. PICK i \in DOMAIN t : t[i] = x
        BY <2>3, InRow
      <3>2. i + m \in DOMAIN w /\ w[i + m] = x
        BY <1>1, <1>3, <3>1
      <3> QED
        BY <3>2, InRow
    <2> QED
      BY <2>1, <2>2, <2>3
  <1>7. ASSUME NEW x, NEW y, Comes(w, x, y)
        PROVE  Comes(s, x, y) \/ Comes(t, x, y) \/ (x \in ToSet(s) /\ y \in ToSet(t))
    <2>1. PICK i, j \in DOMAIN w : i < j /\ w[i] = x /\ w[j] = y
      BY <1>7, Zenon DEF Comes
    <2>2. CASE j \in 1..m
      <3>1. i \in 1..m
        BY <1>1, <2>1, <2>2
      <3>2. i \in DOMAIN s /\ j \in DOMAIN s /\ s[i] = x /\ s[j] = y
        BY <1>1, <1>2, <2>1, <2>2, <3>1
      <3> QED
        BY <2>1, <3>2, Zenon DEF Comes
    <2>3. CASE j \notin 1..m /\ i \in 1..m
      BY <1>1, <1>2, <1>4, <2>1, <2>3, InRow
    <2>4. CASE j \notin 1..m /\ i \notin 1..m
      <3>1. i - m \in DOMAIN t /\ j - m \in DOMAIN t /\ t[i - m] = x /\ t[j - m] = y
        BY <1>1, <1>4, <2>1, <2>4
      <3>2. i - m < j - m
        BY <1>1, <2>1
      <3> QED
        BY <3>1, <3>2, Zenon DEF Comes
    <2> QED
      BY <2>2, <2>3, <2>4
  <1>8. ASSUME NEW x, NEW y, Comes(s, x, y) PROVE Comes(w, x, y)
    <2>1. PICK i, j \in DOMAIN s : i < j /\ s[i] = x /\ s[j] = y
      BY <1>8, Zenon DEF Comes
    <2>2. i \in DOMAIN w /\ j \in DOMAIN w /\ w[i] = x /\ w[j] = y
      BY <1>1, <1>2, <2>1
    <2> QED
      BY <2>1, <2>2, Zenon DEF Comes
  <1>9. ASSUME NEW x, NEW y, Comes(t, x, y) PROVE Comes(w, x, y)
    <2>1. PICK i, j \in DOMAIN t : i < j /\ t[i] = x /\ t[j] = y
      BY <1>9, Zenon DEF Comes
    <2>2. i + m \in DOMAIN w /\ j + m \in DOMAIN w /\ w[i + m] = x /\ w[j + m] = y
      BY <1>1, <1>3, <2>1
    <2>3. i + m < j + m
      BY <1>1, <2>1
    <2> QED
      BY <2>2, <2>3, Zenon DEF Comes
  <1>10. ASSUME NEW x \in ToSet(s), NEW y \in ToSet(t) PROVE Comes(w, x, y)
    <2>1. PICK i \in DOMAIN s : s[i] = x
      BY InRow
    <2>2. PICK j \in DOMAIN t : t[j] = y
      BY InRow
    <2>3. i \in DOMAIN w /\ j + m \in DOMAIN w /\ w[i] = x /\ w[j + m] = y
      BY <1>1, <1>2, <1>3, <2>1, <2>2
    <2>4. i < j + m
      BY <1>1
    <2> QED
      BY <2>3, <2>4, Zenon DEF Comes
  <1> QED
    BY <1>1, <1>5, <1>6, <1>7, <1>8, <1>9, <1>10, Zenon DEF NoTwice

LEMMA SingleRow ==
    ASSUME NEW S, NEW x \in S
    PROVE  /\ <<x>> \in Seq(S) /\ NoTwice(<<x>>)
           /\ \A y : y \in ToSet(<<x>>) <=> y = x
           /\ \A y, z : ~Comes(<<x>>, y, z)
  <1>1. <<x>> \in Seq(S) /\ DOMAIN <<x>> = 1..1 /\ <<x>>[1] = x
    OBVIOUS
  <1>2. \A i \in DOMAIN <<x>> : i = 1
    BY <1>1
  <1>3. NoTwice(<<x>>)
    BY <1>2 DEF NoTwice
  <1>4. \A y : y \in ToSet(<<x>>) <=> y = x
    BY <1>1, <1>2, InRow
  <1>5. \A y, z : ~Comes(<<x>>, y, z)
    BY <1>2 DEF Comes
  <1> QED
    BY <1>1, <1>3, <1>4, <1>5

LEMMA PartOfRow ==
    ASSUME NEW S, NEW s \in Seq(S), NoTwice(s), NEW a \in 1..(Len(s) + 1), NEW b \in 0..Len(s),
           NEW q, q = SubSeq(s, a, b)
    PROVE  /\ q \in Seq(S) /\ NoTwice(q)
           /\ \A x : x \in ToSet(q) <=> \E i \in a..b : s[i] = x
           /\ \A x, y : Comes(q, x, y) => Comes(s, x, y)
  <1> DEFINE n == IF a <= b THEN b - a + 1 ELSE 0
  <1>0. Len(s) \in Nat /\ DOMAIN s = 1..Len(s) /\ a \in Int /\ b \in Int
    OBVIOUS
  <1>1. \A i \in a..b : i \in DOMAIN s /\ s[i] \in S
    BY <1>0
  <1>2. q \in Seq(S) /\ Len(q) = n /\ \A i \in 1..(b - a + 1) : q[i] = s[a + i - 1]
    <2>1. \A i \in a..b : s[i] \in S
      BY <1>1
    <2> QED
      BY <1>0, <2>1, SubSeqProperties
  <1>3. DOMAIN q = 1..n /\ n \in Nat
    BY <1>0, <1>2
  <1>4. \A i \in DOMAIN q : i \in Int /\ a + i - 1 \in a..b /\ q[i] = s[a + i - 1]
    BY <1>0, <1>2, <1>3
  <1>5. \A i \in a..b : i - a + 1 \in DOMAIN q /\ q[i - a + 1] = s[i]
    <2> TAKE i \in a..b
    <2>1. i - a + 1 \in 1..(b - a + 1) /\ i - a + 1 \in 1..n /\ a + (i - a + 1) - 1 = i
      BY <1>0
    <2> QED
      BY <1>2, <1>3, <2>1
  <1> HIDE DEF n
  <1>6. NoTwice(q)
    <2> SUFFICES ASSUME NEW i \in DOMAIN q, NEW j \in DOMAIN q, q[i] = q[j] PROVE i = j
      BY DEF NoTwice
    <2>1. s[a + i - 1] = s[a + j - 1] /\ a + i - 1 \in DOMAIN s /\ a + j - 1 \in DOMAIN s
      BY <1>1, <1>4
    <2>2. a + i - 1 = a + j - 1
      BY <2>1, Zenon DEF NoTwice
    <2> QED
      BY <1>0, <1>4, <2>2
  <1>7. \A x : x \in ToSet(q) <=> \E i \in a..b : s[i] = x
    <2> TAKE x
    <2>1. ASSUME x \in ToSet(q) PROVE \E i \in a..b : s[i] = x
      <3>1. PICK i \in DOMAIN q : q[i] = x
        BY <2>1, InRow
      <3> QED
        BY <1>4, <3>1
    <2>2. ASSUME NEW i \in a..b, s[i] = x PROVE x \in ToSet(q)
      <3>1. i - a + 1 \in DOMAIN q /\ q[i - a + 1] = x
        BY <1>5, <2>2
      <3> QED
        BY <3>1, InRow
    <2> QED
      BY <2>1, <2>2
  <1>8. ASSUME NEW x, NEW y, Comes(q, x, y) PROVE Comes(s, x, y)
    <2>1. PICK i, j \in DOMAIN q : i < j /\ q[i] = x /\ q[j] = y
      BY <1>8, Zenon DEF Comes
    <2>2. a + i - 1 \in DOMAIN s /\ a + j - 1 \in DOMAIN s /\ s[a + i - 1] = x /\ s[a + j - 1] = y
      BY <1>1, <1>4, <2>1
    <2>3. a + i - 1 < a + j - 1
      BY <1>0, <1>4, <2>1
    <2> QED
      BY <2>2, <2>3, Zenon DEF Comes
  <1> QED
    BY <1>2, <1>6, <1>7, <1>8

\* The items at some places in an order.
LEMMA OrderedRow ==
    ASSUME NEW S, NEW list \in Seq(S), NoTwice(list), NEW places \in SUBSET DOMAIN list,
           NEW order, Weak(order, places), NEW q, q = Ordered(list, places, order)
    PROVE  /\ q \in Seq(S) /\ NoTwice(q)
           /\ \A x : x \in ToSet(q) <=> \E i \in places : list[i] = x
           /\ \A a, b \in places : Comes(q, list[a], list[b]) <=> Precedes(order, a, b)
  <1>1. Len(list) \in Nat /\ DOMAIN list = 1..Len(list) /\ \A i \in DOMAIN list : list[i] \in S
    OBVIOUS
  <1>2. places \in SUBSET (1..Len(list))
    BY <1>1
  <1>3. PICK at : Sorts(q, list, places, order, at)
    BY <1>1, <1>2, OrderedIs
  <1>4. Cardinality(places) \in Nat
    BY <1>1, <1>2, RankIs
  <1>5. /\ DOMAIN q = 1..Cardinality(places) /\ Len(q) = Cardinality(places)
        /\ \A k \in DOMAIN q : at[k] \in places /\ q[k] = list[at[k]]
        /\ \A i \in places : \E k \in DOMAIN q : at[k] = i
        /\ \A k, m \in DOMAIN q : k < m <=> Precedes(order, at[k], at[m])
    BY <1>3 DEF Sorts
  <1>6. q \in Seq(S)
    <2>1. q \in [1..Cardinality(places) -> {list[i] : i \in places}]
      BY <1>3 DEF Sorts
    <2>2. {list[i] : i \in places} \subseteq S
      BY <1>1
    <2> QED
      BY <1>4, <2>1, <2>2
  <1>7. NoTwice(q)
    <2> SUFFICES ASSUME NEW k \in DOMAIN q, NEW m \in DOMAIN q, q[k] = q[m] PROVE k = m
      BY DEF NoTwice
    <2>1. list[at[k]] = list[at[m]] /\ at[k] \in DOMAIN list /\ at[m] \in DOMAIN list
      BY <1>5
    <2>2. at[k] = at[m]
      BY <2>1, Zenon DEF NoTwice
    <2>3. ~(k < m) /\ ~(m < k)
      BY <1>2, <1>1, <1>5, <2>2, PrecedesIs
    <2> QED
      BY <1>5, <2>3
  <1>8. \A x : x \in ToSet(q) <=> \E i \in places : list[i] = x
    BY <1>5, InRow
  <1>9. ASSUME NEW a \in places, NEW b \in places
        PROVE  Comes(q, list[a], list[b]) <=> Precedes(order, a, b)
    <2>1. PICK k \in DOMAIN q : at[k] = a
      BY <1>5
    <2>2. PICK m \in DOMAIN q : at[m] = b
      BY <1>5
    <2>3. q[k] = list[a] /\ q[m] = list[b]
      BY <1>5, <2>1, <2>2
    <2>4. Comes(q, q[k], q[m]) <=> k < m
      BY <1>6, <1>7, ComesIs
    <2> QED
      BY <1>5, <2>1, <2>2, <2>3, <2>4
  <1> QED
    BY <1>6, <1>7, <1>8, <1>9

-----------------------------------------------------------------------------
(* One group, put beside its target.                                       *)

Row(S, s) == s \in Seq(S) /\ NoTwice(s)

LEMMA PickedIs ==
    ASSUME NEW S, NEW s, Row(S, s), NEW places \in SUBSET DOMAIN s, NEW q, q = Picked(s, places)
    PROVE  /\ Row(S, q)
           /\ \A x : x \in ToSet(q) <=> \E i \in places : s[i] = x
           /\ \A x, y \in ToSet(q) : Comes(q, x, y) <=> Comes(s, x, y)
  <1>1. s \in Seq(S) /\ NoTwice(s)
    BY DEF Row
  <1>2. Weak({}, places)
    BY DEF Weak
  <1>3. q = Ordered(s, places, {})
    BY DEF Picked
  <1>4. /\ q \in Seq(S) /\ NoTwice(q)
        /\ \A x : x \in ToSet(q) <=> \E i \in places : s[i] = x
        /\ \A a, b \in places : Comes(q, s[a], s[b]) <=> Precedes({}, a, b)
    BY <1>1, <1>2, <1>3, OrderedRow
  <1>5. \A a, b \in places : Precedes({}, a, b) <=> a < b
    BY DEF Precedes
  <1>6. \A a, b \in places : Comes(s, s[a], s[b]) <=> a < b
    BY <1>1, ComesIs
  <1>7. ASSUME NEW x \in ToSet(q), NEW y \in ToSet(q) PROVE Comes(q, x, y) <=> Comes(s, x, y)
    <2>1. PICK a \in places : s[a] = x
      BY <1>4
    <2>2. PICK b \in places : s[b] = y
      BY <1>4
    <2> QED
      BY <1>4, <1>5, <1>6, <2>1, <2>2
  <1> QED
    BY <1>4, <1>7 DEF Row

Weighed(S) == \A x \in S : x.weight \in Int

LEMMA SidesAre ==
    ASSUME NEW S, Weighed(S), NEW group, Row(S, group)
    PROVE  /\ Row(S, Lighter(group)) /\ Row(S, Heavier(group))
           /\ \A x : x \in ToSet(Lighter(group)) <=> x \in ToSet(group) /\ x.weight < 0
           /\ \A x : x \in ToSet(Heavier(group)) <=> x \in ToSet(group) /\ ~(x.weight < 0)
           /\ \A x, y : Comes(Lighter(group), x, y) => Comes(group, x, y)
           /\ \A x, y : Comes(Heavier(group), x, y) => Comes(group, x, y)
  <1> DEFINE light == {k \in DOMAIN group : group[k].weight < 0}
             heavy == {k \in DOMAIN group : group[k].weight >= 0}
  <1>1. group \in Seq(S) /\ \A k \in DOMAIN group : group[k] \in S /\ group[k].weight \in Int
    BY DEF Row, Weighed
  <1>2. light \in SUBSET DOMAIN group /\ heavy \in SUBSET DOMAIN group
    OBVIOUS
  <1>3. Lighter(group) = Picked(group, light) /\ Heavier(group) = Picked(group, heavy)
    BY DEF Lighter, Heavier
  <1>4. /\ \A k : k \in light <=> k \in DOMAIN group /\ group[k].weight < 0
        /\ \A k : k \in heavy <=> k \in DOMAIN group /\ ~(group[k].weight < 0)
    BY <1>1
  <1> HIDE DEF light, heavy
  <1>5. /\ Row(S, Lighter(group))
        /\ \A x : x \in ToSet(Lighter(group)) <=> \E i \in light : group[i] = x
        /\ \A x, y \in ToSet(Lighter(group)) : Comes(Lighter(group), x, y) <=> Comes(group, x, y)
    BY <1>2, <1>3, PickedIs
  <1>6. /\ Row(S, Heavier(group))
        /\ \A x : x \in ToSet(Heavier(group)) <=> \E i \in heavy : group[i] = x
        /\ \A x, y \in ToSet(Heavier(group)) : Comes(Heavier(group), x, y) <=> Comes(group, x, y)
    BY <1>2, <1>3, PickedIs
  <1>7. \A x : x \in ToSet(Lighter(group)) <=> x \in ToSet(group) /\ x.weight < 0
    <2> TAKE x
    <2>1. x \in ToSet(group) <=> \E i \in DOMAIN group : group[i] = x
      BY InRow
    <2> QED
      BY <1>4, <1>5, <2>1
  <1>8. \A x : x \in ToSet(Heavier(group)) <=> x \in ToSet(group) /\ ~(x.weight < 0)
    <2> TAKE x
    <2>1. x \in ToSet(group) <=> \E i \in DOMAIN group : group[i] = x
      BY InRow
    <2> QED
      BY <1>4, <1>6, <2>1
  <1>9. /\ \A x, y : Comes(Lighter(group), x, y) => x \in ToSet(Lighter(group)) /\ y \in ToSet(Lighter(group))
        /\ \A x, y : Comes(Heavier(group), x, y) => x \in ToSet(Heavier(group)) /\ y \in ToSet(Heavier(group))
    BY <1>5, <1>6, RowIs DEF Row
  <1> QED
    BY <1>5, <1>6, <1>7, <1>8, <1>9, Zenon

\* The items of the result stay in their order, and those of the group come
\* right before their target or right after it.
Placed(result, r, group, t) ==
    /\ \A x : x \in ToSet(r) <=> x \in ToSet(result) \/ x \in ToSet(group)
    /\ \A x, y \in ToSet(result) : Comes(r, x, y) <=> Comes(result, x, y)
    /\ \A g \in ToSet(group) : \A x \in ToSet(result) :
         /\ g.weight < 0 => /\ Comes(r, g, x) <=> (x = t \/ Comes(result, t, x))
                            /\ Comes(r, x, g) <=> Comes(result, x, t)
         /\ ~(g.weight < 0) => /\ Comes(r, x, g) <=> (x = t \/ Comes(result, x, t))
                               /\ Comes(r, g, x) <=> Comes(result, t, x)
    /\ \A g, h \in ToSet(group) :
         /\ (g.weight < 0 <=> h.weight < 0) => (Comes(r, g, h) <=> Comes(group, g, h))
         /\ g.weight < 0 /\ ~(h.weight < 0) => Comes(r, g, h)

\* What joins two rows, and what is a part of one.
JoinOf(S, s, t, w) ==
    /\ Row(S, w)
    /\ \A x : x \in ToSet(w) <=> x \in ToSet(s) \/ x \in ToSet(t)
    /\ \A x, y : Comes(w, x, y) <=> \/ Comes(s, x, y) \/ Comes(t, x, y)
                                    \/ x \in ToSet(s) /\ y \in ToSet(t)
PartOf(S, s, a, b, q) ==
    /\ Row(S, q)
    /\ \A x : x \in ToSet(q) <=> \E i \in a..b : s[i] = x
    /\ \A x, y : Comes(q, x, y) => Comes(s, x, y)

LEMMA Joined ==
    ASSUME NEW S, NEW s, Row(S, s), NEW t, Row(S, t), \A x : ~(x \in ToSet(s) /\ x \in ToSet(t))
    PROVE  JoinOf(S, s, t, s \o t)
  <1> DEFINE w == s \o t
  <1>1. s \in Seq(S) /\ t \in Seq(S) /\ NoTwice(s) /\ NoTwice(t)
    BY DEF Row
  <1>2. \A x \in ToSet(s) : x \notin ToSet(t)
    OBVIOUS
  <1>3. /\ w \in Seq(S) /\ NoTwice(w)
        /\ \A x : x \in ToSet(w) <=> x \in ToSet(s) \/ x \in ToSet(t)
        /\ \A x, y : Comes(w, x, y) <=> \/ Comes(s, x, y) \/ Comes(t, x, y)
                                        \/ x \in ToSet(s) /\ y \in ToSet(t)
    BY <1>1, <1>2, Joining
  <1> QED
    BY <1>3, Zenon DEF Row, JoinOf

LEMMA PartIs ==
    ASSUME NEW S, NEW s, Row(S, s), NEW a \in 1..(Len(s) + 1), NEW b \in 0..Len(s)
    PROVE  PartOf(S, s, a, b, SubSeq(s, a, b))
  <1> DEFINE q == SubSeq(s, a, b)
  <1>1. s \in Seq(S) /\ NoTwice(s)
    BY DEF Row
  <1>2. /\ q \in Seq(S) /\ NoTwice(q)
        /\ \A x : x \in ToSet(q) <=> \E i \in a..b : s[i] = x
        /\ \A x, y : Comes(q, x, y) => Comes(s, x, y)
    BY <1>1, PartOfRow
  <1> QED
    BY <1>2, Zenon DEF Row, PartOf

LEMMA PlaceIs ==
    ASSUME NEW S, Weighed(S), NEW result, Row(S, result), NEW bundle, Row(S, bundle.group),
           \A x \in ToSet(result) : x \notin ToSet(bundle.group),
           At(result, bundle.target) \in DOMAIN result
    PROVE  /\ Row(S, Place(result, bundle))
           /\ Placed(result, Place(result, bundle), bundle.group, result[At(result, bundle.target)])
  <1> DEFINE p == At(result, bundle.target)
             t == result[p]
             group == bundle.group
             A == SubSeq(result, 1, p - 1)
             L == Lighter(group)
             H == Heavier(group)
             B == SubSeq(result, p + 1, Len(result))
             w1 == A \o L
             w2 == w1 \o <<t>>
             w3 == w2 \o H
             r == w3 \o B
  <1>1. r = Place(result, bundle)
    BY DEF Place
  <1>2. /\ result \in Seq(S) /\ NoTwice(result) /\ Len(result) \in Nat
        /\ DOMAIN result = 1..Len(result) /\ p \in 1..Len(result) /\ t \in S /\ t \in ToSet(result)
    <2>1. result \in Seq(S) /\ NoTwice(result)
      BY DEF Row
    <2>2. Len(result) \in Nat /\ DOMAIN result = 1..Len(result) /\ p \in 1..Len(result)
      BY <2>1
    <2>3. t \in S
      BY <2>1, <2>2
    <2> QED
      BY <2>1, <2>2, <2>3, InRow
  <1> HIDE DEF p
  <1>3. /\ Row(S, A) /\ \A x : x \in ToSet(A) <=> \E i \in 1..(p - 1) : result[i] = x
        /\ \A x, y : Comes(A, x, y) => Comes(result, x, y)
    <2>1. 1 \in 1..(Len(result) + 1) /\ p - 1 \in 0..Len(result)
      BY <1>2
    <2>2. PartOf(S, result, 1, p - 1, A)
      BY <2>1, PartIs
    <2> QED
      BY <2>2, Zenon DEF PartOf
  <1>4. /\ Row(S, B) /\ \A x : x \in ToSet(B) <=> \E i \in (p + 1)..Len(result) : result[i] = x
        /\ \A x, y : Comes(B, x, y) => Comes(result, x, y)
    <2>1. p + 1 \in 1..(Len(result) + 1) /\ Len(result) \in 0..Len(result)
      BY <1>2
    <2>2. PartOf(S, result, p + 1, Len(result), B)
      BY <2>1, PartIs
    <2> QED
      BY <2>2, Zenon DEF PartOf
  <1>5. /\ Row(S, L) /\ Row(S, H)
        /\ \A x : x \in ToSet(L) <=> x \in ToSet(group) /\ x.weight < 0
        /\ \A x : x \in ToSet(H) <=> x \in ToSet(group) /\ ~(x.weight < 0)
        /\ \A x, y : Comes(L, x, y) => Comes(group, x, y)
        /\ \A x, y : Comes(H, x, y) => Comes(group, x, y)
    BY SidesAre
  <1>6. /\ Row(S, <<t>>) /\ \A y : y \in ToSet(<<t>>) <=> y = t
        /\ \A y, z : ~Comes(<<t>>, y, z)
    BY <1>2, SingleRow DEF Row
  <1>7. \A x : x \in ToSet(A) <=> x \in ToSet(result) /\ Comes(result, x, t)
    <2> TAKE x
    <2>1. ASSUME NEW i \in 1..(p - 1), result[i] = x PROVE x \in ToSet(result) /\ Comes(result, x, t)
      <3>1. i \in DOMAIN result /\ i < p /\ p \in DOMAIN result
        BY <1>2
      <3> QED
        BY <1>2, <2>1, <3>1, ComesIs, InRow
    <2>2. ASSUME x \in ToSet(result), Comes(result, x, t) PROVE \E i \in 1..(p - 1) : result[i] = x
      <3>1. PICK i \in DOMAIN result : result[i] = x
        BY <2>2, InRow
      <3>2. i < p
        BY <1>2, <2>2, <3>1, ComesIs
      <3> QED
        BY <1>2, <3>1, <3>2
    <2> QED
      BY <1>3, <2>1, <2>2
  <1>8. \A x : x \in ToSet(B) <=> x \in ToSet(result) /\ Comes(result, t, x)
    <2> TAKE x
    <2>1. ASSUME NEW i \in (p + 1)..Len(result), result[i] = x
          PROVE x \in ToSet(result) /\ Comes(result, t, x)
      <3>1. i \in DOMAIN result /\ p < i /\ p \in DOMAIN result
        BY <1>2
      <3> QED
        BY <1>2, <2>1, <3>1, ComesIs, InRow
    <2>2. ASSUME x \in ToSet(result), Comes(result, t, x)
          PROVE \E i \in (p + 1)..Len(result) : result[i] = x
      <3>1. PICK i \in DOMAIN result : result[i] = x
        BY <2>2, InRow
      <3>2. p < i
        BY <1>2, <2>2, <3>1, ComesIs
      <3> QED
        BY <1>2, <3>1, <3>2
    <2> QED
      BY <1>4, <2>1, <2>2
  <1>9. /\ \A x \in ToSet(result) : ~Comes(result, x, x)
        /\ \A x, y \in ToSet(result) : x = y \/ Comes(result, x, y) \/ Comes(result, y, x)
        /\ \A x, y, z : Comes(result, x, y) /\ Comes(result, y, z) => Comes(result, x, z)
    BY <1>2, ComesIs
  <1> HIDE DEF A, B, L, H, t, group, w1, w2, w3, r
  <1>10. \A x : ~(x \in ToSet(A) /\ x \in ToSet(L))
    BY <1>5, <1>7 DEF group
  <1>11. /\ Row(S, w1) /\ \A x : x \in ToSet(w1) <=> x \in ToSet(A) \/ x \in ToSet(L)
         /\ \A x, y : Comes(w1, x, y) <=> \/ Comes(A, x, y) \/ Comes(L, x, y)
                                          \/ x \in ToSet(A) /\ y \in ToSet(L)
    <2>1. JoinOf(S, A, L, A \o L)
      BY <1>3, <1>5, <1>10, Joined
    <2> QED
      BY <2>1, Zenon DEF JoinOf, w1
  <1>12. \A x : ~(x \in ToSet(w1) /\ x \in ToSet(<<t>>))
    BY <1>2, <1>5, <1>6, <1>7, <1>9, <1>11 DEF group
  <1>13. /\ Row(S, w2) /\ \A x : x \in ToSet(w2) <=> x \in ToSet(w1) \/ x = t
         /\ \A x, y : Comes(w2, x, y) <=> Comes(w1, x, y) \/ (x \in ToSet(w1) /\ y = t)
    <2>1. /\ Row(S, w2) /\ \A x : x \in ToSet(w2) <=> x \in ToSet(w1) \/ x \in ToSet(<<t>>)
          /\ \A x, y : Comes(w2, x, y) <=> \/ Comes(w1, x, y) \/ Comes(<<t>>, x, y)
                                           \/ x \in ToSet(w1) /\ y \in ToSet(<<t>>)
      <3>1. JoinOf(S, w1, <<t>>, w1 \o <<t>>)
        BY <1>6, <1>11, <1>12, Joined
      <3> QED
        BY <3>1, Zenon DEF JoinOf, w2
    <2> QED
      BY <1>6, <2>1, Zenon
  <1>14. \A x : ~(x \in ToSet(w2) /\ x \in ToSet(H))
    BY <1>2, <1>5, <1>7, <1>11, <1>13 DEF group
  <1>15. /\ Row(S, w3) /\ \A x : x \in ToSet(w3) <=> x \in ToSet(w2) \/ x \in ToSet(H)
         /\ \A x, y : Comes(w3, x, y) <=> \/ Comes(w2, x, y) \/ Comes(H, x, y)
                                          \/ x \in ToSet(w2) /\ y \in ToSet(H)
    <2>1. JoinOf(S, w2, H, w2 \o H)
      BY <1>5, <1>13, <1>14, Joined
    <2> QED
      BY <2>1, Zenon DEF JoinOf, w3
  <1>16. \A x : ~(x \in ToSet(w3) /\ x \in ToSet(B))
    BY <1>2, <1>5, <1>7, <1>8, <1>9, <1>11, <1>13, <1>15, Zenon DEF group
  <1>17. /\ Row(S, r) /\ \A x : x \in ToSet(r) <=> x \in ToSet(w3) \/ x \in ToSet(B)
         /\ \A x, y : Comes(r, x, y) <=> \/ Comes(w3, x, y) \/ Comes(B, x, y)
                                         \/ x \in ToSet(w3) /\ y \in ToSet(B)
    <2>1. JoinOf(S, w3, B, w3 \o B)
      BY <1>4, <1>15, <1>16, Joined
    <2> QED
      BY <2>1, Zenon DEF JoinOf, r
  <1>18. /\ \A x \in ToSet(r) : ~Comes(r, x, x)
         /\ \A x, y \in ToSet(r) : x = y \/ Comes(r, x, y) \/ Comes(r, y, x)
         /\ \A x, y, z : Comes(r, x, y) /\ Comes(r, y, z) => Comes(r, x, z)
    BY <1>17, ComesIs DEF Row
  <1>19. \A x : x \in ToSet(result) <=> x \in ToSet(A) \/ x = t \/ x \in ToSet(B)
    BY <1>2, <1>7, <1>8, <1>9, Zenon
  <1>20. \A x : x \in ToSet(group) <=> x \in ToSet(L) \/ x \in ToSet(H)
    BY <1>5, Zenon
  <1>21. \A x : x \in ToSet(r) <=> x \in ToSet(result) \/ x \in ToSet(group)
    BY <1>11, <1>13, <1>15, <1>17, <1>19, <1>20, Zenon
  <1>22. ASSUME NEW x \in ToSet(result), NEW y \in ToSet(result)
         PROVE  Comes(r, x, y) <=> Comes(result, x, y)
    <2>1. x \notin ToSet(L) /\ x \notin ToSet(H) /\ y \notin ToSet(L) /\ y \notin ToSet(H)
      BY <1>20 DEF group
    <2>2. /\ Comes(L, x, y) => FALSE
          /\ Comes(H, x, y) => FALSE
      BY <1>5, <2>1, RowIs DEF Row
    <2>3. Comes(r, x, y) =>
             \/ Comes(A, x, y) \/ Comes(B, x, y) \/ (x \in ToSet(A) /\ y = t)
             \/ ((x \in ToSet(A) \/ x = t) /\ y \in ToSet(B))
      <3>1. Comes(w1, x, y) => Comes(A, x, y)
        BY <1>11, <2>1, <2>2
      <3>2. Comes(w2, x, y) => Comes(A, x, y) \/ (x \in ToSet(A) /\ y = t)
        BY <1>11, <1>13, <2>1, <3>1
      <3>3. Comes(w3, x, y) => Comes(A, x, y) \/ (x \in ToSet(A) /\ y = t)
        BY <1>15, <2>1, <2>2, <3>2
      <3>4. x \in ToSet(w3) => x \in ToSet(A) \/ x = t
        BY <1>11, <1>13, <1>15, <2>1
      <3> QED
        BY <1>17, <3>3, <3>4
    <2>4. x \in ToSet(A) /\ y \in ToSet(B) => Comes(result, x, y)
      BY <1>7, <1>8, <1>9, Zenon
    <2>5. Comes(r, x, y) => Comes(result, x, y)
      BY <1>3, <1>4, <1>7, <1>8, <2>3, <2>4, Zenon
    <2>6. x \in ToSet(r) /\ y \in ToSet(r)
      BY <1>21
    <2> QED
      <3>1. Comes(r, y, x) => Comes(result, y, x)
        <4>1. /\ Comes(L, y, x) => FALSE
              /\ Comes(H, y, x) => FALSE
          BY <1>5, <2>1, RowIs DEF Row
        <4>2. Comes(r, y, x) =>
                 \/ Comes(A, y, x) \/ Comes(B, y, x) \/ (y \in ToSet(A) /\ x = t)
                 \/ ((y \in ToSet(A) \/ y = t) /\ x \in ToSet(B))
          BY <1>11, <1>13, <1>15, <1>17, <2>1, <4>1, Zenon
        <4>3. y \in ToSet(A) /\ x \in ToSet(B) => Comes(result, y, x)
          BY <1>7, <1>8, <1>9, Zenon
        <4> QED
          BY <1>3, <1>4, <1>7, <1>8, <4>2, <4>3, Zenon
      <3> QED
        BY <1>9, <1>18, <2>5, <2>6, <3>1, Zenon
  <1>23. ASSUME NEW x \in ToSet(r), NEW y \in ToSet(r), Comes(r, x, y)
         PROVE  ~Comes(r, y, x) /\ x # y
    BY <1>18, <1>23, Zenon
  <1>24. ASSUME NEW g \in ToSet(group), NEW x \in ToSet(result), g.weight < 0
         PROVE  /\ Comes(r, g, x) <=> (x = t \/ Comes(result, t, x))
                /\ Comes(r, x, g) <=> Comes(result, x, t)
    <2>1. g \in ToSet(L) /\ g \in ToSet(r) /\ x \in ToSet(r)
      BY <1>5, <1>21, <1>24
    <2>2. x \in ToSet(A) => Comes(r, x, g)
      BY <1>11, <1>13, <1>15, <1>17, <2>1, Zenon
    <2>3. x = t \/ x \in ToSet(B) => Comes(r, g, x)
      BY <1>11, <1>13, <1>15, <1>17, <2>1, Zenon
    <2> QED
      BY <1>7, <1>8, <1>19, <1>23, <2>1, <2>2, <2>3, Zenon
  <1>25. ASSUME NEW g \in ToSet(group), NEW x \in ToSet(result), ~(g.weight < 0)
         PROVE  /\ Comes(r, x, g) <=> (x = t \/ Comes(result, x, t))
                /\ Comes(r, g, x) <=> Comes(result, t, x)
    <2>1. g \in ToSet(H) /\ g \in ToSet(r) /\ x \in ToSet(r)
      BY <1>5, <1>21, <1>25
    <2>2. x = t \/ x \in ToSet(A) => Comes(r, x, g)
      BY <1>11, <1>13, <1>15, <1>17, <2>1, Zenon
    <2>3. x \in ToSet(B) => Comes(r, g, x)
      BY <1>11, <1>13, <1>15, <1>17, <2>1, Zenon
    <2> QED
      BY <1>7, <1>8, <1>19, <1>23, <2>1, <2>2, <2>3, Zenon
  <1>26. ASSUME NEW g \in ToSet(group), NEW h \in ToSet(group)
         PROVE  /\ (g.weight < 0 <=> h.weight < 0) => (Comes(r, g, h) <=> Comes(group, g, h))
                /\ g.weight < 0 /\ ~(h.weight < 0) => Comes(r, g, h)
    <2>1. g \in ToSet(r) /\ h \in ToSet(r)
      BY <1>21
    <2>2. g.weight < 0 /\ ~(h.weight < 0) => Comes(r, g, h)
      BY <1>5, <1>11, <1>13, <1>15, <1>17, Zenon
    <2>3. g \notin ToSet(result) /\ h \notin ToSet(result)
      BY DEF group
    <2>4. /\ g \notin ToSet(A) /\ g \notin ToSet(B) /\ g # t
          /\ h \notin ToSet(A) /\ h \notin ToSet(B) /\ h # t
      BY <1>19, <2>3, Zenon
    <2>5. /\ Comes(A, g, h) => g \in ToSet(A)
          /\ Comes(B, g, h) => g \in ToSet(B)
          /\ Comes(A, h, g) => h \in ToSet(A)
          /\ Comes(B, h, g) => h \in ToSet(B)
      BY <1>3, <1>4, RowIs DEF Row
    <2>6. (g.weight < 0 <=> h.weight < 0) =>
             /\ Comes(r, g, h) => Comes(group, g, h)
             /\ Comes(r, h, g) => Comes(group, h, g)
      BY <1>5, <1>11, <1>13, <1>15, <1>17, <2>4, <2>5, Zenon
    <2>7. /\ Comes(group, g, h) /\ Comes(group, h, g) => Comes(group, g, g)
          /\ ~Comes(group, g, g)
      BY ComesIs DEF Row, group
    <2>8. g = h \/ Comes(r, g, h) \/ Comes(r, h, g)
      BY <1>18, <2>1
    <2> QED
      BY <2>2, <2>6, <2>7, <2>8, Zenon
  <1>27. Placed(result, r, group, t)
    BY <1>21, <1>22, <1>24, <1>25, <1>26, Zenon DEF Placed
  <1> QED
    BY <1>1, <1>17, <1>27 DEF group, t, p

-----------------------------------------------------------------------------
(* Items by their names.                                                   *)

ItemsOf(list) == ToSet(list)
KvList(list) ==
    /\ list \in Seq(ItemsOf(list))
    /\ \A x \in ItemsOf(list) : x.weight \in Int /\ x.first \in Nat /\ x.name # None
    /\ \A x \in ItemsOf(list) : {"name", "first", "weight"} \subseteq DOMAIN x
    /\ \A j, k \in DOMAIN list : list[j].name = list[k].name => j = k
\* x is anchored to t.
Hangs(list, x, t) == x \in ItemsOf(list) /\ t \in ItemsOf(list) /\ x.anchor = t.name

OneName(S) == \A x, y \in S : x.name = y.name => x = y

LEMMA AtRow ==
    ASSUME NEW S, OneName(S), NEW s, Row(S, s)
    PROVE  /\ \A x \in ToSet(s) : At(s, x.name) \in DOMAIN s /\ s[At(s, x.name)] = x
           /\ \A k \in DOMAIN s : At(s, s[k].name) = k
           /\ \A n : Known(s, n) <=> \E x \in ToSet(s) : x.name = n
  <1>1. s \in Seq(S) /\ NoTwice(s) /\ DOMAIN s = 1..Len(s) /\ Len(s) \in Nat
    BY DEF Row
  <1>2. \A k \in DOMAIN s : s[k] \in S /\ s[k] \in ToSet(s)
    BY <1>1, InRow
  <1>3. ASSUME NEW n, NEW k \in DOMAIN s, s[k].name = n
        PROVE  At(s, n) = k
    <2> DEFINE places == {j \in DOMAIN s : s[j].name = n}
    <2>1. \A j \in places : j = k
      BY <1>1, <1>2, <1>3 DEF NoTwice, OneName
    <2>2. places = {k}
      BY <1>3, <2>1
    <2>3. (CHOOSE i \in places : \A j \in places : i <= j) = k
      <3>1. k <= k
        BY <1>1
      <3> QED
        BY <2>2, <3>1
    <2> QED
      BY <2>2, <2>3 DEF At
  <1>4. ASSUME NEW n, \A k \in DOMAIN s : s[k].name # n
        PROVE  At(s, n) = 0
    <2>1. {j \in DOMAIN s : s[j].name = n} = {}
      BY <1>4
    <2> QED
      BY <2>1 DEF At
  <1>5. \A x \in ToSet(s) : At(s, x.name) \in DOMAIN s /\ s[At(s, x.name)] = x
    <2> TAKE x \in ToSet(s)
    <2>1. PICK k \in DOMAIN s : s[k] = x
      BY InRow
    <2> QED
      BY <1>3, <2>1
  <1>6. \A n : Known(s, n) <=> \E x \in ToSet(s) : x.name = n
    <2> TAKE n
    <2>1. ASSUME Known(s, n) PROVE \E x \in ToSet(s) : x.name = n
      <3>1. PICK k \in DOMAIN s : s[k].name = n
        BY <1>4, <2>1 DEF Known
      <3> QED
        BY <1>2, <3>1
    <2>2. ASSUME NEW x \in ToSet(s), x.name = n PROVE Known(s, n)
      <3>1. At(s, n) \in DOMAIN s
        BY <1>5, <2>2
      <3> QED
        BY <1>1, <3>1 DEF Known
    <2> QED
      BY <2>1, <2>2
  <1> QED
    BY <1>3, <1>5, <1>6

LEMMA ListIs ==
    ASSUME NEW list, KvList(list)
    PROVE  /\ Row(ItemsOf(list), list) /\ Weighed(ItemsOf(list)) /\ OneName(ItemsOf(list))
           /\ Len(list) \in Nat /\ DOMAIN list = 1..Len(list) /\ Anchored(list) \subseteq DOMAIN list
           /\ \A k \in DOMAIN list : list[k] \in ItemsOf(list)
           /\ \A x \in ItemsOf(list) : \E k \in DOMAIN list : list[k] = x
           /\ \A k \in Anchored(list) : /\ At(list, list[k].anchor) \in DOMAIN list
                                        /\ Hangs(list, list[k], list[At(list, list[k].anchor)])
           /\ \A k \in DOMAIN list : \A t : Hangs(list, list[k], t) => k \in Anchored(list)
           /\ \A x, t, u : Hangs(list, x, t) /\ Hangs(list, x, u) => t = u
  <1>1. list \in Seq(ItemsOf(list)) /\ Len(list) \in Nat /\ DOMAIN list = 1..Len(list)
    BY DEF KvList
  <1>2. /\ \A k \in DOMAIN list : list[k] \in ItemsOf(list)
        /\ \A x \in ItemsOf(list) : \E k \in DOMAIN list : list[k] = x
    BY InRow DEF ItemsOf
  <1>3. OneName(ItemsOf(list))
    BY <1>2 DEF OneName, KvList
  <1>4. NoTwice(list)
    BY DEF NoTwice, KvList
  <1>5. Row(ItemsOf(list), list)
    BY <1>1, <1>4 DEF Row
  <1>6. Weighed(ItemsOf(list))
    BY DEF Weighed, KvList
  <1>7. /\ \A x \in ToSet(list) : At(list, x.name) \in DOMAIN list /\ list[At(list, x.name)] = x
        /\ \A n : Known(list, n) <=> \E x \in ToSet(list) : x.name = n
    BY <1>3, <1>5, AtRow
  <1>8. ASSUME NEW k \in Anchored(list)
        PROVE  /\ k \in DOMAIN list /\ At(list, list[k].anchor) \in DOMAIN list
               /\ Hangs(list, list[k], list[At(list, list[k].anchor)])
    <2>1. k \in DOMAIN list /\ Known(list, list[k].anchor)
      BY DEF Anchored
    <2>2. PICK x \in ToSet(list) : x.name = list[k].anchor
      BY <1>7, <2>1
    <2> QED
      BY <1>2, <1>7, <2>1, <2>2 DEF Hangs, ItemsOf
  <1>9. ASSUME NEW k \in DOMAIN list, NEW t, Hangs(list, list[k], t)
        PROVE  k \in Anchored(list)
    <2>1. t \in ToSet(list) /\ list[k].anchor = t.name /\ t.name # None
      BY <1>9 DEF Hangs, KvList, ItemsOf
    <2> QED
      BY <1>7, <2>1 DEF Anchored
  <1>10. \A x, t, u : Hangs(list, x, t) /\ Hangs(list, x, u) => t = u
    BY <1>3 DEF Hangs, OneName
  <1> QED
    BY <1>1, <1>2, <1>3, <1>5, <1>6, <1>8, <1>9, <1>10, Zenon DEF Anchored

-----------------------------------------------------------------------------
(* Chains of anchors.                                                      *)

UpIs(list, m, u) ==
    u = [n \in 0..m |->
            [i \in DOMAIN list |->
                IF n = 0 \/ i \notin Anchored(list) THEN 0
                ELSE 1 + u[n - 1][At(list, list[i].anchor)]]]

LEMMA UpExists ==
    ASSUME NEW list
    PROVE  \A m \in Nat : \E u : UpIs(list, m, u)
  <1> DEFINE LevelRow(n, below) ==
                [i \in DOMAIN list |->
                    IF n = 0 \/ i \notin Anchored(list) THEN 0
                    ELSE 1 + below[At(list, list[i].anchor)]]
             good == {m \in Nat : \E u : u = [n \in 0..m |-> LevelRow(n, u[n - 1])]}
  <1> HIDE DEF LevelRow
  <1>1. 0 \in good
    <2> DEFINE u == [n \in 0..0 |-> LevelRow(0, {})]
    <2>1. \A b, c : LevelRow(0, b) = LevelRow(0, c)
      BY DEF LevelRow
    <2>2. u = [n \in 0..0 |-> LevelRow(n, u[n - 1])]
      <3>1. \A n \in 0..0 : n = 0
        OBVIOUS
      <3>2. \A n \in 0..0 : LevelRow(0, {}) = LevelRow(n, u[n - 1])
        BY <2>1, <3>1
      <3> HIDE DEF u
      <3>3. [n \in 0..0 |-> LevelRow(0, {})] = [n \in 0..0 |-> LevelRow(n, u[n - 1])]
        BY <3>2
      <3> QED
        BY <3>3 DEF u
    <2> HIDE DEF u
    <2> QED
      BY <2>2
  <1>2. ASSUME NEW m \in Nat, m \in good PROVE m + 1 \in good
    <2>1. PICK u : u = [n \in 0..m |-> LevelRow(n, u[n - 1])]
      BY <1>2
    <2> DEFINE w == [n \in 0..(m + 1) |-> IF n = m + 1 THEN LevelRow(m + 1, u[m]) ELSE u[n]]
    <2>2. \A n \in 0..(m + 1) : w[n] = LevelRow(n, w[n - 1])
      <3> TAKE n \in 0..(m + 1)
      <3>1. CASE n = m + 1
        <4>1. n - 1 = m /\ m \in 0..(m + 1) /\ m # m + 1
          BY <3>1
        <4>2. w[n - 1] = u[m] /\ w[n] = LevelRow(m + 1, u[m])
          BY <3>1, <4>1
        <4> HIDE DEF w
        <4> QED
          BY <3>1, <4>2
      <3>2. CASE n # m + 1 /\ n # 0
        <4>1. n \in 0..m /\ n - 1 \in 0..(m + 1) /\ n - 1 # m + 1
          BY <3>2
        <4>2. w[n] = u[n] /\ w[n - 1] = u[n - 1]
          BY <3>2, <4>1
        <4>3. u[n] = LevelRow(n, u[n - 1])
          BY <2>1, <4>1
        <4> HIDE DEF w
        <4> QED
          BY <4>2, <4>3
      <3>3. CASE n = 0
        <4>1. w[n] = u[n] /\ n \in 0..m
          BY <3>3
        <4>2. u[n] = LevelRow(n, u[n - 1])
          BY <2>1, <4>1
        <4>3. LevelRow(n, u[n - 1]) = LevelRow(n, w[n - 1])
          <5> DEFINE a == u[n - 1]
                     c == w[n - 1]
          <5> HIDE DEF a, c
          <5>1. LevelRow(n, a) = LevelRow(n, c)
            BY <3>3 DEF LevelRow
          <5> QED
            BY <5>1 DEF a, c
        <4> HIDE DEF w
        <4> QED
          BY <4>1, <4>2, <4>3
      <3> QED
        BY <3>1, <3>2, <3>3
    <2>3. w = [n \in 0..(m + 1) |-> LevelRow(n, w[n - 1])]
      <3>1. w = [n \in 0..(m + 1) |-> w[n]]
        OBVIOUS
      <3> HIDE DEF w
      <3> QED
        BY <2>2, <3>1
    <2> HIDE DEF w
    <2> QED
      BY <2>3
  <1>3. \A m \in Nat : m \in good
    <2> HIDE DEF good
    <2> QED
      BY <1>1, <1>2, Placing!EveryNumber
  <1> QED
    BY <1>3, Zenon DEF UpIs, LevelRow

\* The anchor of the item at i.
Above(list, i) == At(list, list[i].anchor)
Levels(list, u) ==
    /\ \A i \in DOMAIN list : u[0][i] = 0
    /\ \A n \in Nat : \A i \in DOMAIN list : n < Len(list) =>
         u[n + 1][i] = IF i \in Anchored(list) THEN 1 + u[n][Above(list, i)] ELSE 0
    /\ \A i \in DOMAIN list : Hops(list, i) = u[Len(list)][i]

LEMMA LevelsAre ==
    ASSUME NEW list, KvList(list)
    PROVE  \E u : Levels(list, u)
  <1>1. Len(list) \in Nat
    BY ListIs
  <1> DEFINE u == CHOOSE u : UpIs(list, Len(list), u)
  <1>2. UpIs(list, Len(list), u)
    <2>1. \E v : UpIs(list, Len(list), v)
      BY <1>1, UpExists
    <2> QED
      BY <2>1, Zenon
  <1>3. \A i \in DOMAIN list : Hops(list, i) = u[Len(list)][i]
    BY Zenon DEF Hops, UpIs
  <1> HIDE DEF u
  <1>4. \A n \in 0..Len(list) : u[n] = [i \in DOMAIN list |->
                IF n = 0 \/ i \notin Anchored(list) THEN 0
                ELSE 1 + u[n - 1][Above(list, i)]]
    BY <1>2 DEF UpIs, Above
  <1>5. \A i \in DOMAIN list : u[0][i] = 0
    <2>1. 0 \in 0..Len(list)
      BY <1>1
    <2> QED
      BY <1>4, <2>1
  <1>6. ASSUME NEW n \in Nat, NEW i \in DOMAIN list, n < Len(list)
        PROVE  u[n + 1][i] = IF i \in Anchored(list) THEN 1 + u[n][Above(list, i)] ELSE 0
    <2>1. n + 1 \in 0..Len(list) /\ n + 1 # 0 /\ n + 1 - 1 = n
      BY <1>1, <1>6
    <2>2. u[n + 1] = [j \in DOMAIN list |->
                IF n + 1 = 0 \/ j \notin Anchored(list) THEN 0
                ELSE 1 + u[n + 1 - 1][Above(list, j)]]
      BY <1>4, <2>1
    <2> QED
      BY <2>1, <2>2
  <1> QED
    BY <1>3, <1>5, <1>6 DEF Levels

\* A level that is not yet the last one possible stays.
LEMMA LevelsGrow ==
    ASSUME NEW list, KvList(list), NEW u, Levels(list, u)
    PROVE  \A n \in Nat : n <= Len(list) =>
             \A i \in DOMAIN list :
               /\ u[n][i] \in 0..n
               /\ n < Len(list) /\ u[n][i] < n => u[n + 1][i] = u[n][i]
  <1> DEFINE good == {n \in Nat : n <= Len(list) =>
                        \A i \in DOMAIN list :
                          /\ u[n][i] \in 0..n
                          /\ n < Len(list) /\ u[n][i] < n => u[n + 1][i] = u[n][i]}
  <1>1. /\ \A i \in DOMAIN list : u[0][i] = 0
        /\ \A n \in Nat : \A i \in DOMAIN list : n < Len(list) =>
             u[n + 1][i] = IF i \in Anchored(list) THEN 1 + u[n][Above(list, i)] ELSE 0
    BY DEF Levels
  <1>2. Len(list) \in Nat /\ \A i \in Anchored(list) : i \in DOMAIN list /\ Above(list, i) \in DOMAIN list
    BY ListIs DEF Above
  <1>3. 0 \in good
    BY <1>1, <1>2
  <1>4. ASSUME NEW n \in Nat, n \in good PROVE n + 1 \in good
    <2> SUFFICES ASSUME n + 1 <= Len(list), NEW i \in DOMAIN list
                 PROVE  /\ u[n + 1][i] \in 0..(n + 1)
                        /\ n + 1 < Len(list) /\ u[n + 1][i] < n + 1 => u[n + 1 + 1][i] = u[n + 1][i]
      OBVIOUS
    <2>1. n < Len(list) /\ n <= Len(list)
      BY <1>2
    <2>2. \A j \in DOMAIN list : u[n][j] \in 0..n /\ (u[n][j] < n => u[n + 1][j] = u[n][j])
      BY <1>4, <2>1
    <2>3. u[n + 1][i] = IF i \in Anchored(list) THEN 1 + u[n][Above(list, i)] ELSE 0
      BY <1>1, <2>1
    <2>4. n + 1 < Len(list) =>
             u[n + 1 + 1][i] = IF i \in Anchored(list) THEN 1 + u[n + 1][Above(list, i)] ELSE 0
      BY <1>1
    <2>5. CASE i \in Anchored(list)
      <3>1. Above(list, i) \in DOMAIN list
        BY <1>2, <2>5
      <3>2. u[n][Above(list, i)] \in 0..n
            /\ (u[n][Above(list, i)] < n => u[n + 1][Above(list, i)] = u[n][Above(list, i)])
        BY <2>2, <3>1
      <3> QED
        BY <2>3, <2>4, <2>5, <3>2
    <2>6. CASE i \notin Anchored(list)
      BY <2>3, <2>4, <2>6
    <2> QED
      BY <2>5, <2>6
  <1>5. \A n \in Nat : n \in good
    <2> HIDE DEF good
    <2> QED
      BY <1>3, <1>4, Placing!EveryNumber
  <1> QED
    BY <1>5

\* Without a cycle an item is one level below its anchor.
LEMMA HopsAre ==
    ASSUME NEW list, KvList(list), ~Cyclic(list)
    PROVE  /\ \A i \in DOMAIN list : Hops(list, i) \in Nat
           /\ \A i \in Anchored(list) : Hops(list, Above(list, i)) < Hops(list, i)
  <1>1. PICK u : Levels(list, u)
    BY LevelsAre
  <1>2. Len(list) \in Nat /\ \A i \in Anchored(list) : i \in DOMAIN list /\ Above(list, i) \in DOMAIN list
    BY ListIs DEF Above
  <1> DEFINE m == Len(list)
  <1>3. \A i \in DOMAIN list : Hops(list, i) = u[m][i] /\ u[m][i] \in 0..m /\ u[m][i] # m
    <2>1. \A i \in DOMAIN list : Hops(list, i) = u[m][i]
      BY <1>1 DEF Levels
    <2>2. m \in Nat /\ m <= m
      BY <1>2
    <2>3. \A i \in DOMAIN list : u[m][i] \in 0..m
      BY <1>1, <2>2, LevelsGrow
    <2>4. \A i \in DOMAIN list : Hops(list, i) # m
      BY DEF Cyclic
    <2> QED
      BY <2>1, <2>3, <2>4
  <1>4. ASSUME NEW i \in Anchored(list)
        PROVE  Hops(list, Above(list, i)) < Hops(list, i)
    <2> DEFINE j == Above(list, i)
    <2>1. i \in DOMAIN list /\ j \in DOMAIN list
      BY <1>2
    <2>2. m # 0 /\ m - 1 \in Nat /\ m - 1 < m /\ m - 1 + 1 = m
      BY <1>2, <2>1, ListIs
    <2>3. u[m - 1 + 1][i] = 1 + u[m - 1][j]
      BY <1>1, <2>1, <2>2 DEF Levels
    <2>4. u[m - 1][j] \in 0..(m - 1) /\ (u[m - 1][j] < m - 1 => u[m - 1 + 1][j] = u[m - 1][j])
      BY <1>1, <2>1, <2>2, LevelsGrow
    <2>5. u[m][i] = 1 + u[m - 1][j] /\ (u[m - 1][j] < m - 1 => u[m][j] = u[m - 1][j])
      BY <2>2, <2>3, <2>4
    <2>6. u[m - 1][j] < m - 1
      BY <1>3, <2>1, <2>2, <2>4, <2>5
    <2> HIDE DEF j, m
    <2> QED
      BY <1>3, <2>1, <2>4, <2>5, <2>6 DEF j
  <1> QED
    BY <1>2, <1>3, <1>4

-----------------------------------------------------------------------------
(* What is anchored to an item, directly or not.                           *)

LEMMA UnderItself == \A list, x : x \in ItemsOf(list) => Under(list, x, x)
  BY Zenon DEF Under

LEMMA UnderIs ==
    ASSUME NEW list, KvList(list), NEW x, NEW y, NEW t, Hangs(list, x, y), Under(list, y, t)
    PROVE  Under(list, x, t)
  <1> SUFFICES ASSUME NEW names \in SUBSET {i.name : i \in ToSet(list)}, t.name \in names,
                      \A k \in Anchored(list) : list[k].anchor \in names => list[k].name \in names
               PROVE  x.name \in names
    BY DEF Under
  <1>1. y.name \in names
    BY Zenon DEF Under
  <1>2. PICK k \in DOMAIN list : list[k] = x
    BY ListIs DEF Hangs
  <1>3. k \in Anchored(list)
    BY <1>2, ListIs
  <1> QED
    BY <1>1, <1>2, <1>3 DEF Hangs

\* A chain that does not end goes through one item twice.
LEMMA CyclicIs ==
    ASSUME NEW list, KvList(list), Cyclic(list)
    PROVE  \E k \in Anchored(list) : Under(list, list[Above(list, k)], list[k])
  <1> SUFFICES ASSUME \A k \in Anchored(list) : ~Under(list, list[Above(list, k)], list[k])
               PROVE  FALSE
    OBVIOUS
  <1> DEFINE D == DOMAIN list
             Over(i) == {t \in D : t # i /\ Under(list, list[i], list[t])}
             C(i) == Cardinality(Over(i))
  <1>1. /\ Len(list) \in Nat /\ D = 1..Len(list)
        /\ \A i \in Anchored(list) : /\ i \in D /\ Above(list, i) \in D
                                     /\ Hangs(list, list[i], list[Above(list, i)])
        /\ \A i \in D : list[i] \in ItemsOf(list)
    BY ListIs DEF Above
  <1>2. IsFiniteSet(D) /\ Cardinality(D) = Len(list)
    <2>1. IsFiniteSet(1..Len(list)) /\ Cardinality(1..Len(list)) = Len(list)
      BY <1>1, FS_Interval
    <2> QED
      BY <1>1, <2>1
  <1>3. \A i \in D : Over(i) \in SUBSET D /\ i \notin Over(i)
    OBVIOUS
  <1>4. \A i, t \in D : t \in Over(i) <=> t # i /\ Under(list, list[i], list[t])
    OBVIOUS
  <1> HIDE DEF Over
  <1>5. \A i \in D : IsFiniteSet(Over(i)) /\ C(i) \in Nat /\ C(i) < Len(list)
    <2> TAKE i \in D
    <2>1. IsFiniteSet(Over(i)) /\ C(i) \in Nat
      BY <1>2, <1>3, FS_Subset, FS_CardinalityType
    <2>2. Over(i) # D
      BY <1>3
    <2>3. C(i) <= Cardinality(D) /\ C(i) # Cardinality(D)
      BY <1>2, <1>3, <2>2, FS_Subset
    <2> HIDE DEF D
    <2> QED
      BY <1>1, <1>2, <2>1, <2>3
  <1>6. ASSUME NEW i \in Anchored(list)
        PROVE  C(Above(list, i)) < C(i)
    <2> DEFINE j == Above(list, i)
    <2>1. i \in D /\ j \in D /\ Hangs(list, list[i], list[j]) /\ ~Under(list, list[j], list[i])
      BY <1>1
    <2>2. Under(list, list[j], list[j])
      BY <1>1, <2>1, UnderItself
    <2>3. i # j
      BY <2>1, <2>2
    <2>4. Under(list, list[i], list[j])
      BY <2>1, <2>2, UnderIs
    <2>5. \A t \in D : Under(list, list[j], list[t]) => Under(list, list[i], list[t])
      BY <2>1, UnderIs
    <2>6. j \in Over(i) /\ j \notin Over(j)
      BY <1>3, <1>4, <2>1, <2>3, <2>4
    <2>7. \A t \in Over(j) : t \in Over(i)
      <3> TAKE t \in Over(j)
      <3>1. t \in D /\ Under(list, list[j], list[t])
        BY <1>3, <1>4, <2>1
      <3>2. t # i
        BY <2>1, <3>1
      <3> QED
        BY <1>4, <2>1, <2>5, <3>1, <3>2
    <2> HIDE DEF j, D
    <2>8. Over(j) \in SUBSET Over(i) /\ Over(j) # Over(i)
      BY <2>6, <2>7
    <2>9. Cardinality(Over(j)) <= Cardinality(Over(i)) /\ Cardinality(Over(j)) # Cardinality(Over(i))
      BY <1>5, <2>1, <2>8, FS_Subset
    <2>10. C(j) \in Nat /\ C(i) \in Nat
      BY <1>5, <2>1
    <2> QED
      BY <2>9, <2>10 DEF j
  <1>7. PICK u : Levels(list, u)
    BY LevelsAre
  <1> DEFINE good == {n \in Nat : n <= Len(list) => \A i \in D : u[n][i] <= C(i)}
  <1> HIDE DEF C, D
  <1>8. 0 \in good
    BY <1>5, <1>7 DEF Levels, D
  <1>9. ASSUME NEW n \in Nat, n \in good PROVE n + 1 \in good
    <2> SUFFICES ASSUME n + 1 <= Len(list), NEW i \in D PROVE u[n + 1][i] <= C(i)
      OBVIOUS
    <2>1. n < Len(list) /\ n <= Len(list)
      BY <1>1
    <2>2. u[n + 1][i] = IF i \in Anchored(list) THEN 1 + u[n][Above(list, i)] ELSE 0
      BY <1>7, <2>1 DEF Levels, D
    <2>3. CASE i \in Anchored(list)
      <3>1. Above(list, i) \in D
        BY <1>1, <2>3
      <3>2. u[n][Above(list, i)] <= C(Above(list, i)) /\ u[n][Above(list, i)] \in 0..n
        BY <1>7, <1>9, <2>1, <3>1, LevelsGrow DEF D
      <3>3. C(Above(list, i)) < C(i) /\ C(i) \in Nat /\ C(Above(list, i)) \in Nat
        BY <1>5, <1>6, <2>3, <3>1
      <3> QED
        BY <2>2, <2>3, <3>2, <3>3
    <2>4. CASE i \notin Anchored(list)
      BY <1>5, <2>2, <2>4
    <2> QED
      BY <2>3, <2>4
  <1>10. \A n \in Nat : n \in good
    <2> HIDE DEF good
    <2> QED
      BY <1>8, <1>9, Placing!EveryNumber
  <1>11. PICK k \in D : Hops(list, k) = Len(list)
    BY DEF Cyclic, D
  <1>12. u[Len(list)][k] = Len(list)
    BY <1>7, <1>11 DEF Levels, D
  <1>13. u[Len(list)][k] <= C(k)
    <2>1. Len(list) \in good
      BY <1>1, <1>10
    <2>2. Len(list) <= Len(list)
      BY <1>1
    <2> QED
      BY <2>1, <2>2
  <1> QED
    BY <1>1, <1>5, <1>12, <1>13

-----------------------------------------------------------------------------
(* The three rows that the sort begins with.                               *)

Tied(list, x) == \E t : Hangs(list, x, t)

LEMMA HigherIs ==
    ASSUME NEW x, NEW y, NEW z, x.weight \in Int, y.weight \in Int, z.weight \in Int,
           x.first \in Nat, y.first \in Nat, z.first \in Nat
    PROVE  /\ ~HigherUp(x, x) /\ ~Earlier(x, x)
           /\ HigherUp(x, y) /\ HigherUp(y, z) => HigherUp(x, z)
           /\ HigherUp(x, y) => HigherUp(x, z) \/ HigherUp(z, y)
           /\ Earlier(x, y) /\ Earlier(y, z) => Earlier(x, z)
           /\ Earlier(x, y) => Earlier(x, z) \/ Earlier(z, y)
  <1>1. Zone(x) \in Int /\ Zone(y) \in Int /\ Zone(z) \in Int
    BY DEF Zone
  <1> QED
    BY <1>1 DEF HigherUp, Earlier

LEMMA ZonedIs ==
    ASSUME NEW list, KvList(list), NEW r, r = Zoned(list)
    PROVE  /\ Row(ItemsOf(list), r)
           /\ \A x : x \in ToSet(r) <=> x \in ItemsOf(list) /\ ~Tied(list, x)
           /\ \A x, y \in ToSet(r) : HigherUp(x, y) => Comes(r, x, y)
  <1> DEFINE free == Unanchored(list)
             order == {p \in free \X free : HigherUp(list[p[1]], list[p[2]])}
  <1>1. /\ Row(ItemsOf(list), list) /\ free \in SUBSET DOMAIN list
        /\ \A k \in DOMAIN list : list[k] \in ItemsOf(list)
        /\ \A x \in ItemsOf(list) : \E k \in DOMAIN list : list[k] = x
    BY ListIs DEF Unanchored
  <1>2. \A k \in DOMAIN list : k \in free <=> ~Tied(list, list[k])
    BY ListIs DEF Unanchored, Tied
  <1>3. \A k \in free : list[k].weight \in Int /\ list[k].first \in Nat
    BY <1>1 DEF KvList
  <1> HIDE DEF free
  <1>4. \A a, b \in free : <<a, b>> \in order <=> HigherUp(list[a], list[b])
    OBVIOUS
  <1> HIDE DEF order
  <1>5. Weak(order, free)
    BY <1>3, <1>4, HigherIs DEF Weak
  <1>6. list \in Seq(ItemsOf(list)) /\ NoTwice(list)
    BY <1>1 DEF Row
  <1>7. r = Ordered(list, free, order)
    BY Zenon DEF Zoned, free, order
  <1>8. /\ r \in Seq(ItemsOf(list)) /\ NoTwice(r)
        /\ \A x : x \in ToSet(r) <=> \E i \in free : list[i] = x
        /\ \A a, b \in free : Comes(r, list[a], list[b]) <=> Precedes(order, a, b)
    BY <1>1, <1>5, <1>6, <1>7, OrderedRow
  <1>9. \A x : x \in ToSet(r) <=> x \in ItemsOf(list) /\ ~Tied(list, x)
    <2> TAKE x
    <2>1. x \in ItemsOf(list) <=> \E k \in DOMAIN list : list[k] = x
      BY <1>1
    <2> QED
      BY <1>1, <1>2, <1>8, <2>1
  <1>10. ASSUME NEW x \in ToSet(r), NEW y \in ToSet(r), HigherUp(x, y) PROVE Comes(r, x, y)
    <2>1. PICK a \in free : list[a] = x
      BY <1>8
    <2>2. PICK b \in free : list[b] = y
      BY <1>8
    <2>3. Precedes(order, a, b)
      BY <1>4, <1>10, <2>1, <2>2 DEF Precedes
    <2> QED
      BY <1>8, <2>1, <2>2, <2>3
  <1> QED
    BY <1>8, <1>9, <1>10 DEF Row

LEMMA GroupIs ==
    ASSUME NEW list, KvList(list), NEW t \in ItemsOf(list), NEW r, r = GroupOf(list, t.name)
    PROVE  /\ Row(ItemsOf(list), r)
           /\ \A x : x \in ToSet(r) <=> Hangs(list, x, t)
           /\ \A x, y \in ToSet(r) : Earlier(x, y) => Comes(r, x, y)
  <1> DEFINE group == {k \in Anchored(list) : list[k].anchor = t.name}
             order == {p \in group \X group : Earlier(list[p[1]], list[p[2]])}
  <1>1. /\ Row(ItemsOf(list), list) /\ group \in SUBSET DOMAIN list
        /\ \A k \in DOMAIN list : list[k] \in ItemsOf(list)
        /\ \A x \in ItemsOf(list) : \E k \in DOMAIN list : list[k] = x
    BY ListIs
  <1>2. \A k \in DOMAIN list : k \in group <=> Hangs(list, list[k], t)
    <2> TAKE k \in DOMAIN list
    <2>1. Hangs(list, list[k], t) => k \in Anchored(list)
      BY ListIs
    <2> QED
      BY <1>1, <2>1 DEF Hangs
  <1>3. \A k \in group : list[k].weight \in Int /\ list[k].first \in Nat
    BY <1>1 DEF KvList
  <1> HIDE DEF group
  <1>4. \A a, b \in group : <<a, b>> \in order <=> Earlier(list[a], list[b])
    OBVIOUS
  <1> HIDE DEF order
  <1>5. Weak(order, group)
    BY <1>3, <1>4, HigherIs DEF Weak
  <1>6. list \in Seq(ItemsOf(list)) /\ NoTwice(list)
    BY <1>1 DEF Row
  <1>7. r = Ordered(list, group, order)
    BY Zenon DEF GroupOf, group, order
  <1>8. /\ r \in Seq(ItemsOf(list)) /\ NoTwice(r)
        /\ \A x : x \in ToSet(r) <=> \E i \in group : list[i] = x
        /\ \A a, b \in group : Comes(r, list[a], list[b]) <=> Precedes(order, a, b)
    BY <1>1, <1>5, <1>6, <1>7, OrderedRow
  <1>9. \A x : x \in ToSet(r) <=> Hangs(list, x, t)
    <2> TAKE x
    <2>1. Hangs(list, x, t) => \E k \in DOMAIN list : list[k] = x
      BY <1>1 DEF Hangs
    <2> QED
      BY <1>1, <1>2, <1>8, <2>1
  <1>10. ASSUME NEW x \in ToSet(r), NEW y \in ToSet(r), Earlier(x, y) PROVE Comes(r, x, y)
    <2>1. PICK a \in group : list[a] = x
      BY <1>8
    <2>2. PICK b \in group : list[b] = y
      BY <1>8
    <2>3. Precedes(order, a, b)
      BY <1>4, <1>10, <2>1, <2>2 DEF Precedes
    <2> QED
      BY <1>8, <2>1, <2>2, <2>3
  <1> QED
    BY <1>8, <1>9, <1>10 DEF Row

LEMMA TargetsAre ==
    ASSUME NEW list, KvList(list), ~Cyclic(list), NEW r, r = TargetOrder(list)
    PROVE  /\ Row(ItemsOf(list), r)
           /\ \A t : t \in ToSet(r) <=> \E x : Hangs(list, x, t)
           /\ \A t, u \in ToSet(r) : Hangs(list, u, t) => Comes(r, t, u)
  <1> DEFINE targets == {k \in DOMAIN list : \E i \in Anchored(list) : list[i].anchor = list[k].name}
             order == {p \in targets \X targets : Hops(list, p[1]) < Hops(list, p[2])}
  <1>1. /\ Row(ItemsOf(list), list) /\ targets \in SUBSET DOMAIN list
        /\ \A k \in DOMAIN list : list[k] \in ItemsOf(list)
        /\ \A x \in ItemsOf(list) : \E k \in DOMAIN list : list[k] = x
    BY ListIs
  <1>2. \A k \in DOMAIN list : k \in targets <=> \E x : Hangs(list, x, list[k])
    <2> TAKE k \in DOMAIN list
    <2>1. ASSUME NEW x, Hangs(list, x, list[k]) PROVE k \in targets
      <3>1. PICK i \in DOMAIN list : list[i] = x
        BY <1>1, <2>1 DEF Hangs
      <3>2. i \in Anchored(list)
        BY <2>1, <3>1, ListIs
      <3> QED
        BY <2>1, <3>1, <3>2 DEF Hangs
    <2>2. ASSUME NEW i \in Anchored(list), list[i].anchor = list[k].name
          PROVE  Hangs(list, list[i], list[k])
      BY <1>1, <2>2 DEF Hangs, Anchored
    <2> QED
      BY <2>1, <2>2
  <1>3. \A k \in targets : Hops(list, k) \in Nat
    BY HopsAre
  <1> HIDE DEF targets
  <1>4. \A a, b \in targets : <<a, b>> \in order <=> Hops(list, a) < Hops(list, b)
    OBVIOUS
  <1> HIDE DEF order
  <1>5. Weak(order, targets)
    <2> SUFFICES ASSUME NEW a \in targets, NEW b \in targets, NEW c \in targets
                 PROVE  /\ <<a, a>> \notin order
                        /\ <<a, b>> \in order /\ <<b, c>> \in order => <<a, c>> \in order
                        /\ <<a, b>> \in order => <<a, c>> \in order \/ <<c, b>> \in order
      BY DEF Weak
    <2>1. Hops(list, a) \in Nat /\ Hops(list, b) \in Nat /\ Hops(list, c) \in Nat
      BY <1>3
    <2> QED
      BY <1>4, <2>1
  <1>6. list \in Seq(ItemsOf(list)) /\ NoTwice(list)
    BY <1>1 DEF Row
  <1>7. r = Ordered(list, targets, order)
    BY Zenon DEF TargetOrder, targets, order
  <1>8. /\ r \in Seq(ItemsOf(list)) /\ NoTwice(r)
        /\ \A x : x \in ToSet(r) <=> \E i \in targets : list[i] = x
        /\ \A a, b \in targets : Comes(r, list[a], list[b]) <=> Precedes(order, a, b)
    BY <1>1, <1>5, <1>6, <1>7, OrderedRow
  <1>9. \A t : t \in ToSet(r) <=> \E x : Hangs(list, x, t)
    <2> TAKE t
    <2>1. ASSUME NEW x, Hangs(list, x, t) PROVE \E k \in DOMAIN list : list[k] = t
      BY <1>1, <2>1 DEF Hangs
    <2> QED
      BY <1>1, <1>2, <1>8, <2>1
  <1>10. ASSUME NEW t \in ToSet(r), NEW y \in ToSet(r), Hangs(list, y, t) PROVE Comes(r, t, y)
    <2>1. PICK a \in targets : list[a] = t
      BY <1>8
    <2>2. PICK b \in targets : list[b] = y
      BY <1>8
    <2>3. b \in Anchored(list) /\ Above(list, b) \in DOMAIN list /\ list[Above(list, b)] = t
      BY <1>1, <1>10, <2>2, ListIs DEF Above
    <2>4. Above(list, b) = a
      BY <1>1, <1>6, <2>1, <2>3 DEF NoTwice
    <2>5. Hops(list, a) < Hops(list, b)
      BY <2>3, <2>4, HopsAre
    <2>6. Precedes(order, a, b)
      BY <1>4, <2>5 DEF Precedes
    <2> QED
      BY <1>8, <2>1, <2>2, <2>6
  <1> QED
    BY <1>8, <1>9, <1>10 DEF Row

-----------------------------------------------------------------------------
(* Target after target.                                                    *)

BesideIt(list, r, x, t) ==
    /\ x.weight < 0 => Comes(r, x, t)
    /\ ~(x.weight < 0) => Comes(r, t, x)
    /\ \A z \in ToSet(r) :
         (Comes(r, x, z) /\ Comes(r, z, t)) \/ (Comes(r, t, z) /\ Comes(r, z, x)) => Under(list, z, t)
    /\ \A z \in ToSet(r) :
         Hangs(list, z, t) /\ (z.weight < 0 <=> x.weight < 0) /\ Earlier(z, x) => Comes(r, z, x)

Targeted(targets, k, t) == \E j \in 1..k : targets[j] = t
\* The result with the groups of the first k targets.
SortedSoFar(list, targets, k, r) ==
    /\ Row(ItemsOf(list), r)
    /\ \A x : x \in ToSet(r) <=> x \in ItemsOf(list) /\ \A t : Hangs(list, x, t) => Targeted(targets, k, t)
    /\ \A x, y \in ToSet(r) : ~Tied(list, x) /\ ~Tied(list, y) /\ HigherUp(x, y) => Comes(r, x, y)
    /\ \A x \in ToSet(r) : \A t : Hangs(list, x, t) => t \in ToSet(r) /\ BesideIt(list, r, x, t)

\* What was beside its anchor stays there when a group comes in.
LEMMA StaysBeside ==
    ASSUME NEW list, KvList(list), NEW r, Row(ItemsOf(list), r), NEW s, Row(ItemsOf(list), s),
           NEW group, NEW target \in ToSet(r), Placed(r, s, group, target),
           \A g \in ToSet(group) : Hangs(list, g, target),
           NEW x \in ToSet(r), NEW t \in ToSet(r), Hangs(list, x, t), BesideIt(list, r, x, t),
           \A z \in ToSet(group) : ~Hangs(list, z, t) \/ t = target,
           \A z \in ToSet(r) : ~Hangs(list, z, target)
    PROVE  BesideIt(list, s, x, t)
  <1>1. /\ \A z : z \in ToSet(s) <=> z \in ToSet(r) \/ z \in ToSet(group)
        /\ \A a, b \in ToSet(r) : Comes(s, a, b) <=> Comes(r, a, b)
        /\ \A g \in ToSet(group) : \A a \in ToSet(r) :
             /\ g.weight < 0 => /\ Comes(s, g, a) <=> (a = target \/ Comes(r, target, a))
                                /\ Comes(s, a, g) <=> Comes(r, a, target)
             /\ ~(g.weight < 0) => /\ Comes(s, a, g) <=> (a = target \/ Comes(r, a, target))
                                   /\ Comes(s, g, a) <=> Comes(r, target, a)
    BY Zenon DEF Placed
  <1>2. t # target
    OBVIOUS
  <1>3. x.weight < 0 => Comes(s, x, t)
    BY <1>1 DEF BesideIt
  <1>4. ~(x.weight < 0) => Comes(s, t, x)
    BY <1>1 DEF BesideIt
  <1>5. ASSUME NEW z \in ToSet(s),
               (Comes(s, x, z) /\ Comes(s, z, t)) \/ (Comes(s, t, z) /\ Comes(s, z, x))
        PROVE  Under(list, z, t)
    <2>1. CASE z \in ToSet(r)
      BY <1>1, <1>5, <2>1, Zenon DEF BesideIt
    <2>2. CASE z \in ToSet(group)
      <3>1. Hangs(list, z, target)
        BY <2>2
      <3>2. \/ Comes(r, x, target) /\ Comes(r, target, t)
            \/ Comes(r, t, target) /\ Comes(r, target, x)
            \/ x = target
        <4>1. CASE z.weight < 0
          BY <1>1, <1>2, <1>5, <2>2, <4>1, Zenon
        <4>2. CASE ~(z.weight < 0)
          BY <1>1, <1>2, <1>5, <2>2, <4>2, Zenon
        <4> QED
          BY <4>1, <4>2
      <3>3. Under(list, target, t)
        <4>1. CASE x = target
          <5>1. Under(list, t, t)
            BY UnderItself DEF Hangs
          <5> QED
            BY <4>1, <5>1, UnderIs
        <4>2. CASE x # target
          BY <3>2, <4>2, Zenon DEF BesideIt
        <4> QED
          BY <4>1, <4>2
      <3> QED
        BY <3>1, <3>3, UnderIs
    <2> QED
      BY <1>1, <2>1, <2>2
  <1>6. ASSUME NEW z \in ToSet(s), Hangs(list, z, t), z.weight < 0 <=> x.weight < 0, Earlier(z, x)
        PROVE  Comes(s, z, x)
    <2>1. z \in ToSet(r)
      BY <1>1, <1>2, <1>6
    <2> QED
      BY <1>1, <1>6, <2>1 DEF BesideIt
  <1> QED
    BY <1>3, <1>4, <1>5, <1>6, Zenon DEF BesideIt

\* What comes in is beside its anchor.
LEMMA ComesBeside ==
    ASSUME NEW list, KvList(list), NEW r, Row(ItemsOf(list), r), NEW s, Row(ItemsOf(list), s),
           NEW group, NEW target \in ToSet(r), Placed(r, s, group, target),
           \A g \in ToSet(group) : Hangs(list, g, target),
           \A z \in ToSet(r) : ~Hangs(list, z, target),
           \A g, h \in ToSet(group) : Earlier(g, h) => Comes(group, g, h),
           NEW x \in ToSet(group)
    PROVE  BesideIt(list, s, x, target)
  <1>1. /\ \A z : z \in ToSet(s) <=> z \in ToSet(r) \/ z \in ToSet(group)
        /\ \A a, b \in ToSet(r) : Comes(s, a, b) <=> Comes(r, a, b)
        /\ \A g \in ToSet(group) : \A a \in ToSet(r) :
             /\ g.weight < 0 => /\ Comes(s, g, a) <=> (a = target \/ Comes(r, target, a))
                                /\ Comes(s, a, g) <=> Comes(r, a, target)
             /\ ~(g.weight < 0) => /\ Comes(s, a, g) <=> (a = target \/ Comes(r, a, target))
                                   /\ Comes(s, g, a) <=> Comes(r, target, a)
        /\ \A g, h \in ToSet(group) :
             (g.weight < 0 <=> h.weight < 0) => (Comes(s, g, h) <=> Comes(group, g, h))
    BY Zenon DEF Placed
  <1>2. /\ \A y \in ToSet(r) : ~Comes(r, y, y)
        /\ \A a, b, c : Comes(r, a, b) /\ Comes(r, b, c) => Comes(r, a, c)
    BY ComesIs DEF Row
  <1>3. x.weight < 0 => Comes(s, x, target)
    BY <1>1
  <1>4. ~(x.weight < 0) => Comes(s, target, x)
    BY <1>1
  <1>5. ASSUME NEW z \in ToSet(s),
               (Comes(s, x, z) /\ Comes(s, z, target)) \/ (Comes(s, target, z) /\ Comes(s, z, x))
        PROVE  Under(list, z, target)
    <2>1. CASE z \in ToSet(r)
      <3>1. CASE x.weight < 0
        <4>1. Comes(s, x, z) => z = target \/ Comes(r, target, z)
          BY <1>1, <2>1, <3>1
        <4>2. Comes(s, z, x) => Comes(r, z, target)
          BY <1>1, <2>1, <3>1
        <4>3. /\ Comes(s, z, target) => Comes(r, z, target)
              /\ Comes(s, target, z) => Comes(r, target, z)
          BY <1>1, <2>1
        <4>4. ~(Comes(r, z, target) /\ (z = target \/ Comes(r, target, z)))
          BY <1>2
        <4> QED
          BY <1>5, <4>1, <4>2, <4>3, <4>4
      <3>2. CASE ~(x.weight < 0)
        <4>1. Comes(s, x, z) => Comes(r, target, z)
          BY <1>1, <2>1, <3>2
        <4>2. Comes(s, z, x) => z = target \/ Comes(r, z, target)
          BY <1>1, <2>1, <3>2
        <4>3. /\ Comes(s, z, target) => Comes(r, z, target)
              /\ Comes(s, target, z) => Comes(r, target, z)
          BY <1>1, <2>1
        <4>4. ~(Comes(r, target, z) /\ (z = target \/ Comes(r, z, target)))
          BY <1>2
        <4> QED
          BY <1>5, <4>1, <4>2, <4>3, <4>4
      <3> QED
        BY <3>1, <3>2
    <2>2. CASE z \in ToSet(group)
      <3>1. Hangs(list, z, target)
        BY <2>2
      <3>2. Under(list, target, target)
        BY <3>1, UnderItself DEF Hangs
      <3> QED
        BY <3>1, <3>2, UnderIs
    <2> QED
      BY <1>1, <2>1, <2>2
  <1>6. ASSUME NEW z \in ToSet(s), Hangs(list, z, target), z.weight < 0 <=> x.weight < 0, Earlier(z, x)
        PROVE  Comes(s, z, x)
    <2>1. z \in ToSet(group)
      BY <1>1, <1>6
    <2> QED
      BY <1>1, <1>6, <2>1
  <1> QED
    BY <1>3, <1>4, <1>5, <1>6, Zenon DEF BesideIt

LEMMA SortStarts ==
    ASSUME NEW list, KvList(list), NEW targets
    PROVE  SortedSoFar(list, targets, 0, Zoned(list))
  <1> DEFINE r == Zoned(list)
  <1>1. /\ Row(ItemsOf(list), r)
        /\ \A x : x \in ToSet(r) <=> x \in ItemsOf(list) /\ ~Tied(list, x)
        /\ \A x, y \in ToSet(r) : HigherUp(x, y) => Comes(r, x, y)
    BY ZonedIs
  <1> HIDE DEF r
  <1>2. \A t : ~Targeted(targets, 0, t)
    BY DEF Targeted
  <1>3. \A x : x \in ToSet(r) <=> x \in ItemsOf(list) /\ \A t : Hangs(list, x, t) => Targeted(targets, 0, t)
    BY <1>1, <1>2, Zenon DEF Tied
  <1>4. \A x \in ToSet(r) : \A t : ~Hangs(list, x, t)
    BY <1>1, Zenon DEF Tied
  <1> QED
    BY <1>1, <1>3, <1>4, Zenon DEF SortedSoFar, r

LEMMA SortGoesOn ==
    ASSUME NEW list, KvList(list), ~Cyclic(list), NEW k \in Nat, k < Len(TargetGroups(list)),
           NEW r, SortedSoFar(list, TargetOrder(list), k, r)
    PROVE  SortedSoFar(list, TargetOrder(list), k + 1, Place(r, TargetGroups(list)[k + 1]))
  <1> DEFINE S == ItemsOf(list)
             targets == TargetOrder(list)
             target == targets[k + 1]
             group == GroupOf(list, target.name)
             bundle == TargetGroups(list)[k + 1]
             s == Place(r, bundle)
  <1>1. /\ Row(S, targets)
        /\ \A t : t \in ToSet(targets) <=> \E x : Hangs(list, x, t)
        /\ \A t, u \in ToSet(targets) : Hangs(list, u, t) => Comes(targets, t, u)
    BY TargetsAre
  <1>2. /\ targets \in Seq(S) /\ NoTwice(targets) /\ DOMAIN targets = 1..Len(targets) /\ Len(targets) \in Nat
    BY <1>1 DEF Row
  <1>3. /\ k + 1 \in DOMAIN targets /\ bundle.target = target.name /\ bundle.group = group
    <2> HIDE DEF target, group
    <2>1. TargetGroups(list) = [j \in DOMAIN targets |->
                           [target |-> targets[j].name, group |-> GroupOf(list, targets[j].name)]]
      BY Zenon DEF TargetGroups
    <2>2. Len(TargetGroups(list)) = Len(targets)
      BY <1>2, <2>1
    <2>3. k + 1 \in DOMAIN targets
      BY <1>2, <2>2
    <2>4. bundle = [target |-> targets[k + 1].name, group |-> GroupOf(list, targets[k + 1].name)]
      BY <2>1, <2>3, Zenon
    <2> QED
      BY <2>3, <2>4 DEF target, group
  <1>4. target \in S /\ target \in ToSet(targets)
    <2>1. target \in S
      BY <1>2, <1>3
    <2> QED
      BY <1>3, <2>1, InRow
  <1>5. Weighed(S) /\ OneName(S) /\ \A x, t, u : Hangs(list, x, t) /\ Hangs(list, x, u) => t = u
    BY ListIs
  <1> HIDE DEF S, bundle, targets
  <1>6. /\ Row(S, group)
        /\ \A x : x \in ToSet(group) <=> Hangs(list, x, target)
        /\ \A x, y \in ToSet(group) : Earlier(x, y) => Comes(group, x, y)
    BY <1>4, GroupIs DEF S
  <1> HIDE DEF target, group
  <1>7. /\ Row(S, r)
        /\ \A x : x \in ToSet(r) <=> x \in S /\ \A t : Hangs(list, x, t) => Targeted(targets, k, t)
        /\ \A x, y \in ToSet(r) : ~Tied(list, x) /\ ~Tied(list, y) /\ HigherUp(x, y) => Comes(r, x, y)
        /\ \A x \in ToSet(r) : \A t : Hangs(list, x, t) => t \in ToSet(r) /\ BesideIt(list, r, x, t)
    BY Zenon DEF SortedSoFar, S, targets
  <1>8. ~Targeted(targets, k, target)
    <2>1. \A j \in 1..k : j \in DOMAIN targets /\ j # k + 1
      BY <1>2, <1>3
    <2> QED
      BY <1>2, <1>3, <2>1 DEF Targeted, NoTwice, target
  <1>9. \A t : Targeted(targets, k + 1, t) <=> Targeted(targets, k, t) \/ t = target
    <2>1. \A j : j \in 1..(k + 1) <=> j \in 1..k \/ j = k + 1
      OBVIOUS
    <2> QED
      BY <2>1 DEF Targeted, target
  <1>10. target \in ToSet(r)
    <2> SUFFICES ASSUME NEW t, Hangs(list, target, t) PROVE Targeted(targets, k, t)
      BY <1>4, <1>7
    <2>1. t \in ToSet(targets)
      BY <1>1
    <2>2. Comes(targets, t, target)
      BY <1>1, <1>4, <2>1
    <2>3. PICK i, j \in DOMAIN targets : i < j /\ targets[i] = t /\ targets[j] = target
      BY <2>2, Zenon DEF Comes
    <2>4. j = k + 1
      BY <1>2, <1>3, <2>3, Zenon DEF NoTwice, target
    <2>5. i \in 1..k
      BY <1>2, <2>3, <2>4
    <2> QED
      BY <2>3, <2>5 DEF Targeted
  <1>11. \A x \in ToSet(r) : ~Hangs(list, x, target)
    BY <1>7, <1>8
  <1>12. Row(S, s) /\ Placed(r, s, group, target)
    <2>1. At(r, bundle.target) \in DOMAIN r /\ r[At(r, bundle.target)] = target
      BY <1>3, <1>5, <1>7, <1>10, AtRow
    <2>2. Row(S, bundle.group) /\ \A x \in ToSet(r) : x \notin ToSet(bundle.group)
      BY <1>3, <1>6, <1>11
    <2>3. Row(S, s) /\ Placed(r, s, bundle.group, r[At(r, bundle.target)])
      BY <1>5, <1>7, <2>1, <2>2, PlaceIs
    <2> QED
      BY <1>3, <2>1, <2>3
  <1> HIDE DEF s
  <1>13. /\ \A x : x \in ToSet(s) <=> x \in ToSet(r) \/ Hangs(list, x, target)
         /\ \A x, y \in ToSet(r) : Comes(s, x, y) <=> Comes(r, x, y)
    BY <1>6, <1>12, Zenon DEF Placed
  <1>14. \A x : x \in ToSet(s) <=> x \in S /\ \A t : Hangs(list, x, t) => Targeted(targets, k + 1, t)
    <2> TAKE x
    <2>1. CASE Hangs(list, x, target)
      <3>1. x \in S /\ \A t : Hangs(list, x, t) => t = target
        BY <1>5, <2>1 DEF Hangs, S
      <3> QED
        BY <1>9, <1>13, <2>1, <3>1
    <2>2. CASE ~Hangs(list, x, target)
      BY <1>7, <1>9, <1>13, <2>2
    <2> QED
      BY <2>1, <2>2
  <1>15. ASSUME NEW x \in ToSet(s), NEW y \in ToSet(s), ~Tied(list, x), ~Tied(list, y), HigherUp(x, y)
         PROVE  Comes(s, x, y)
    <2>1. x \in ToSet(r) /\ y \in ToSet(r)
      BY <1>13, <1>15 DEF Tied
    <2> QED
      BY <1>7, <1>13, <1>15, <2>1
  <1>16. ASSUME NEW x \in ToSet(s), NEW t, Hangs(list, x, t)
         PROVE  t \in ToSet(s) /\ BesideIt(list, s, x, t)
    <2>1. CASE x \in ToSet(r)
      <3>1. t \in ToSet(r) /\ BesideIt(list, r, x, t)
        BY <1>7, <1>16, <2>1
      <3>2. \A z \in ToSet(group) : ~Hangs(list, z, t) \/ t = target
        BY <1>5, <1>6
      <3>3. BesideIt(list, s, x, t)
        BY <1>6, <1>7, <1>10, <1>11, <1>12, <1>16, <2>1, <3>1, <3>2, StaysBeside DEF S
      <3> QED
        BY <1>13, <3>1, <3>3
    <2>2. CASE x \notin ToSet(r)
      <3>1. Hangs(list, x, target) /\ t = target /\ x \in ToSet(group)
        BY <1>5, <1>6, <1>13, <1>16, <2>2
      <3>2. BesideIt(list, s, x, target)
        BY <1>6, <1>7, <1>10, <1>11, <1>12, <3>1, ComesBeside DEF S
      <3> QED
        BY <1>10, <1>13, <3>1, <3>2
    <2> QED
      BY <2>1, <2>2
  <1> QED
    BY <1>12, <1>14, <1>15, <1>16, Zenon DEF SortedSoFar, S, s, targets, bundle

\* The fold of the library, over the bundles.
LEMMA PlacingFold == \A b, q : FoldLeft(Place, b, q) = Placing!FoldLeft(Place, b, q)
  BY Zenon DEF FoldLeft, MapThenFoldSet, Max, Placing!FoldLeft, Placing!MapThenFoldSet, Placing!Max

LEMMA SortItemsIs ==
    ASSUME NEW list, KvList(list), ~Cyclic(list)
    PROVE  SortedSoFar(list, TargetOrder(list), Len(TargetGroups(list)), SortItems(list))
  <1> DEFINE bundles == TargetGroups(list)
             n == Len(bundles)
             targets == TargetOrder(list)
             b == Zoned(list)
  <1>1. n \in Nat /\ DOMAIN bundles = 1..n
    <2>1. Row(ItemsOf(list), targets)
      BY TargetsAre
    <2>2. DOMAIN targets = 1..Len(targets) /\ Len(targets) \in Nat
      BY <2>1 DEF Row
    <2>3. DOMAIN bundles = DOMAIN targets
      BY DEF TargetGroups
    <2> QED
      BY <2>2, <2>3
  <1> HIDE DEF bundles, b
  <1>2. Placing!HasRow(b, bundles, n)
    BY <1>1, Placing!FoldHasRow
  <1>3. PICK r : /\ r[0] = b
                 /\ \A k \in Nat : k < n => r[k + 1] = Place(r[k], bundles[k + 1])
                 /\ Placing!Fold(b, bundles) = r[n]
    BY <1>2, Zenon DEF Placing!HasRow
  <1>4. SortItems(list) = r[n]
    BY <1>3, PlacingFold, Zenon DEF SortItems, Placing!Fold, bundles, b
  <1> DEFINE good == {k \in Nat : k <= n => SortedSoFar(list, targets, k, r[k])}
  <1>5. 0 \in good
    BY <1>3, SortStarts DEF b
  <1>6. ASSUME NEW k \in Nat, k \in good PROVE k + 1 \in good
    <2> SUFFICES ASSUME k + 1 <= n PROVE SortedSoFar(list, targets, k + 1, r[k + 1])
      OBVIOUS
    <2>1. k < n /\ k <= n
      BY <1>1
    <2>2. SortedSoFar(list, targets, k, r[k])
      BY <1>6, <2>1
    <2>3. r[k + 1] = Place(r[k], bundles[k + 1])
      BY <1>3, <2>1
    <2> HIDE DEF targets
    <2>4. SortedSoFar(list, targets, k + 1, Place(r[k], bundles[k + 1]))
      BY <2>1, <2>2, SortGoesOn DEF targets, bundles
    <2> QED
      BY <2>3, <2>4
  <1>7. \A k \in Nat : k \in good
    <2> HIDE DEF good
    <2> QED
      BY <1>5, <1>6, Placing!EveryNumber
  <1>8. n \in good /\ n <= n
    BY <1>1, <1>7
  <1> QED
    BY <1>4, <1>8 DEF bundles

-----------------------------------------------------------------------------
(* All of it.                                                              *)

LEMMA RowLength ==
    ASSUME NEW S, NEW s, Row(S, s)
    PROVE  IsFiniteSet(ToSet(s)) /\ Cardinality(ToSet(s)) = Len(s)
  <1>1. s \in Seq(S) /\ Len(s) \in Nat /\ DOMAIN s = 1..Len(s) /\ NoTwice(s)
    BY DEF Row
  <1>2. IsFiniteSet(1..Len(s)) /\ Cardinality(1..Len(s)) = Len(s)
    BY <1>1, FS_Interval
  <1>3. s \in Bijection(1..Len(s), ToSet(s))
    <2>1. s = [i \in 1..Len(s) |-> s[i]]
      BY <1>1
    <2>2. s \in [1..Len(s) -> ToSet(s)]
      BY <1>1, <2>1, InRow
    <2>3. s \in Injection(1..Len(s), ToSet(s))
      BY <1>1, <2>2 DEF Injection, IsInjective, NoTwice
    <2>4. s \in Surjection(1..Len(s), ToSet(s))
      BY <1>1, <2>2, InRow DEF Surjection
    <2> QED
      BY <2>3, <2>4 DEF Bijection
  <1> QED
    BY <1>2, <1>3, FS_Bijection DEF ExistsBijection

LEMMA SortedIs ==
    ASSUME NEW list, KvList(list), ~Cyclic(list), NEW r, r = SortItems(list)
    PROVE  /\ Row(ItemsOf(list), r) /\ ToSet(r) = ItemsOf(list) /\ Len(r) = Len(list)
           /\ \A x, y \in ToSet(r) : ~Tied(list, x) /\ ~Tied(list, y) /\ HigherUp(x, y) => Comes(r, x, y)
           /\ \A x, t : Hangs(list, x, t) => BesideIt(list, r, x, t)
  <1> DEFINE n == Len(TargetGroups(list))
             targets == TargetOrder(list)
  <1>1. SortedSoFar(list, targets, n, r)
    BY SortItemsIs
  <1>2. /\ Row(ItemsOf(list), targets)
        /\ \A t : t \in ToSet(targets) <=> \E x : Hangs(list, x, t)
    BY TargetsAre
  <1>3. DOMAIN targets = 1..n
    <2>1. DOMAIN targets = 1..Len(targets) /\ Len(targets) \in Nat
      BY <1>2 DEF Row
    <2>2. DOMAIN TargetGroups(list) = DOMAIN targets
      BY DEF TargetGroups
    <2> QED
      BY <2>1, <2>2
  <1> HIDE DEF n, targets
  <1>4. /\ Row(ItemsOf(list), r)
        /\ \A x : x \in ToSet(r) <=> x \in ItemsOf(list) /\ \A t : Hangs(list, x, t) => Targeted(targets, n, t)
        /\ \A x, y \in ToSet(r) : ~Tied(list, x) /\ ~Tied(list, y) /\ HigherUp(x, y) => Comes(r, x, y)
        /\ \A x \in ToSet(r) : \A t : Hangs(list, x, t) => t \in ToSet(r) /\ BesideIt(list, r, x, t)
    BY <1>1, Zenon DEF SortedSoFar
  <1>5. \A x, t : Hangs(list, x, t) => Targeted(targets, n, t)
    BY <1>2, <1>3, InRow DEF Targeted
  <1>6. ToSet(r) = ItemsOf(list)
    <2>1. \A x : x \in ToSet(r) <=> x \in ItemsOf(list)
      BY <1>4, <1>5, Zenon
    <2> QED
      BY <2>1
  <1>7. Len(r) = Len(list)
    <2>1. Cardinality(ToSet(r)) = Len(r)
      BY <1>4, RowLength
    <2>2. Cardinality(ToSet(list)) = Len(list)
      BY ListIs, RowLength
    <2> QED
      BY <1>6, <2>1, <2>2 DEF ItemsOf
  <1>8. \A x, t : Hangs(list, x, t) => BesideIt(list, r, x, t)
    BY <1>4, <1>6 DEF Hangs
  <1> QED
    BY <1>4, <1>6, <1>7, <1>8, Zenon

LEMMA AllOnce ==
    ASSUME NEW list, KvList(list), NEW sorted, sorted = SortItems(list)
    PROVE  \/ /\ sorted = Refused
              /\ \E k \in Anchored(list) : Under(list, list[At(list, list[k].anchor)], list[k])
           \/ Len(sorted) = Len(list) /\ ToSet(sorted) = ToSet(list)
  <1>1. CASE Cyclic(list)
    <2>1. sorted = Refused
      BY <1>1 DEF SortItems
    <2>2. \E k \in Anchored(list) : Under(list, list[Above(list, k)], list[k])
      BY <1>1, CyclicIs
    <2> QED
      BY <2>1, <2>2, Zenon DEF Above
  <1>2. CASE ~Cyclic(list)
    BY <1>2, SortedIs DEF ItemsOf
  <1> QED
    BY <1>1, <1>2

LEMMA AllBeside ==
    ASSUME NEW list, KvList(list), NEW sorted, sorted = SortItems(list), sorted # Refused,
           NEW i \in 1..Len(sorted), NEW j \in 1..Len(sorted), sorted[i].anchor = sorted[j].name
    PROVE  /\ i < j <=> sorted[i].weight < 0
           /\ \A k \in 1..Len(sorted) :
                  (i < k /\ k < j) \/ (j < k /\ k < i) => Under(list, sorted[k], sorted[j])
           /\ \A k \in 1..Len(sorted) :
                  /\ sorted[k].anchor = sorted[j].name
                  /\ sorted[k].weight < 0 <=> sorted[i].weight < 0
                  /\ sorted[k].first < sorted[i].first
                  => k < i
  <1>1. ~Cyclic(list)
    BY DEF SortItems
  <1>2. /\ Row(ItemsOf(list), sorted) /\ ToSet(sorted) = ItemsOf(list)
        /\ \A x, t : Hangs(list, x, t) => BesideIt(list, sorted, x, t)
    BY <1>1, SortedIs
  <1>3. sorted \in Seq(ItemsOf(list)) /\ NoTwice(sorted) /\ DOMAIN sorted = 1..Len(sorted)
    BY <1>2 DEF Row
  <1>4. \A a, b \in 1..Len(sorted) : Comes(sorted, sorted[a], sorted[b]) <=> a < b
    BY <1>3, ComesIs
  <1>5. \A k \in 1..Len(sorted) : sorted[k] \in ItemsOf(list) /\ sorted[k] \in ToSet(sorted)
    BY <1>2, <1>3, InRow
  <1>6. Hangs(list, sorted[i], sorted[j])
    BY <1>5 DEF Hangs
  <1>7. BesideIt(list, sorted, sorted[i], sorted[j])
    BY <1>2, <1>6
  <1>8. i < j <=> sorted[i].weight < 0
    <2>1. ~(i < j /\ j < i)
      BY <1>3
    <2> QED
      BY <1>4, <1>7, <2>1 DEF BesideIt
  <1>9. ASSUME NEW k \in 1..Len(sorted), (i < k /\ k < j) \/ (j < k /\ k < i)
        PROVE  Under(list, sorted[k], sorted[j])
    BY <1>4, <1>5, <1>7, <1>9, Zenon DEF BesideIt
  <1>10. ASSUME NEW k \in 1..Len(sorted), sorted[k].anchor = sorted[j].name,
                sorted[k].weight < 0 <=> sorted[i].weight < 0, sorted[k].first < sorted[i].first
         PROVE  k < i
    <2>1. Hangs(list, sorted[k], sorted[j]) /\ Earlier(sorted[k], sorted[i])
      BY <1>5, <1>10 DEF Hangs, Earlier
    <2> QED
      BY <1>4, <1>5, <1>7, <1>10, <2>1, Zenon DEF BesideIt
  <1> QED
    BY <1>8, <1>9, <1>10

LEMMA AllZoned ==
    ASSUME NEW list, KvList(list), NEW sorted, sorted = SortItems(list), sorted # Refused,
           NEW i \in 1..Len(sorted), NEW j \in 1..Len(sorted),
           sorted[i].anchor = None \/ ~Known(list, sorted[i].anchor),
           sorted[j].anchor = None \/ ~Known(list, sorted[j].anchor),
           HigherUp(sorted[i], sorted[j])
    PROVE  i < j
  <1>1. ~Cyclic(list)
    BY DEF SortItems
  <1>2. /\ Row(ItemsOf(list), sorted) /\ ToSet(sorted) = ItemsOf(list)
        /\ \A x, y \in ToSet(sorted) : ~Tied(list, x) /\ ~Tied(list, y) /\ HigherUp(x, y) => Comes(sorted, x, y)
    BY <1>1, SortedIs
  <1>3. sorted \in Seq(ItemsOf(list)) /\ NoTwice(sorted) /\ DOMAIN sorted = 1..Len(sorted)
    BY <1>2 DEF Row
  <1>4. Comes(sorted, sorted[i], sorted[j]) <=> i < j
    BY <1>3, ComesIs
  <1>5. \A k \in 1..Len(sorted) : sorted[k] \in ItemsOf(list) /\ sorted[k] \in ToSet(sorted)
    BY <1>2, <1>3, InRow
  <1>6. \A x \in ItemsOf(list) : x.anchor = None \/ ~Known(list, x.anchor) => ~Tied(list, x)
    <2> SUFFICES ASSUME NEW x \in ItemsOf(list), NEW t, Hangs(list, x, t)
                 PROVE  x.anchor # None /\ Known(list, x.anchor)
      BY DEF Tied
    <2>1. PICK k \in DOMAIN list : list[k] = x
      BY ListIs
    <2>2. k \in Anchored(list)
      BY <2>1, ListIs
    <2> QED
      BY <2>1, <2>2 DEF Anchored
  <1> QED
    BY <1>2, <1>4, <1>5, <1>6

-----------------------------------------------------------------------------
(* What the entries make of a list.                                        *)

KvItem(x) == /\ x.weight \in Int /\ x.first \in Nat /\ x.name # None
             /\ {"name", "first", "weight"} \subseteq DOMAIN x

LEMMA ItemsAre ==
    ASSUME NEW list, KvList(list)
    PROVE  \A n : Known(list, n) => /\ At(list, n) \in DOMAIN list
                                    /\ KvItem(list[At(list, n)]) /\ list[At(list, n)].name = n
  <1>1. /\ \A x \in ToSet(list) : At(list, x.name) \in DOMAIN list /\ list[At(list, x.name)] = x
        /\ \A n : Known(list, n) <=> \E x \in ToSet(list) : x.name = n
    BY ListIs, AtRow
  <1>2. \A x \in ToSet(list) : KvItem(x)
    BY DEF KvList, KvItem, ItemsOf
  <1> QED
    BY <1>1, <1>2

LEMMA PutIs ==
    ASSUME NEW list, KvList(list), NEW item, KvItem(item)
    PROVE  KvList(Put(list, item))
  <1> DEFINE S == ItemsOf(list) \union {item}
             new == Put(list, item)
  <1>1. /\ list \in Seq(ItemsOf(list)) /\ Len(list) \in Nat /\ DOMAIN list = 1..Len(list)
        /\ \A j, k \in DOMAIN list : list[j].name = list[k].name => j = k
        /\ \A k \in DOMAIN list : list[k] \in ItemsOf(list)
    BY ListIs DEF KvList
  <1>2. \A x \in S : KvItem(x)
    BY DEF KvList, KvItem
  <1>3. new \in Seq(S) /\ \A j, k \in DOMAIN new : new[j].name = new[k].name => j = k
    <2>1. CASE Known(list, item.name)
      <3> DEFINE p == At(list, item.name)
      <3>1. p \in DOMAIN list /\ list[p].name = item.name
        BY <2>1, ItemsAre
      <3>2. new = [list EXCEPT ![p] = item]
        BY <2>1 DEF Put, ReplaceAt
      <3> HIDE DEF p, new, S
      <3>3. DOMAIN new = 1..Len(list) /\ \A k \in DOMAIN list : new[k] = IF k = p THEN item ELSE list[k]
        BY <1>1, <3>1, <3>2
      <3>4. \A k \in DOMAIN list : new[k].name = list[k].name
        BY <3>1, <3>3
      <3>5. \A k \in DOMAIN list : new[k] \in S
        BY <1>1, <3>3 DEF S
      <3>6. new \in [1..Len(list) -> S]
        BY <1>1, <3>2, <3>3, <3>5
      <3>7. new \in Seq(S)
        BY <1>1, <3>6
      <3> QED
        BY <1>1, <3>3, <3>4, <3>7
    <2>2. CASE ~Known(list, item.name)
      <3>1. new = Append(list, item)
        BY <2>2 DEF Put
      <3>2. \A k \in DOMAIN list : list[k].name # item.name
        <4>1. \A n : Known(list, n) <=> \E x \in ToSet(list) : x.name = n
          BY ListIs, AtRow
        <4> QED
          BY <1>1, <2>2, <4>1 DEF ItemsOf
      <3>3. list \in Seq(S) /\ item \in S
        BY <1>1
      <3> HIDE DEF new, S
      <3>4. /\ new \in Seq(S) /\ DOMAIN new = 1..(Len(list) + 1)
            /\ \A k \in DOMAIN list : new[k] = list[k]
            /\ new[Len(list) + 1] = item
        BY <1>1, <3>1, <3>3
      <3>5. \A k \in DOMAIN new : k \in DOMAIN list \/ k = Len(list) + 1
        BY <1>1, <3>4
      <3> QED
        BY <1>1, <3>2, <3>4, <3>5
    <2> QED
      BY <2>1, <2>2
  <1> HIDE DEF new, S
  <1>4. new \in Seq(ItemsOf(new)) /\ ItemsOf(new) \subseteq S
    BY <1>3, RowIs DEF ItemsOf
  <1> QED
    BY <1>2, <1>3, <1>4 DEF KvList, KvItem, new

LEMMA CurrentIs ==
    ASSUME NEW list, KvList(list), NEW n, n # None, NEW index \in Nat
    PROVE  KvItem(Current(list, n, index)) /\ Current(list, n, index).name = n
  <1>1. CASE Known(list, n)
    BY <1>1, ItemsAre DEF Current
  <1>2. CASE ~Known(list, n)
    BY <1>2 DEF Current, Blank, KvItem
  <1> QED
    BY <1>1, <1>2

\* A default is filled in beside the name, the weight and the place.
SameItem(x, y) == /\ x.name = y.name /\ x.weight = y.weight /\ x.first = y.first
                  /\ {"name", "first", "weight"} \subseteq DOMAIN x

LEMMA FillIs ==
    ASSUME NEW x, NEW y, SameItem(x, y), NEW pair
    PROVE  SameItem(Fill(x, pair), y)
  <1>1. Fill(x, pair) = x \/ \E keys : Fill(x, pair) = [x EXCEPT !.keys = keys]
    BY Zenon DEF Fill
  <1>2. ASSUME NEW keys PROVE SameItem([x EXCEPT !.keys = keys], y)
    BY DEF SameItem
  <1> QED
    BY <1>1, <1>2

LEMMA FillingFold == \A b, q : FoldLeft(Fill, b, q) = Filling!FoldLeft(Fill, b, q)
  BY Zenon DEF FoldLeft, MapThenFoldSet, Max, Filling!FoldLeft, Filling!MapThenFoldSet, Filling!Max

LEMMA FilledIs ==
    ASSUME NEW item, KvItem(item)
    PROVE  KvItem(Filled(item))
  <1> DEFINE n == Len(Empty)
  <1>1. n \in Nat /\ DOMAIN Empty = 1..n
    BY KvAssumption DEF KvAssumption
  <1>2. Filling!HasRow(item, Empty, n)
    BY <1>1, Filling!FoldHasRow
  <1>3. PICK r : /\ r[0] = item
                 /\ \A k \in Nat : k < n => r[k + 1] = Fill(r[k], Empty[k + 1])
                 /\ Filling!Fold(item, Empty) = r[n]
    BY <1>2, Zenon DEF Filling!HasRow
  <1>4. Filled(item) = r[n]
    BY <1>3, FillingFold, Zenon DEF Filled, Filling!Fold
  <1> DEFINE good == {k \in Nat : k <= n => SameItem(r[k], item)}
  <1> HIDE DEF n
  <1>5. 0 \in good
    BY <1>3 DEF SameItem, KvItem
  <1>6. ASSUME NEW k \in Nat, k \in good PROVE k + 1 \in good
    <2> SUFFICES ASSUME k + 1 <= n PROVE SameItem(r[k + 1], item)
      OBVIOUS
    <2>1. k < n /\ k <= n
      BY <1>1
    <2> QED
      BY <1>3, <1>6, <2>1, FillIs
  <1>7. \A k \in Nat : k \in good
    <2> HIDE DEF good
    <2> QED
      BY <1>5, <1>6, Placing!EveryNumber
  <1>8. SameItem(r[n], item)
    BY <1>1, <1>7
  <1> QED
    BY <1>4, <1>8 DEF SameItem, KvItem

\* What is kept is an item of that name.
KeptItem(old, new, el) ==
    /\ new.name = old.name /\ new.first = old.first /\ DOMAIN new = DOMAIN old
    /\ new.weight = old.weight \/ new.weight = Given(el.weight, old.weight)

LEMMA KeptIs ==
    ASSUME NEW el, el.weight = None \/ el.weight \in Int, NEW old, KvItem(old),
           NEW new, KeptItem(old, new, el)
    PROVE  KvItem(new)
  <1>1. new.weight \in Int
    BY DEF KeptItem, KvItem, Given
  <1> QED
    BY <1>1 DEF KeptItem, KvItem

LEMMA MappingIs ==
    ASSUME NEW given \in Entries
    PROVE  LET el == AsMapping(given)
           IN  /\ el.name # None
               /\ el.form = "pair" \/ el.weight = None \/ el.weight \in Int
  <1>1. /\ given.form \in {"mapping", "pair", "string"} /\ given.name # None
        /\ given.form = "mapping" => given.weight = None \/ given.weight \in Int
    BY KvAssumption DEF KvAssumption
  <1> QED
    BY <1>1 DEF AsMapping

KvListed(list) == list = Refused \/ KvList(list)

LEMMA StoredIs ==
    ASSUME NEW list, KvList(list), NEW item, KvItem(item)
    PROVE  KvListed(Stored(list, item))
  BY PutIs DEF Stored, KvListed

LEMMA ConfigEntryIs ==
    ASSUME NEW list, KvListed(list), NEW given \in Entries, NEW index \in Nat, NEW options
    PROVE  KvListed(ConfigEntry(list, given, index, options))
  <1> DEFINE el == AsMapping(given)
             old == Current(list, el.name, index)
  <1> SUFFICES ASSUME list # Refused PROVE KvListed(ConfigEntry(list, given, index, options))
    BY DEF ConfigEntry, KvListed
  <1>1. KvList(list)
    BY DEF KvListed
  <1>2. KvItem(old)
    BY <1>1, MappingIs, CurrentIs
  <1>3. CASE el.form = "pair"
    <2> DEFINE new == [old EXCEPT !.state = "present", !.value = Value(@, el.value)]
    <2>1. ConfigEntry(list, given, index, options) = Put(list, new)
      BY <1>3 DEF ConfigEntry
    <2>2. KvItem(new)
      BY <1>2 DEF KvItem
    <2> QED
      BY <1>1, <2>1, <2>2, PutIs DEF KvListed
  <1>4. CASE el.form # "pair"
    <2> DEFINE new == [old EXCEPT !.state = StateOf(old, el), !.weight = Given(el.weight, @),
                            !.anchor = Given(el.anchor, @), !.value = Value(@, el.value),
                            !.alias = Given(el.alias, @), !.keys = el.keys @@ @,
                            !.options = Given(options, @)]
    <2>1. \/ ConfigEntry(list, given, index, options) = list
          \/ ConfigEntry(list, given, index, options) = Stored(list, new)
      BY <1>4, Zenon DEF ConfigEntry
    <2>2. KeptItem(old, new, el)
      BY <1>2 DEF KeptItem, KvItem
    <2>3. KvItem(new)
      BY <1>2, <1>4, <2>2, MappingIs, KeptIs
    <2> QED
      BY <1>1, <2>1, <2>3, StoredIs DEF KvListed
  <1> QED
    BY <1>3, <1>4

LEMMA ItemsEntryIs ==
    ASSUME NEW list, KvListed(list), NEW given \in Entries, NEW index \in Nat, NEW options
    PROVE  KvListed(ItemsEntry(list, given, index, options))
  <1> DEFINE el == AsMapping(given)
             old == Current(list, el.name, index)
             new == [old EXCEPT !.state = StateOf(old, el), !.weight = Given(el.weight, @),
                            !.anchor = Given(el.anchor, @), !.value = Given(el.value, @),
                            !.alias = Given(el.alias, @),
                            !.keys = el.keys @@ (@ @@ Defaults),
                            !.options = Given(options, @)]
  <1> SUFFICES ASSUME list # Refused, el.form # "pair"
               PROVE  KvListed(ItemsEntry(list, given, index, options))
    BY DEF ItemsEntry, KvListed
  <1>1. KvList(list)
    BY DEF KvListed
  <1>2. KvItem(old)
    BY <1>1, MappingIs, CurrentIs
  <1>3. \/ ItemsEntry(list, given, index, options) = list
        \/ ItemsEntry(list, given, index, options) = Stored(list, Filled(new))
    BY Zenon DEF ItemsEntry
  <1>4. KeptItem(old, new, el)
    BY <1>2 DEF KeptItem, KvItem
  <1>5. KvItem(new)
    BY <1>2, <1>4, MappingIs, KeptIs
  <1>6. KvItem(Filled(new))
    BY <1>5, FilledIs
  <1> QED
    BY <1>1, <1>3, <1>6, StoredIs DEF KvListed

\* One item for each name, with a weight and a place.
KvInv == read \in Seq(Entries) /\ KvListed(config) /\ KvListed(items)

LEMMA KvStarts == KvInit => KvInv
  <1>1. KvList(<<>>)
    <2>1. ItemsOf(<<>>) = {}
      BY DEF ItemsOf, ToSet
    <2> QED
      BY <2>1 DEF KvList
  <1> QED
    BY <1>1 DEF KvInit, KvInv, KvListed

LEMMA KvStep == KvInv /\ [KvNext]_kvVars => KvInv'
  <1> SUFFICES ASSUME KvInv, [KvNext]_kvVars PROVE KvInv'
    OBVIOUS
  <1>1. ASSUME NEW el \in Entries, Feed(el) PROVE KvInv'
    <2>1. Len(read) \in Nat /\ read' \in Seq(Entries)
      BY <1>1 DEF Feed, KvInv
    <2>2. /\ config' = ConfigEntry(config, el, Len(read), Options(config, el, Len(read)))
          /\ items' = ItemsEntry(items, el, Len(read), Options(items, el, Len(read)))
      BY <1>1, Zenon DEF Feed
    <2>3. KvListed(config') /\ KvListed(items')
      BY <2>1, <2>2, ConfigEntryIs, ItemsEntryIs DEF KvInv
    <2> QED
      BY <2>1, <2>3 DEF KvInv
  <1>2. CASE UNCHANGED kvVars
    BY <1>2 DEF kvVars, KvInv, KvListed
  <1> QED
    BY <1>1, <1>2 DEF KvNext

LEMMA KvSorts == KvInv => SortIsRight
  <1> SUFFICES ASSUME KvInv PROVE SortIsRight
    OBVIOUS
  <1>1. EveryItemOnce
    <2>1. ASSUME NEW list \in {config, items}, list # Refused
          PROVE  \/ /\ SortItems(list) = Refused
                    /\ \E k \in Anchored(list) : Under(list, list[At(list, list[k].anchor)], list[k])
                 \/ Len(SortItems(list)) = Len(list) /\ ToSet(SortItems(list)) = ToSet(list)
      <3>1. KvList(list)
        BY <2>1 DEF KvInv, KvListed
      <3> QED
        BY <3>1, AllOnce
    <2> QED
      BY <2>1, Zenon DEF EveryItemOnce
  <1>2. BesideItsAnchor
    <2> SUFFICES ASSUME config # Refused, SortItems(config) # Refused,
                        NEW i \in 1..Len(SortItems(config)), NEW j \in 1..Len(SortItems(config)),
                        SortItems(config)[i].anchor = SortItems(config)[j].name
                 PROVE  LET sorted == SortItems(config)
                        IN  /\ i < j <=> sorted[i].weight < 0
                            /\ \A k \in 1..Len(sorted) :
                                   (i < k /\ k < j) \/ (j < k /\ k < i) => Under(config, sorted[k], sorted[j])
                            /\ \A k \in 1..Len(sorted) :
                                   /\ sorted[k].anchor = sorted[j].name
                                   /\ sorted[k].weight < 0 <=> sorted[i].weight < 0
                                   /\ sorted[k].first < sorted[i].first
                                   => k < i
      BY Zenon DEF BesideItsAnchor
    <2>1. KvList(config)
      BY DEF KvInv, KvListed
    <2> QED
      BY <2>1, AllBeside
  <1>3. ZonesHold
    <2> SUFFICES ASSUME config # Refused, SortItems(config) # Refused,
                        NEW i \in 1..Len(SortItems(config)), NEW j \in 1..Len(SortItems(config)),
                        SortItems(config)[i].anchor = None \/ ~Known(config, SortItems(config)[i].anchor),
                        SortItems(config)[j].anchor = None \/ ~Known(config, SortItems(config)[j].anchor),
                        HigherUp(SortItems(config)[i], SortItems(config)[j])
                 PROVE  i < j
      BY Zenon DEF ZonesHold
    <2>1. KvList(config)
      BY DEF KvInv, KvListed
    <2> QED
      BY <2>1, AllZoned
  <1> QED
    BY <1>1, <1>2, <1>3 DEF SortIsRight

\* Every list of items is sorted as it should be, however many entries it is
\* made of: none is lost, what is anchored is beside its anchor, and the rest
\* keeps its zones (parse_kv_config, parse_kv_items, _sort_parsed_items).
THEOREM Sorting == KvSpec => []SortIsRight
  BY KvStarts, KvStep, KvSorts, PTL DEF KvSpec
=============================================================================
