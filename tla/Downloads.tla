------------------------------ MODULE Downloads ------------------------------
(***************************************************************************)
(* Files of backups and restores that the agent fetches and the control    *)
(* plane puts together (vfm/agent/internal/velero/download.go,             *)
(* vfm/server/src/downloads/download-assembler.ts, and onChunk,            *)
(* finishDownload and onResult of commands.service.ts): chunks travel with *)
(* the agent's other messages over a stream that breaks and comes back on  *)
(* another replica, the memory a replica assembles them in is bounded, and *)
(* a command may be executed, and its result delivered, more than once.    *)
(* The copy is kept per file, for a time that may be none.                 *)
(*                                                                         *)
(* A log grows, so that the n-th execution of a fetch sends the n-th       *)
(* version of its file, here of n chunks; a chunk is named by its version. *)
(***************************************************************************)
EXTENDS Integers, Sequences, FiniteSets, FiniteSetsExt

CONSTANTS
  Fetches,           \* FETCH_DOWNLOAD commands of one cluster
  DownloadReplicas,
  NoFetch,
  FileKeys, FileOf,  \* rows of VeleroFile, and the one a command is about
  MaxPerCluster,     \* MAX_PER_CLUSTER
  MaxTotal,          \* MAX_TOTAL_BYTES of a replica
  MaxFile,           \* the command's maxBytes
  OutboxRoom,        \* messages on their way
  MaxVersions,       \* executions of a fetch (a bound)
  MaxBreaks          \* streams that break, agents that restart (a bound)

ASSUME DownloadsAssumption ==
  /\ NoFetch \notin Fetches /\ IsFiniteSet(Fetches) /\ FileOf \in [Fetches -> FileKeys]
  /\ MaxPerCluster \in Nat /\ MaxTotal \in Nat /\ MaxFile \in Nat /\ OutboxRoom \in Nat
  /\ MaxVersions \in Nat /\ MaxBreaks \in Nat

VARIABLES
  fetch,       \* Command.status
  execution,   \* the agent's goroutine: which version, the next chunk
  wire,        \* messages of the agent, in its outbox or on the stream
  home,        \* the replica the stream is on
  assemblies,  \* DownloadAssembler.assemblies of each replica
  total,       \* DownloadAssembler.total
  judging,     \* the result each replica is storing
  held,        \* VeleroFile: the chunks of the copy of a file
  retained,    \* the fetches whose retention is not zero
  breaks

copies == <<held, retained>>
downloadVars == <<fetch, execution, wire, home, assemblies, total, judging, copies, breaks>>

NotSending == [at |-> "none", version |-> 0, next |-> 0]
NoAssembly == [on |-> FALSE, chunks |-> <<>>, complete |-> FALSE, broken |-> FALSE]
Started == [NoAssembly EXCEPT !.on = TRUE]
NotJudging == [cmd |-> NoFetch, ok |-> FALSE, stored |-> FALSE, chunks |-> <<>>]
NotHeld == <<>>
Lapsed == <<0>>   \* there was a copy

Whole(version) == [i \in 1 .. version |-> version]

\* With so many breaks used up before.
DownloadsBegin(before) ==
  /\ fetch = [f \in Fetches |-> "SENT"]
  /\ execution = [f \in Fetches |-> NotSending]
  /\ wire = <<>> /\ home \in DownloadReplicas
  /\ assemblies = [r \in DownloadReplicas |-> [f \in Fetches |-> NoAssembly]]
  /\ total = [r \in DownloadReplicas |-> 0]
  /\ judging = [r \in DownloadReplicas |-> NotJudging]
  /\ held = [k \in FileKeys |-> NotHeld] /\ retained \in SUBSET Fetches
  /\ breaks = before

DownloadsInit == DownloadsBegin(0)

-----------------------------------------------------------------------------
(***************************************************************************)
(* The agent.  What it has forgotten it executes again; what it remembers  *)
(* it answers again, without sending the file.                             *)
(***************************************************************************)
Execution(f, what) ==
  /\ execution' = [execution EXCEPT ![f] = what]
  /\ UNCHANGED <<fetch, home, assemblies, total, judging, copies, breaks>>

Queues(message) == Len(wire) < OutboxRoom /\ wire' = Append(wire, message)
Message(what, f, number) ==
  [what |-> what, cmd |-> f, version |-> execution[f].version, number |-> number]

Deliver(f) ==
  /\ fetch[f] = "SENT" /\ execution[f].at = "none" /\ execution[f].version < MaxVersions
  /\ Execution(f, [at |-> "sending", version |-> execution[f].version + 1, next |-> 0])
  /\ UNCHANGED wire

DeliverAgain(f) ==
  /\ fetch[f] = "SENT" /\ execution[f].at \in {"done", "failed"}
  /\ Queues(Message(IF execution[f].at = "done" THEN "ok" ELSE "failed", f, 0))
  /\ Execution(f, execution[f])

\* The file, an end marker, the result.
sendChunk(f) ==
  /\ execution[f].at = "sending"
  /\ LET e == execution[f]
     IN CASE e.next < e.version -> Queues(Message("chunk", f, e.next))
          [] e.next = e.version -> Queues(Message("end", f, e.next))
          [] OTHER -> Queues(Message("ok", f, 0))
  /\ Execution(f, IF execution[f].next <= execution[f].version
                  THEN [execution[f] EXCEPT !.next = @ + 1] ELSE [execution[f] EXCEPT !.at = "done"])

\* Storage fails, the file is too large, it was cancelled, or its time is up.
sendFailure(f) ==
  /\ execution[f].at = "sending"
  /\ Queues(Message("failed", f, 0))
  /\ Execution(f, [execution[f] EXCEPT !.at = "failed"])

-----------------------------------------------------------------------------
\* What was written to the stream is lost, and the next is with any replica; a message
\* taken for it may be put back behind the others.
Break(lost) ==
  /\ breaks < MaxBreaks /\ breaks' = breaks + 1
  /\ lost <= Len(wire)
  /\ LET rest == SubSeq(wire, lost + 1, Len(wire))
     IN wire' \in {rest} \cup (IF rest = <<>> THEN {} ELSE {Append(Tail(rest), Head(rest))})
  /\ home' \in DownloadReplicas
  /\ UNCHANGED <<fetch, execution, assemblies, total, judging, copies>>

AgentRestarts ==
  /\ breaks < MaxBreaks /\ breaks' = breaks + 1
  /\ wire' = <<>>
  /\ execution' = [f \in Fetches |-> [execution[f] EXCEPT !.at = "none", !.next = 0]]
  /\ UNCHANGED <<fetch, home, assemblies, total, judging, copies>>

-----------------------------------------------------------------------------
(***************************************************************************)
(* The assembler: bytes are counted when they are added and given back     *)
(* when an assembly breaks or is dropped.                                  *)
(***************************************************************************)
Bytes(a) == Len(a.chunks)

drop_Keeps(r, f, memory) == [on |-> [memory.on EXCEPT ![f] = NoAssembly], used |-> memory.used]  \* mutant
drop(r, f, memory) ==
  [on |-> [memory.on EXCEPT ![f] = NoAssembly], used |-> memory.used - Bytes(memory.on[f])]

Others(r, f) == {g \in Fetches \ {f} : assemblies[r][g].on}

\* A first chunk starts an assembly anew, if the cluster may have another.
start(r, f, memory) ==
  LET dropped == drop(r, f, memory)
  IN IF Cardinality(Others(r, f)) >= MaxPerCluster THEN dropped
     ELSE [dropped EXCEPT !.on[f] = Started]

Broken(a, m, memory) ==
  \/ a.complete
  \/ m.number # Len(a.chunks)
  \/ m.what = "chunk" /\ (Bytes(a) + 1 > MaxFile \/ memory.used + 1 > MaxTotal)

add(r, m, memory) ==
  LET a == memory.on[m.cmd]
  IN IF ~a.on \/ a.broken THEN memory
     ELSE IF Broken(a, m, memory)
       THEN [on |-> [memory.on EXCEPT ![m.cmd] = [@ EXCEPT !.broken = TRUE, !.chunks = <<>>]],
             used |-> memory.used - Bytes(a)]
     ELSE IF m.what = "end" THEN [memory EXCEPT !.on[m.cmd].complete = TRUE]
     ELSE [on |-> [memory.on EXCEPT ![m.cmd].chunks = Append(@, m.version)], used |-> memory.used + 1]

Memory(r) == [on |-> assemblies[r], used |-> total[r]]
Remembers(r, memory) ==
  /\ assemblies' = [assemblies EXCEPT ![r] = memory.on]
  /\ total' = [total EXCEPT ![r] = memory.used]

-----------------------------------------------------------------------------
Receives(r) ==
  /\ home = r /\ wire # <<>> /\ judging[r] = NotJudging
  /\ wire' = Tail(wire)
  /\ UNCHANGED <<execution, home, copies, breaks>>

\* The first chunk is where the command's state is checked.
onChunk(r) ==
  /\ Receives(r) /\ Head(wire).what \in {"chunk", "end"}
  /\ LET m == Head(wire)
     IN IF m.number = 0
        THEN IF fetch[m.cmd] = "SENT"
             THEN Remembers(r, add(r, m, start(r, m.cmd, Memory(r))))
             ELSE UNCHANGED <<assemblies, total>>
        ELSE Remembers(r, add(r, m, Memory(r)))
  /\ UNCHANGED <<fetch, judging>>

\* Judged "before anything else": whole, and with the checksum the result names.
finish_NoChecksum(r, m) ==   \* mutant
  /\ assemblies[r][m.cmd].on /\ ~assemblies[r][m.cmd].broken /\ assemblies[r][m.cmd].complete
  /\ Len(assemblies[r][m.cmd].chunks) >= 0

finish(r, m) ==
  LET a == assemblies[r][m.cmd]
  IN a.on /\ ~a.broken /\ a.complete /\ a.chunks = Whole(m.version)

onResult(r) ==
  /\ Receives(r) /\ Head(wire).what \in {"ok", "failed"}
  /\ LET m == Head(wire)
     IN /\ Remembers(r, drop(r, m.cmd, Memory(r)))
        /\ judging' = [judging EXCEPT ![r] =
             [cmd |-> m.cmd, ok |-> m.what = "ok" /\ finish(r, m), stored |-> FALSE,
              chunks |-> assemblies[r][m.cmd].chunks]]
  /\ UNCHANGED fetch

\* cache.put, then the conditional update of the command.  A retention of zero stores nothing.
put(r) ==
  /\ judging[r].ok /\ ~judging[r].stored
  /\ held' = IF judging[r].cmd \in retained
               THEN [held EXCEPT ![FileOf[judging[r].cmd]] = judging[r].chunks] ELSE held
  /\ judging' = [judging EXCEPT ![r].stored = TRUE]
  /\ UNCHANGED <<fetch, execution, wire, home, assemblies, total, retained, breaks>>

putFails(r) ==
  /\ judging[r].ok /\ ~judging[r].stored
  /\ judging' = [judging EXCEPT ![r].ok = FALSE]
  /\ UNCHANGED <<fetch, execution, wire, home, assemblies, total, copies, breaks>>

Finished(r) ==
  /\ judging[r] # NotJudging /\ (judging[r].ok => judging[r].stored)
  /\ LET f == judging[r].cmd
     IN fetch' = [fetch EXCEPT ![f] =
          IF @ # "SENT" THEN @ ELSE IF judging[r].ok THEN "SUCCEEDED" ELSE "FAILED"]
  /\ judging' = [judging EXCEPT ![r] = NotJudging]
  /\ UNCHANGED <<execution, wire, home, assemblies, total, copies, breaks>>

\* The deadline, or an assembly nothing has touched for a while.
TimesOut(f) ==
  /\ fetch[f] = "SENT"
  /\ fetch' = [fetch EXCEPT ![f] = "TIMED_OUT"]
  /\ UNCHANGED <<execution, wire, home, assemblies, total, judging, copies, breaks>>

expire(r, f) ==
  /\ assemblies[r][f].on
  /\ Remembers(r, drop(r, f, Memory(r)))
  /\ UNCHANGED <<fetch, execution, wire, home, judging, copies, breaks>>

\* A copy expires, after days or, of an object that is still running, after seconds.
purge(k) ==
  /\ held[k] # NotHeld
  /\ held' = [held EXCEPT ![k] = Lapsed]
  /\ UNCHANGED <<fetch, execution, wire, home, assemblies, total, judging, retained, breaks>>

-----------------------------------------------------------------------------
DownloadsNext ==
  \/ \E f \in Fetches : Deliver(f) \/ DeliverAgain(f) \/ sendChunk(f) \/ sendFailure(f) \/ TimesOut(f)
  \/ \E r \in DownloadReplicas :
       \/ onChunk(r) \/ onResult(r) \/ put(r) \/ putFails(r) \/ Finished(r)
       \/ \E f \in Fetches : expire(r, f)
  \/ \E lost \in 0 .. OutboxRoom : Break(lost)
  \/ \E k \in FileKeys : purge(k)
  \/ AgentRestarts

DownloadsSpec == DownloadsInit /\ [][DownloadsNext]_downloadVars

-----------------------------------------------------------------------------
DownloadsTypeOK ==
  /\ fetch \in [Fetches -> {"SENT", "SUCCEEDED", "FAILED", "TIMED_OUT"}]
  /\ \A f \in Fetches : execution[f].version \in 0 .. MaxVersions
  /\ Len(wire) <= OutboxRoom /\ home \in DownloadReplicas
  /\ breaks \in 0 .. MaxBreaks

(***************************************************************************)
(* "The replica holds a fixed total": whatever breaks, restarts, expires   *)
(* or is refused, what a replica counts is what it holds, within its       *)
(* limits, and a broken assembly holds nothing.                            *)
(***************************************************************************)
AccountsAddUp ==
  \A r \in DownloadReplicas :
    /\ total[r] = MapThenSumSet(LAMBDA f : Bytes(assemblies[r][f]), Fetches)
    /\ total[r] <= MaxTotal
    /\ Cardinality({f \in Fetches : assemblies[r][f].on}) <= MaxPerCluster

(***************************************************************************)
(* "A log that is quietly missing a piece is worse than none": the copy    *)
(* that is held of a file is one version of it, whole, although chunks of  *)
(* two executions, lost or out of order, meet in one assembly, and two     *)
(* fetches write one row; and a fetch that succeeded, and whose retention  *)
(* is not zero, has left one, which may have expired since.                *)
(***************************************************************************)
HeldIsWhole ==
  /\ \A k \in FileKeys :
       held[k] \in {NotHeld, Lapsed} \/ \E version \in 1 .. MaxVersions : held[k] = Whole(version)
  /\ \A f \in retained : fetch[f] = "SUCCEEDED" => held[FileOf[f]] # NotHeld
=============================================================================
