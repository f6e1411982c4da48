----------------------------- MODULE H2LoadTrial -----------------------------
(***************************************************************************)
(* One trial of h2load-rate (run_h2load_rate_trial and                     *)
(* run_h2load_against_addr, h2load_rate.rs): a server of this process, a   *)
(* child process h2load, a log file that the child writes and this process *)
(* reads once the child has ended.                                         *)
(*                                                                         *)
(* The child's stdout and stderr are pipes nobody reads before its end; a  *)
(* child that fills one stops for ever.  A log holds the lines of the      *)
(* children that wrote it, each a number, 0 for those of other processes.  *)
(* Of the docker samples, which only choose between two ways to state the  *)
(* client's load, the time they take is modelled.                          *)
(***************************************************************************)
EXTENDS Integers, Sequences

VARIABLES
  trial,      \* off, polling, sampling, stopping, joining
  child,      \* none, started, logging, blocked, exited
  server,     \* down, up, told (aborted, or shutdown stored)
  rps,        \* h2load has --rps
  appends,    \* h2load continues a log file that exists, rather than empty it
  logs,       \* path -> the children whose lines the file holds
  stale,      \* files of earlier processes are in the directory
  lines       \* what parse_h2load_log found

programVars == <<rps, appends>>
trialVars == <<trial, child, server, programVars, logs, stale, lines>>

TrialTypeOK(numbers) ==
  /\ trial \in {"off", "polling", "sampling", "stopping", "joining"}
  /\ child \in {"none", "started", "logging", "blocked", "exited"}
  /\ server \in {"down", "up", "told"}
  /\ {rps, appends, stale} \subseteq BOOLEAN
  /\ \A path \in DOMAIN logs : logs[path] \subseteq numbers
  /\ lines \subseteq numbers

\* Mutated: the repeat is no part of the name.
log_path_AnyRepeat(round, point) == point
log_path(round, point) == <<point, round>>

TrialInit ==
  /\ trial = "off" /\ child = "none" /\ server = "down" /\ rps = FALSE /\ appends = FALSE
  /\ logs = <<>> /\ lines = {}

\* What detect_h2load_capabilities finds, and what the program does besides; a
\* h2load without --log-file, or without --h3 when that is asked for, ends the
\* command.
DetectCapabilities ==
  /\ rps' \in BOOLEAN /\ appends' \in BOOLEAN
  /\ UNCHANGED <<trial, child, server, logs, stale, lines>>

Exists(path) == path \in DOMAIN logs \/ stale
Content(path) == IF path \in DOMAIN logs THEN logs[path] ELSE {0}

Written(path, content) ==
  [p \in DOMAIN logs \cup {path} |-> IF p = path THEN content ELSE logs[p]]

-----------------------------------------------------------------------------
(***************************************************************************)
(* The child.                                                              *)
(***************************************************************************)
\* --log-file: the file is there, and the lines of this child in it.
ChildLogs(path, number) ==
  /\ child = "started"
  /\ child' = "logging"
  /\ logs' = Written(path, {number} \cup (IF appends /\ Exists(path) THEN Content(path) ELSE {}))
  /\ UNCHANGED <<trial, server, programVars, stale, lines>>

ChildExits ==
  /\ child = "logging"
  /\ child' = "exited"
  /\ UNCHANGED <<trial, server, programVars, logs, stale, lines>>

\* It ends before it opened its log.
ChildQuits ==
  /\ child = "started"
  /\ child' = "exited"
  /\ UNCHANGED <<trial, server, programVars, logs, stale, lines>>

ChildBlocks ==
  /\ child = "logging"
  /\ child' = "blocked"
  /\ UNCHANGED <<trial, server, programVars, logs, stale, lines>>

-----------------------------------------------------------------------------
(***************************************************************************)
(* This process.                                                           *)
(***************************************************************************)
\* The checks that come before anything is started for this point: the quiche
\* server takes one connection; without --rps one client paces itself.
Runnable(transport, clients) == clients = 1 \/ (transport = "H2" /\ rps)

\* Server and child.
SpawnChild(transport, clients) ==
  /\ trial = "off" /\ Runnable(transport, clients)
  /\ trial' = "polling" /\ child' = "started" /\ server' = "up"
  /\ UNCHANGED <<programVars, logs, stale, lines>>

\* try_wait has none: docker stats for a child in a container, then the sleep.
Polling == trial \in {"polling", "sampling"}
Sample ==
  /\ trial = "polling" /\ child # "exited"
  /\ trial' = "sampling" /\ UNCHANGED <<child, server, programVars, logs, stale, lines>>
SampleEnds ==
  /\ trial = "sampling"
  /\ trial' = "polling" /\ UNCHANGED <<child, server, programVars, logs, stale, lines>>

\* try_wait has a status: the pipes are drained, the log is read.
Reap(path) ==
  /\ trial = "polling" /\ child = "exited" /\ Exists(path)
  /\ trial' = "stopping" /\ child' = "none" /\ lines' = Content(path)
  /\ UNCHANGED <<server, programVars, logs, stale>>

\* Mutated: the join is not preceded by the flag or the abort.
StopServer_Untold ==
  /\ trial = "stopping"
  /\ trial' = "joining" /\ UNCHANGED <<child, server, programVars, logs, stale, lines>>

\* task.abort or the shutdown flag, then await or join.
StopServer ==
  /\ trial = "stopping"
  /\ trial' = "joining" /\ server' = "told"
  /\ UNCHANGED <<child, programVars, logs, stale, lines>>

ServerEnds ==
  /\ server = "told"
  /\ server' = "down"
  /\ UNCHANGED <<trial, child, programVars, logs, stale, lines>>

\* The row is returned.
Joined ==
  /\ trial = "joining" /\ server = "down"
  /\ trial' = "off" /\ lines' = {}
  /\ UNCHANGED <<child, server, programVars, logs, stale>>

\* The process ends, by itself or not, and the server with it.  What was
\* written stays, and so may a child that goes on writing.
TrialDies ==
  /\ trial' = "off" /\ child' = "none" /\ server' = "down" /\ lines' = {} /\ logs' = <<>>
  /\ stale' = (stale \/ DOMAIN logs # {} \/ child # "none")
  /\ rps' = FALSE /\ appends' = FALSE
=============================================================================
