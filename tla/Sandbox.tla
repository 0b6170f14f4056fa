------------------------------ MODULE Sandbox ------------------------------
(***************************************************************************)
(* The workspace of an episode and the tool calls the model makes on it:   *)
(* docker_workspace.py (DockerWorkspace, RemoteDockerWorkspace),           *)
(* remote_workspace.py on the host of the remote one, and cline_tools.py.  *)
(*                                                                         *)
(* Files are read and written in a directory of the controller, the        *)
(* mirror.  A local container mounts it.  A remote container mounts a      *)
(* directory of its own host: a command pushes the mirror there, runs, and *)
(* pulls the result back.  rsync is called without --delete, so a copy     *)
(* only adds and overwrites.  A failed copy has transferred some files.    *)
(*                                                                         *)
(* expected and unsure do not exist in the code: they are the files as the *)
(* observations told the model, and those a failed call was about.         *)
(***************************************************************************)
EXTENDS Naturals

CONSTANTS
  Files,      \* the paths safe_relative_path lets the model use
  Contents,   \* what a file may hold
  Stub,       \* workspace.initial_files: file -> content or None
  Backends,   \* the workspace backends to consider
  MaxFaults,  \* bound: how often something goes wrong
  None

ASSUME SandboxAssumption ==
  /\ Backends \subseteq {"local", "remote"} /\ None \notin Contents
  /\ Stub \in [Files -> Contents \cup {None}] /\ MaxFaults \in Nat

VARIABLES
  backend,   \* workspace_backend of the execution config
  container, \* whether the container exists
  started,   \* _started of the workspace object
  mirror,    \* the controller's directory: file -> content or None
  remote,    \* the directory on the remote host
  step,      \* where the tool call in progress is
  change,    \* what its command does: <<file, content or None>>, or None
  obs,       \* how its command ended: "ok" or "error"
  pending,   \* changes of commands that timed out and still run
  expected, unsure,
  faults

box == <<backend, container, started, mirror, remote, step, change, obs,
         pending, expected, unsure, faults>>

Values == Contents \cup {None}
Changes == Files \X Values

Fault == faults < MaxFaults /\ faults' = faults + 1

SandboxInit ==
  /\ backend \in Backends /\ container = FALSE /\ started = FALSE
  /\ mirror = [f \in Files |-> None] /\ remote = [f \in Files |-> None]
  /\ step = "idle" /\ change = None /\ obs = "ok"
  /\ pending = {} /\ expected = mirror /\ unsure = {} /\ faults = 0

\* The directory is created anew, with these files.
Create(files) ==
  /\ mirror' = files /\ expected' = files
  /\ UNCHANGED <<backend, container, started, remote, step, change, obs, pending,
                 unsure, faults>>

\* rsync -a of these files from one directory into the other.
MutCopied(from, to, some) ==   \* deliberately wrong: an older copy is kept
  [f \in Files |-> IF f \in some /\ to[f] = None THEN from[f] ELSE to[f]]

Copied(from, to, some) ==
  [f \in Files |-> IF f \in some /\ from[f] # None THEN from[f] ELSE to[f]]

Applied(dir, c) == IF c = None THEN dir ELSE [dir EXCEPT ![c[1]] = c[2]]

\* The model learns that a change was made, or that it may have been.
Learns(c, result) ==
  IF c = None THEN UNCHANGED <<expected, unsure>>
  ELSE IF result = "ok"
    THEN expected' = Applied(expected, c) /\ unsure' = unsure \ {c[1]}
    ELSE unsure' = unsure \cup {c[1]} /\ UNCHANGED expected

-----------------------------------------------------------------------------
\* __enter__ and __exit__.  Only a start that returns is followed by a stop.
lifeFrame == <<backend, mirror, step, change, obs, pending, expected, unsure>>

\* A remote start: preflight, workspace-create and the first copy.
FirstCopy(some) ==
  remote' = IF backend = "remote" THEN Copied(mirror, remote, some) ELSE remote

Start ==
  /\ container' = TRUE /\ started' = TRUE
  /\ FirstCopy(Files)
  /\ UNCHANGED <<lifeFrame, faults>>

\* The preflight of the workspace host finds no docker, image or directory.
HostNotReady ==
  /\ backend = "remote" /\ Fault
  /\ UNCHANGED <<lifeFrame, container, started, remote>>

\* docker run timed out or the first copy failed: the container may be there.
StartFails ==
  /\ Fault
  /\ container' \in BOOLEAN
  /\ \E some \in SUBSET Files : FirstCopy(IF container' THEN some ELSE {})
  /\ UNCHANGED <<lifeFrame, started>>

\* docker stop and docker rm -f, or workspace-destroy: the commands that were
\* still running end with the container.
MutStop ==   \* deliberately wrong: stopped, not removed
  /\ started' = FALSE
  /\ UNCHANGED <<backend, container, mirror, remote, step, change, obs, pending,
                 expected, unsure, faults>>

Stop ==
  /\ started' = FALSE /\ container' = FALSE /\ pending' = {}
  /\ UNCHANGED <<backend, mirror, remote, step, change, obs, expected, unsure, faults>>

\* A workspace-destroy that fails is not noticed.
StopLost ==
  /\ backend = "remote" /\ Fault
  /\ started' = FALSE
  /\ UNCHANGED <<lifeFrame, container, remote>>

\* docker stop is not back within 30 seconds: TimeoutExpired, without the rm.
StopRaises ==
  /\ backend = "local" /\ Fault
  /\ UNCHANGED <<lifeFrame, container, started, remote>>

-----------------------------------------------------------------------------
\* The tool calls.  Whatever one raises becomes an observation of the model.
callFrame == <<backend, container, started>>

\* read_file, list_files, a replace_in_file without a match, and a tool that
\* raises before it does anything, as apply_patch always does on a local
\* workspace: its definition (415-418) stands behind the raise of another
\* function.
Look ==
  /\ step = "idle"
  /\ UNCHANGED box

\* write_to_file, and replace_in_file of a file that is there.
WriteFile(f, v) ==
  /\ step = "idle"
  /\ mirror' = Applied(mirror, <<f, v>>)
  /\ Learns(<<f, v>>, "ok")
  /\ UNCHANGED <<callFrame, remote, step, change, obs, pending, faults>>

\* execute_command, and apply_patch on a remote workspace.
Command(c) ==
  /\ step = "idle" /\ step' = IF backend = "remote" THEN "push" ELSE "run"
  /\ change' = c
  /\ UNCHANGED <<callFrame, mirror, remote, obs, pending, expected, unsure, faults>>

\* search_files runs rg, which changes nothing.
Search == Command(None)

Push ==
  /\ step = "push" /\ step' = "run"
  /\ remote' = Copied(mirror, remote, Files)
  /\ UNCHANGED <<callFrame, mirror, change, obs, pending, expected, unsure, faults>>

PushFails ==
  /\ step = "push" /\ step' = "idle" /\ Fault
  /\ \E some \in SUBSET Files : remote' = Copied(mirror, remote, some)
  /\ change' = None
  /\ UNCHANGED <<callFrame, mirror, obs, pending, expected, unsure>>

\* The command works on the directory its container mounts.
Works(dir) ==
  IF backend = "remote" THEN remote' = dir /\ UNCHANGED mirror
                        ELSE mirror' = dir /\ UNCHANGED remote

Mounted == IF backend = "remote" THEN remote ELSE mirror

\* The result of a remote command is pulled whatever became of it.
AfterRun ==
  IF backend = "remote" THEN step' = "pull" /\ UNCHANGED change
                        ELSE step' = "idle" /\ change' = None

\* The command ends by itself; one that fails has done its work or not.
RunEnds(result) ==
  /\ step = "run" /\ obs' = result
  /\ \/ Works(Applied(Mounted, change))
     \/ result = "error" /\ Works(Mounted)
  /\ Learns(change, result)
  /\ AfterRun
  /\ UNCHANGED <<callFrame, pending, faults>>

\* The docker or ssh client gives up, the command goes on.
RunTimesOut ==
  /\ step = "run" /\ obs' = "error" /\ Fault
  /\ pending' = IF change = None THEN pending ELSE pending \cup {change}
  /\ Learns(change, "error")
  /\ AfterRun
  /\ UNCHANGED <<callFrame, mirror, remote>>

MutPull ==   \* deliberately wrong: nothing is copied back
  /\ step = "pull" /\ step' = "idle"
  /\ change' = None
  /\ UNCHANGED <<callFrame, mirror, remote, obs, pending, expected, unsure, faults>>

Pull ==
  /\ step = "pull" /\ step' = "idle"
  /\ mirror' = Copied(remote, mirror, Files)
  /\ change' = None
  /\ UNCHANGED <<callFrame, remote, obs, pending, expected, unsure, faults>>

PullFails ==
  /\ step = "pull" /\ step' = "idle" /\ Fault
  /\ \E some \in SUBSET Files : mirror' = Copied(remote, mirror, some)
  /\ Learns(change, "error")
  /\ change' = None
  /\ UNCHANGED <<callFrame, remote, obs, pending>>

\* A command that timed out does its work after all.
Linger(c) ==
  /\ c \in pending /\ pending' = pending \ {c}
  /\ Works(Applied(Mounted, c))
  /\ Learns(c, "error")
  /\ UNCHANGED <<callFrame, step, change, obs, faults>>

StartTool ==
  \/ Look
  \/ \E f \in Files, v \in Contents : WriteFile(f, v)
  \/ Search \/ \E c \in Changes : Command(c)

ToolStep ==
  \/ Push \/ PushFails
  \/ \E result \in {"ok", "error"} : RunEnds(result)
  \/ RunTimesOut \/ Pull \/ PullFails

-----------------------------------------------------------------------------
SandboxTypeOK ==
  /\ backend \in {"local", "remote"} /\ container \in BOOLEAN /\ started \in BOOLEAN
  /\ mirror \in [Files -> Values] /\ remote \in [Files -> Values]
  /\ step \in {"idle", "push", "run", "pull"}
  /\ change \in Changes \cup {None} /\ obs \in {"ok", "error"}
  /\ pending \subseteq Changes
  /\ expected \in [Files -> Values] /\ unsure \subseteq Files
  /\ faults \in 0 .. MaxFaults

\* "The existing Cline tool semantics remain unchanged": a file that no failed
\* call was about holds what the calls made of it, however many commands,
\* copies and lost connections came in between.  A file that a command
\* removes on a remote workspace is excepted: no copy carries the removal, the
\* mirror keeps the file and gives it back to the next command
\* (docker_workspace.py:230-232, 306-346).
WorkspaceAsTold ==
  step = "idle" => \A f \in Files \ unsure :
    \/ mirror[f] = expected[f]
    \/ backend = "remote" /\ expected[f] = None
=============================================================================
