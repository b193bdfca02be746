-------------------------------- MODULE Deploy --------------------------------
(***************************************************************************)
(* deploy/install-production.sh: a release is built beside the one that    *)
(* runs, swapped in, and swapped back when it does not become healthy.     *)
(* Every command may fail, and the script ends there (set -e); it may be   *)
(* interrupted, or the machine restarted, between any two commands and in  *)
(* the middle of those that take long.  Then it may be run again.          *)
(*                                                                         *)
(* "systemctl stop" is taken to stop the service: systemd kills what does  *)
(* not stop in time.  The Python runtime, which only gains directories,    *)
(* and the files for nginx, which no rollback restores, are left out.      *)
(*                                                                         *)
(* HostedProofs extends this module and HostedRequests: where a name would *)
(* be in both, it begins with Deploy here.                                 *)
(***************************************************************************)
EXTENDS Naturals

CONSTANT MaxReleases    \* bound on the releases ever built

ASSUME ReleasesAssumption == MaxReleases \in Nat

NoRelease == 0
Partial   == MaxReleases + 1    \* a directory that is written or removed in part
Releases  == 1..MaxReleases
Contents  == Releases \cup {NoRelease, Partial}

VARIABLES
    command,    \* the command that is next, "idle" when no script runs
    runtime,    \* $RUNTIME, what the service is started from
    next,       \* $RUNTIME_NEXT
    previous,   \* $RUNTIME_PREVIOUS
    service,    \* the release that runs
    enabled,    \* the unit is started at boot
    built,      \* releases so far
    good,       \* releases that answer /healthz
    proven,     \* history: the release that last passed the health check
    exposed,    \* history: a run stopped between its swap and its end
    spent       \* history: a run removed $RUNTIME_PREVIOUS after that

dirs       == <<runtime, next, previous>>
unit       == <<service, enabled>>
history    == <<proven, exposed, spent>>
deployVars == <<command, dirs, unit, built, good, history>>

Steps == {"idle", "build", "configure", "stop", "clear", "cleared", "move away", "move in",
          "start", "check", "reload", "roll back", "remove", "move back", "start again"}

\* While the script is at these commands $RUNTIME is not what it will be.
Swapping == {"move in", "start", "check", "roll back", "remove", "move back"}

DeployTypeOK ==
    /\ command \in Steps
    /\ runtime \in Contents /\ next \in Contents /\ previous \in Contents
    /\ service \in Releases \cup {NoRelease}
    /\ enabled \in BOOLEAN
    /\ built \in 0..MaxReleases
    /\ good \subseteq Releases
    /\ proven \in Releases \cup {NoRelease}
    /\ exposed \in BOOLEAN /\ spent \in BOOLEAN

DeployInit ==
    /\ command = "idle"
    /\ runtime = NoRelease /\ next = NoRelease /\ previous = NoRelease
    /\ service = NoRelease /\ enabled = FALSE
    /\ built = 0 /\ good \in SUBSET Releases
    /\ proven = NoRelease /\ exposed = FALSE /\ spent = FALSE

Proceed(from, to) == command = from /\ command' = to

\* rm -rf of the old $RUNTIME_NEXT, and the first of the commands that fill it.
Begin ==
    /\ built < MaxReleases
    /\ Proceed("idle", "build")
    /\ built' = built + 1
    /\ next' = Partial
    /\ UNCHANGED <<runtime, previous, unit, good, history>>

Build ==
    /\ Proceed("build", "configure")
    /\ next' = built
    /\ UNCHANGED <<runtime, previous, unit, built, good, history>>

\* Certificates, addresses and the Action's key; nginx -t; systemctl enable.
Configure ==
    /\ Proceed("configure", "stop")
    /\ enabled' = TRUE
    /\ UNCHANGED <<dirs, service, built, good, history>>

StopService ==
    /\ Proceed("stop", "clear")
    /\ service' = NoRelease
    /\ UNCHANGED <<dirs, enabled, built, good, history>>

\* rm -rf "$RUNTIME_PREVIOUS", at first in part.
ClearPrevious ==
    /\ Proceed("clear", "cleared")
    /\ previous' = IF previous = NoRelease THEN NoRelease ELSE Partial
    /\ spent' = (spent \/ exposed)
    /\ UNCHANGED <<runtime, next, unit, built, good, proven, exposed>>

\* Mutants, here and below, are plausible mistakes in the definition they
\* precede; the specification uses none of them.  The directory
\* stays, and "mv" puts the next one inside it.
PreviousKept ==
    /\ Proceed("cleared", "move in")
    /\ IF previous = NoRelease THEN previous' = runtime ELSE UNCHANGED previous
    /\ runtime' = NoRelease
    /\ UNCHANGED <<next, unit, built, good, history>>

PreviousCleared ==
    /\ Proceed("cleared", "move away")
    /\ previous' = NoRelease
    /\ UNCHANGED <<runtime, next, unit, built, good, history>>

MoveAway ==
    /\ Proceed("move away", "move in")
    /\ previous' = runtime /\ runtime' = NoRelease
    /\ UNCHANGED <<next, unit, built, good, history>>

MoveIn ==
    /\ Proceed("move in", "start")
    /\ runtime' = next /\ next' = NoRelease
    /\ UNCHANGED <<previous, unit, built, good, history>>

StartService ==
    /\ Proceed("start", "check")
    /\ service' = runtime
    /\ UNCHANGED <<dirs, enabled, built, good, history>>

\* One of thirty attempts succeeds.
Healthy ==
    /\ service \in good
    /\ Proceed("check", "reload")
    /\ proven' = service /\ exposed' = FALSE /\ spent' = FALSE
    /\ UNCHANGED <<dirs, unit, built, good>>

\* None does: the release is bad, or too slow.
Unhealthy ==
    /\ Proceed("check", "roll back")
    /\ service' = NoRelease
    /\ UNCHANGED <<dirs, enabled, built, good, history>>

ReloadNginx ==
    /\ Proceed("reload", "idle")
    /\ UNCHANGED <<dirs, unit, built, good, history>>

NothingToRestore ==
    /\ previous = NoRelease
    /\ Proceed("roll back", "idle")
    /\ UNCHANGED <<dirs, unit, built, good, history>>

\* Mutant: $RUNTIME stays, and "mv" puts the old release inside it.
RuntimeKept ==
    /\ previous # NoRelease
    /\ Proceed("roll back", "start again")
    /\ previous' = NoRelease
    /\ UNCHANGED <<runtime, next, unit, built, good, history>>

\* rm -rf "$RUNTIME", at first in part.
RemoveRuntime ==
    /\ previous # NoRelease
    /\ Proceed("roll back", "remove")
    /\ runtime' = Partial
    /\ UNCHANGED <<next, previous, unit, built, good, history>>

RuntimeRemoved ==
    /\ Proceed("remove", "move back")
    /\ runtime' = NoRelease
    /\ UNCHANGED <<next, previous, unit, built, good, history>>

MoveBack ==
    /\ Proceed("move back", "start again")
    /\ runtime' = previous /\ previous' = NoRelease
    /\ UNCHANGED <<next, unit, built, good, history>>

\* systemctl start || true
StartAgain ==
    /\ Proceed("start again", "idle")
    /\ service' \in {runtime, NoRelease} \ {Partial}
    /\ UNCHANGED <<dirs, enabled, built, good, history>>

\* A command fails where the script does not expect it, or it is interrupted.
Quit ==
    /\ command # "idle"
    /\ command' = "idle"
    /\ exposed' = (exposed \/ command \in Swapping)
    /\ UNCHANGED <<dirs, unit, built, good, proven, spent>>

\* The machine restarts, and what is enabled with it.
Reboot ==
    /\ command' = "idle"
    /\ exposed' = (exposed \/ command \in Swapping)
    /\ service' = IF enabled /\ runtime # Partial THEN runtime ELSE NoRelease
    /\ UNCHANGED <<dirs, enabled, built, good, proven, spent>>

DeployNext ==
    \/ Begin \/ Build \/ Configure \/ StopService \/ ClearPrevious \/ PreviousCleared
    \/ MoveAway \/ MoveIn \/ StartService \/ Healthy \/ Unhealthy \/ ReloadNginx
    \/ NothingToRestore \/ RemoveRuntime \/ RuntimeRemoved \/ MoveBack \/ StartAgain
    \/ Quit \/ Reboot

DeploySpec == DeployInit /\ [][DeployNext]_deployVars

----------------------------------------------------------------------------
(***************************************************************************)
(* Properties.                                                             *)
(***************************************************************************)
\* Wherever the script stops, the release that last passed the health check is
\* on the disk, whole, as $RUNTIME or $RUNTIME_PREVIOUS: until a second run
\* removes $RUNTIME_PREVIOUS although the first one stopped inside its swap.
ProvenSurvives ==
    proven # NoRelease /\ ~spent => proven \in {runtime, previous}

\* When the script has ended, or stopped anywhere but inside the swap, the
\* service is started from the release that last passed the check.
ProvenIsStarted ==
    proven # NoRelease /\ ~exposed /\ ~spent /\ command = "idle" => runtime = proven
===============================================================================
