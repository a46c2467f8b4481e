----------------------------- MODULE RepositorySync -----------------------------
(***************************************************************************)
(* Two programs around one branch: the workflow that runs a validation     *)
(* cycle and pushes the journal to master, and scripts/auto-sync.sh, which *)
(* keeps a clone at master and its dependencies installed.  Both work in   *)
(* several steps, while developers push and a user works in the clone.     *)
(*                                                                         *)
(* A commit is the journal and the dependency manifests in its tree; a     *)
(* branch of the clone is a prefix of master, perhaps with local commits.  *)
(***************************************************************************)
EXTENDS Naturals, SequencesExt

CONSTANTS
    Daemons,     \* invocations of auto-sync.sh
    Alerts,      \* what validation cycles may find
    MaxCommits,  \* bound: commits on master
    MaxStarts,   \* bound: starts of auto-sync.sh
    MaxEdits     \* bound: edits, commits and checkouts of the user

ASSUME SyncAssumption == {MaxCommits, MaxStarts, MaxEdits} \subseteq Nat

VARIABLES
    master,      \* origin/master
    job,         \* the workflow's step
    base,        \* the length of master that the job checked out
    found,       \* the journal in the job's tree
    lock,        \* whether LOCK_DIR exists
    daemon,      \* per daemon: its step
    local_head,  \* per daemon: the local variable
    branch,      \* the clone's current branch
    heads,       \* per branch of the clone: how much of master it has
    ahead,       \* per branch: whether it has local commits
    dirty,       \* whether the tree has uncommitted changes
    synced,      \* history: the last commit a daemon pulled
    installed,   \* the manifest whose requirements are installed
    missed,      \* history: an installation failed or was killed, or it read the
                 \* tree of another branch, or was compared with one
    starts, edits

workflow == <<job, base, found>>
tree == <<branch, ahead, dirty, edits>>
environment == <<synced, installed, missed>>
daemons == <<lock, daemon, local_head, heads, environment, starts>>

syncVars == <<master, workflow, daemons, tree>>

Branches == {"master", "feature"}

Manifests == {0, 1}
Manifest(n) == master[n].manifest

\* A mutant of CanForward: the arguments of the ancestor test are swapped.
CanForwardSwapped(b) == ahead[b] /\ heads[b] = Len(master)

\* Branch b fast-forwards to master: it has no commit of its own.
CanForward(b) == ~ahead[b] /\ heads[b] < Len(master)

SyncInit ==
    /\ master = <<[alerts |-> {}, manifest |-> 0]>>
    /\ job = "idle" /\ base = 1 /\ found = {}
    /\ lock = FALSE
    /\ daemon = [d \in Daemons |-> "off"]
    /\ local_head = [d \in Daemons |-> 1]
    /\ branch = "master"
    /\ heads = [b \in Branches |-> 1] /\ ahead = [b \in Branches |-> FALSE]
    /\ dirty = FALSE
    /\ synced = 1 /\ installed = 0 /\ missed = FALSE
    /\ starts = 0 /\ edits = 0

-----------------------------------------------------------------------------
\* A developer pushes from elsewhere, perhaps with other requirements, or with
\* those of an earlier commit.
DeveloperPush ==
    /\ Len(master) < MaxCommits
    /\ \E manifest \in Manifests :
         master' = Append(master, [alerts |-> Last(master).alerts, manifest |-> manifest])
    /\ UNCHANGED <<workflow, daemons, tree>>

\* The schedule starts a job; the concurrency group admits one.
Checkout ==
    /\ job = "idle" /\ Len(master) < MaxCommits
    /\ job' = "cycle" /\ base' = Len(master) /\ found' = Last(master).alerts
    /\ UNCHANGED <<master, daemons, tree>>

\* The summary names the time, so there is always something to commit.
ValidationCycle ==
    /\ job = "cycle"
    /\ job' = "push"
    /\ found' \in {found} \cup {found \cup {a} : a \in Alerts}
    /\ UNCHANGED <<master, base, daemons, tree>>

\* The runner's tree goes with the job.
EndJob == job' = "idle" /\ base' = 1 /\ found' = {}

\* A mutant of Push: git push --force.
PushForced ==
    /\ job = "push" /\ Len(master) < MaxCommits
    /\ EndJob
    /\ master' = Append(SubSeq(master, 1, base), [alerts |-> found, manifest |-> Manifest(base)])
    /\ UNCHANGED <<daemons, tree>>

Push ==
    /\ job = "push" /\ Len(master) = base
    /\ EndJob
    /\ master' = Append(master, [alerts |-> found, manifest |-> Manifest(base)])
    /\ UNCHANGED <<daemons, tree>>

\* Master has moved: the push is rejected, and what the job found is lost.  The
\* job may also reach its time limit, at any step.
JobFails ==
    /\ job # "idle"
    /\ EndJob
    /\ UNCHANGED <<master, daemons, tree>>

-----------------------------------------------------------------------------
\* The user of the clone; the local validation runner, whose journal is a
\* tracked file, edits too.
Edit ==
    /\ edits < MaxEdits /\ edits' = edits + 1
    /\ dirty' = ~dirty
    /\ UNCHANGED <<master, workflow, daemons, branch, ahead>>

Commit ==
    /\ dirty
    /\ edits < MaxEdits /\ edits' = edits + 1
    /\ dirty' = FALSE
    /\ ahead' = [ahead EXCEPT ![branch] = TRUE]
    /\ UNCHANGED <<master, workflow, daemons, branch>>

SwitchBranch ==
    /\ edits < MaxEdits /\ edits' = edits + 1
    /\ branch' \in Branches \ {branch}
    /\ UNCHANGED <<master, workflow, daemons, ahead, dirty>>

-----------------------------------------------------------------------------
At(d, step) == daemon[d] = step
Step(d, step) == daemon' = [daemon EXCEPT ![d] = step]

\* mkdir makes the lock or fails: of two daemons, one starts.
StartDaemon(d) ==
    /\ At(d, "off") /\ starts < MaxStarts /\ starts' = starts + 1
    /\ ~lock /\ lock' = TRUE
    /\ Step(d, "check")
    /\ UNCHANGED <<master, workflow, local_head, heads, environment, tree>>

\* A mutant of StartRefused: the trap that removes the lock is set first.
StartRefusedTrapped(d) ==
    /\ At(d, "off") /\ starts < MaxStarts /\ starts' = starts + 1
    /\ lock /\ lock' = FALSE
    /\ UNCHANGED <<master, workflow, daemon, local_head, heads, environment, tree>>

\* The other one exits before it sets the trap that removes the lock.
StartRefused(d) ==
    /\ At(d, "off") /\ starts < MaxStarts /\ starts' = starts + 1
    /\ lock
    /\ UNCHANGED <<master, workflow, lock, daemon, local_head, heads, environment, tree>>

Check(d) ==
    /\ At(d, "check")
    /\ Step(d, IF branch = "master" /\ ~dirty THEN "fetch" ELSE "sleep")
    /\ UNCHANGED <<master, workflow, lock, local_head, heads, environment, starts, tree>>

\* HEAD is the head of the branch that is current now.
Fetch(d) ==
    /\ At(d, "fetch")
    /\ local_head' = [local_head EXCEPT ![d] = heads[branch]]
    /\ Step(d, IF CanForward(branch) THEN "pull" ELSE "sleep")
    /\ UNCHANGED <<master, workflow, lock, heads, environment, starts, tree>>

\* A fetch or a pull without an answer, or a pull that git refuses.
GitFails(d) ==
    /\ daemon[d] \in {"fetch", "pull"}
    /\ Step(d, "sleep")
    /\ UNCHANGED <<master, workflow, lock, local_head, heads, environment, starts, tree>>

\* A mutant of Pull: the manifests are compared with those after the pull.
PullComparingNew(d) ==
    /\ At(d, "pull") /\ ~ahead[branch]
    /\ heads' = [heads EXCEPT ![branch] = Len(master)]
    /\ synced' = Len(master)
    /\ missed' = (missed \/ local_head[d] # synced)
    /\ Step(d, "sleep")
    /\ UNCHANGED <<master, workflow, lock, local_head, installed, starts, tree>>

\* Only fast forward: a commit made since the fetch stops it.
Pull(d) ==
    /\ At(d, "pull") /\ ~ahead[branch]
    /\ heads' = [heads EXCEPT ![branch] = Len(master)]
    /\ synced' = Len(master)
    /\ missed' = (missed \/ local_head[d] # synced)
    /\ Step(d, IF Manifest(local_head[d]) # Manifest(Len(master)) THEN "install" ELSE "sleep")
    /\ UNCHANGED <<master, workflow, lock, local_head, installed, starts, tree>>

\* pip may fail, or read the tree of a branch that was checked out since the pull.
Install(d, ok) ==
    /\ At(d, "install")
    /\ installed' = IF ok THEN Manifest(heads[branch]) ELSE installed
    /\ missed' = (missed \/ ~ok \/ heads[branch] # synced)
    /\ Step(d, "sleep")
    /\ UNCHANGED <<master, workflow, lock, local_head, heads, synced, starts, tree>>

Wake(d) ==
    /\ At(d, "sleep")
    /\ Step(d, "check")
    /\ UNCHANGED <<master, workflow, lock, local_head, heads, environment, starts, tree>>

\* The script ends: the trap removes the lock, unless it was killed outright.
Die(d, trapped) ==
    /\ daemon[d] # "off"
    /\ Step(d, "off")
    /\ lock' = ~trapped
    /\ missed' = (missed \/ At(d, "install"))
    /\ UNCHANGED <<master, workflow, local_head, heads, synced, installed, starts, tree>>

Round(d) == Check(d) \/ Pull(d) \/ Wake(d) \/ \E ok \in BOOLEAN : Install(d, ok)

SyncNext ==
    \/ DeveloperPush \/ Checkout \/ ValidationCycle \/ Push \/ JobFails
    \/ Edit \/ Commit \/ SwitchBranch
    \/ \E d \in Daemons :
         \/ StartDaemon(d) \/ StartRefused(d) \/ Round(d) \/ Fetch(d) \/ GitFails(d)
         \/ \E trapped \in BOOLEAN : Die(d, trapped)

SyncSpec == SyncInit /\ [][SyncNext]_syncVars

\* The loop runs every thirty seconds, and a fetch or pull that is tried again
\* and again succeeds.
SyncFairness ==
    \A d \in Daemons :
        WF_syncVars(Round(d)) /\ SF_syncVars(Fetch(d)) /\ SF_syncVars(Pull(d))

-----------------------------------------------------------------------------
\* Two daemons never work on the clone at once, whichever order they are
\* started, refused, stopped and killed in.
OneDaemon == \A d, e \in Daemons : daemon[d] # "off" /\ daemon[e] # "off" => d = e

\* Neither the workflow nor the daemon drops a commit: master is only appended
\* to, and local commits stay, made before the daemon's tests or after them.
NoCommitLost ==
    [][/\ IsPrefix(master, master')
       /\ \A b \in Branches : ahead[b] => ahead'[b]]_syncVars

\* After a pull the requirements of the commit pulled last get installed, also if
\* they return to earlier ones or the user changes branches between the fetch and
\* the pull; unless pip failed, was killed or read another branch's tree, or the
\* fetch found another branch than the last pull.
DependenciesFollow ==
    ~missed /\ (\A d \in Daemons : daemon[d] # "install") => installed = Manifest(synced)

\* A daemon that keeps running on a clean master without local commits brings
\* it to origin's master, whatever requests fail on the way.
Undisturbed ==
    /\ branch = "master" /\ ~dirty /\ ~ahead["master"]
    /\ \E d \in Daemons : daemon[d] # "off"
CatchesUp == <>[]Undisturbed => <>[](heads["master"] = Len(master))
=============================================================================
